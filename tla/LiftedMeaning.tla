--------------------------- MODULE LiftedMeaning ---------------------------
(***************************************************************************)
(* What a module with procedures does when it runs, and that lifting its   *)
(* procedures does not change it.  One interpreter serves both, the module *)
(* as it was parsed and as the lambda lifter leaves it.                    *)
(***************************************************************************)
EXTENDS LambdaLifter

CONSTANTS MaxDepth      \* calls that may be active at a time

ASSUME DepthAssumption == MaxDepth \in Nat

-----------------------------------------------------------------------------
(* Running a program.  The memory is a sequence of values, an address a    *)
(* location in it and a path into the value there.  bindings gives every   *)
(* visible declaration its address.                                        *)

RECURSIVE Zero(_, _)
Zero(records, type) ==
    IF type = Integer THEN 0
    ELSE [x \in Names(records[type]) |-> Zero(records, FieldOf(records[type], x).type)]

RECURSIVE Put(_, _, _)
Put(value, path, new) ==
    IF path = <<>> THEN new
    ELSE [value EXCEPT ![Head(path)] = Put(@, Tail(path), new)]

Address(s, e) ==
    [loc |-> s.bindings[e.decl].loc, path |-> s.bindings[e.decl].path \o e.path]

Value(s, e) ==
    IF e.decl = Literal THEN e.add
    ELSE LET a == Address(s, e)
             v == FoldLeft(LAMBDA w, x : w[x], s.memory[a.loc], a.path)
         IN  IF e.add = 0 THEN v ELSE v + e.add

Store(s, e, value) ==
    LET a == Address(s, e)
    IN  [s EXCEPT !.memory[a.loc] = Put(@, a.path, value)]

(* What the procedure called finds in memory and under its names: its       *)
(* parameters, its variables, set to zero, and the declarations around it.  *)
Enter(prog, call, s) ==
    LET p == prog.procs[call.proc]
        base == Len(s.memory)
        places == base + Len(p.params)
        outer == {d \in DOMAIN s.bindings :
                    d.proc \in {Module} \cup Around(prog.procs, call.proc)}
        param(i) == IF p.params[i].var THEN Address(s, call.args[i])
                                       ELSE [loc |-> base + i, path |-> <<>>]
        place(x) ==
            IF x \in Names(p.params)
            THEN param(SelectInSeq(p.params, LAMBDA f : f.name = x))
            ELSE [loc |-> places + SelectInSeq(p.vars, LAMBDA f : f.name = x),
                  path |-> <<>>]
    IN  [s EXCEPT
           !.memory = @ \o [i \in DOMAIN p.params |-> Value(s, call.args[i])]
                        \o [i \in DOMAIN p.vars |-> Zero(prog.records, p.vars[i].type)],
           !.bindings = [d \in outer \cup Own(prog.procs, call.proc) |->
                           IF d \in outer THEN @[d] ELSE place(d.name)],
           !.depth = @ + 1]

(* Back in the caller: its names again, and the result if there is one. *)
Leave(call, caller, s) ==
    IF s.status \notin {"running", "returned"} THEN s
    ELSE LET back == [s EXCEPT !.memory = SubSeq(@, 1, Len(caller.memory)),
                               !.bindings = caller.bindings,
                               !.depth = caller.depth, !.status = "running"]
         IN  IF call.to = None THEN back ELSE Store(back, call.to, s.result)

RECURSIVE Run(_, _, _)
(* A call with parameters that do not fit is undefined ("stuck"). *)
Run(prog, body, s) ==
    IF body = <<>> \/ s.status # "running" THEN s
    ELSE LET st == Head(body)
             guarded == IF st.op = "if" /\ Value(s, st.cond) <= 0 THEN st.then ELSE 0
             after ==
                CASE st.op = "assign" -> Store(s, st.lhs, Value(s, st.rhs))
                  [] st.op = "if" -> s
                  [] st.op = "return" ->
                       [s EXCEPT !.status = "returned",
                                 !.result = IF st.value = None THEN @ ELSE Value(s, st.value)]
                  [] st.op = "call" /\ ~Fits(prog, st) -> [s EXCEPT !.status = "stuck"]
                  [] st.op = "call" /\ Fits(prog, st) /\ s.depth = MaxDepth ->
                       [s EXCEPT !.status = "deep"]
                  [] OTHER -> Leave(st, s, Run(prog, prog.procs[st.proc].body,
                                               [Enter(prog, st, s) EXCEPT !.result = 0]))
         IN  Run(prog, SubSeq(body, 2 + guarded, Len(body)), after)

(* The module's variables when its body has ended. *)
Outcome(prog) ==
    LET n == Len(prog.globals)
        s == Run(prog, prog.body,
                 [memory |-> [i \in 1..n |-> 0],
                  bindings |-> [d \in {Decl(Module, prog.globals[i]) : i \in 1..n} |->
                                  [loc |-> SelectInSeq(prog.globals,
                                                       LAMBDA x : x = d.name),
                                   path |-> <<>>]],
                  depth |-> 0, status |-> "running", result |-> 0])
    IN  [status |-> s.status, memory |-> s.memory]
-----------------------------------------------------------------------------
(* Where the environment, being a copy, is known to lose updates.           *)

IsSuper(p) == source.procs[p].nested # <<>>

IsNested(p) == source.procs[p].scope > ModuleScope

VarParams(p) == {Decl(p, f.name) : f \in {g \in ToSet(source.procs[p].params) : g.var}}

(* RETURN comes before the assignments that CopyOut appended. *)
ReturnsBeforeCopyOut(p) ==
    /\ IsSuper(p)
    /\ VarParams(p) # {} \/ IsNested(p)
    /\ \E s \in ToSet(source.procs[p].body) : s.op = "return"

VarActuals(s) ==
    {i \in DOMAIN s.args : source.procs[s.proc].params[i].var}

(* Nobody but p, in which the call is, knows g, and p is not active twice.  *)
KnownTo(p, g) ==
    /\ \A q \in ProcNames \ {p} : g \notin Mentions(source.procs[q].body)
    /\ \A q \in ProcNames : \A s \in Calls(source.procs[q].body) : s.proc # p

(* While a procedure with nested ones works on a copy of its VAR parameter, *)
(* nothing else may reach the actual one.                                   *)
CopiesAlone(p, s) ==
    IsSuper(s.proc) =>
        /\ \A i, j \in VarActuals(s) : s.args[i].decl = s.args[j].decl => i = j
        /\ \A i \in VarActuals(s) :
              LET d == s.args[i].decl
              IN  IF d.proc = Module THEN KnownTo(p, d)
                  ELSE /\ ~IsNested(s.proc)
                       /\ \A q \in ProcNames : d \in VarParams(q) => IsSuper(q)

Bodies == [p \in ProcNames \cup {Module} |->
             IF p = Module THEN source.body ELSE source.procs[p].body]

Harmless ==
    /\ \A p \in ProcNames :
          /\ ~ReturnsBeforeCopyOut(p)
          /\ \A s \in Calls(Bodies[p]) : ~WrongEnvironment(p, s.proc)
    /\ \A p \in ProcNames \cup {Module} : \A s \in Calls(Bodies[p]) : CopiesAlone(p, s)

(* The lifted module does what the nested one does, wherever values travel: *)
(* down as parameters, up through VAR parameters, sideways through outer    *)
(* variables, over several levels and under shadowed names.  It need not,   *)
(* where the environment is known to lose updates.                          *)
LiftedDoesTheSame ==
    Lifted /\ Harmless =>
        LET before == Outcome(source)
        IN  before.status = "running" => Outcome(program) = before
=============================================================================
