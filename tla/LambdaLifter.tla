---------------------------- MODULE LambdaLifter ----------------------------
(***************************************************************************)
(* lib/analyzer/LambdaLifter: nested procedures become procedures of the   *)
(* module.  A procedure with nested ones keeps its parameters and          *)
(* variables in a record _this, its environment, that it passes to them as *)
(* the VAR parameter _super.  The pass walks the list of the module's      *)
(* procedures once; what it lifts is appended to that list.  One action is *)
(* one call of visit(ProcedureDefinitionNode).                             *)
(***************************************************************************)
EXTENDS Procedures

CONSTANTS Programs,     \* modules that the semantic analysis accepts
          This, Super   \* "_this", "_super"

(* The scanner accepts names that begin with _, but the pass relies on     *)
(* this: _this and _super are its own.                                     *)
ASSUME ProgramsAssumption ==
    /\ This # Super
    /\ \A prog \in Programs :
          /\ Accepted(prog)
          /\ prog.records = [p \in DOMAIN prog.procs |-> <<>>]
          /\ \A p \in DOMAIN prog.procs :
                /\ {This, Super} \cap (Names(prog.procs[p].params) \cup Names(prog.procs[p].vars)) = {}
                /\ Literal \notin {Decl(p, This), Decl(p, Super)}

VARIABLES source,       \* the module as it was parsed
          program,      \* the module as it is now
          next,         \* position in the list of the module's procedures
          crashed       \* a null expression was dereferenced

vars == <<source, program, next, crashed>>

ModuleScope == 1

Init ==
    /\ source \in Programs
    /\ program = source
    /\ next = 1
    /\ crashed = FALSE

Done == crashed \/ next > Len(program.order)

Name == program.order[next]
Node == program.procs[Name]

ScopeOf(prog, d) ==
    IF d.proc = Module THEN ModuleScope ELSE prog.procs[d.proc].scope + 1

-----------------------------------------------------------------------------
(* envFieldResolver: the selectors from an environment to the field of the  *)
(* declaration's name and type, from there outwards.                        *)
FieldPath(prog, env, d) ==
    LET levels == 0 .. ScopeOf(prog, env)
        outer[n \in levels] ==
            IF n = 0 THEN DeclType(prog.procs, env)
            ELSE IF Super \in Names(prog.records[outer[n - 1]])
                 THEN FieldOf(prog.records[outer[n - 1]], Super).type ELSE outer[n - 1]
        Found(n) == \E i \in DOMAIN prog.records[outer[n]] :
                       prog.records[outer[n]][i] = Variable(d.name, DeclType(prog.procs, d))
        Stops(n) == Found(n) \/ Super \notin Names(prog.records[outer[n]])
        last == CHOOSE n \in levels : Stops(n) /\ \A m \in 0 .. n - 1 : ~Stops(m)
    IN  [i \in 1 .. last |-> Super] \o IF Found(last) THEN <<d.name>> ELSE <<>>

(* Mutant: in a leaf every variable is taken for one of its own. *)
ResolveLeafLocal(prog, env, e) ==
    IF e.decl = Literal \/ ScopeOf(prog, e.decl) = ModuleScope \/ env.name = Super
    THEN e
    ELSE [e EXCEPT !.decl = env,
                   !.path = FieldPath(prog, env, e.decl) \o @]

(* visit(QualifiedExpression) with env_ = env.  In a leaf env is _super and *)
(* the procedure's own declarations are left alone.                         *)
Resolve(prog, env, e) ==
    IF \/ e.decl = Literal
       \/ ScopeOf(prog, e.decl) = ModuleScope
       \/ env.name = Super /\ ScopeOf(prog, env) = ScopeOf(prog, e.decl)
    THEN e
    ELSE [e EXCEPT !.decl = env,
                   !.path = FieldPath(prog, env, e.decl) \o @]

(* Mutant: every call gets the environment. *)
ActualsAlways(prog, env, s) ==
    Append([i \in DOMAIN s.args |-> Resolve(prog, env, s.args[i])], Plain(env))

(* selectors(): a call whose callee has one more formal than there are      *)
(* actual parameters gets the environment.                                  *)
Actuals(prog, env, s) ==
    LET args == [i \in DOMAIN s.args |-> Resolve(prog, env, s.args[i])]
    IN  IF Len(prog.procs[s.proc].params) > Len(args)
        THEN Append(args, Plain(env)) ELSE args

Rewritten(prog, env, s) ==
    LET optional(e) == IF e = None THEN None ELSE Resolve(prog, env, e) IN
    CASE s.op = "assign" -> [s EXCEPT !.lhs = Resolve(prog, env, @), !.rhs = Resolve(prog, env, @)]
      [] s.op = "call" -> [s EXCEPT !.args = Actuals(prog, env, s), !.to = optional(@)]
      [] s.op = "if" -> [s EXCEPT !.cond = Resolve(prog, env, @)]
      [] s.op = "return" -> [s EXCEPT !.value = optional(@)]

Rewrite(prog, env, body) == [i \in DOMAIN body |-> Rewritten(prog, env, body[i])]

(* visit(ReturnNode) dereferences the value, and RETURN may have none. *)
BareReturn(body) == \E s \in ToSet(body) : s.op = "return" /\ s.value = None

(* The loop over the nested procedures counts a list it removes from. *)
Moved(nested) == [i \in 1..((Len(nested) + 1) \div 2) |-> nested[2 * i - 1]]
Stays(nested) == [i \in 1..(Len(nested) \div 2) |-> nested[2 * i]]

Hoist(prog, p) ==
    [prog EXCEPT !.procs[p].nested = Stays(@),
                 !.order = @ \o Moved(prog.procs[p].nested)]

(* A nested procedure that was lifted is now declared in the module. *)
Settle(prog, p) == [prog EXCEPT !.procs[p].scope = ModuleScope]

-----------------------------------------------------------------------------
Fields(node) ==
    [i \in DOMAIN node.params |-> Variable(node.params[i].name, node.params[i].type)]
        \o node.vars

(* The type of p's environment, _super for the procedures in p, _this in p. *)
AddEnvironment(prog, p) ==
    [prog EXCEPT
       !.records[p] = Fields(prog.procs[p]),
       !.procs = [q \in DOMAIN prog.procs |->
            CASE q \in ToSet(prog.procs[p].nested) ->
                   [prog.procs[q] EXCEPT !.params = Append(@, Formal(Super, TRUE, p))]
              [] q = p -> [prog.procs[q] EXCEPT !.vars = <<Variable(This, p)>> \o @]
              [] OTHER -> prog.procs[q]]]

(* _this.x := x for every parameter *)
CopyIn(p, params) ==
    [i \in DOMAIN params |-> Assign(Ref(Decl(p, This), <<params[i].name>>, 0),
                                    Plain(Decl(p, params[i].name)))]

CopyBack(p, x) == Assign(Plain(Decl(p, x)), Ref(Decl(p, This), <<x>>, 0))

(* x := _this.x for every VAR parameter but _super *)
CopyBacks(p, params) ==
    LET back[n \in 0 .. Len(params)] ==
            IF n = 0 THEN <<>>
            ELSE back[n - 1] \o IF params[n].var /\ params[n].name # Super
                                THEN <<CopyBack(p, params[n].name)>> ELSE <<>>
    IN  back[Len(params)]

(* Mutant: the outer environment is not written back. *)
CopyOutParams(p, node) == CopyBacks(p, node.params)

(* ... then _super := _this._super *)
CopyOut(p, node) ==
    CopyBacks(p, node.params)
        \o IF node.scope > ModuleScope /\ Super \in Names(node.params)
           THEN <<CopyBack(p, Super)>> ELSE <<>>

LiftBody(prog, p, node) ==
    CopyIn(p, node.params) \o Rewrite(prog, Decl(p, This), node.body) \o CopyOut(p, node)

Visited(prog) ==
    /\ program' = Settle(prog, Name)
    /\ next' = next + 1
    /\ UNCHANGED source

(* A procedure with nested ones and with something to share with them. *)
LiftSuper ==
    /\ ~Done
    /\ Node.nested # <<>>
    /\ Node.params # <<>> \/ Node.vars # <<>>
    /\ LET prog == AddEnvironment(program, Name)
       IN  Visited(Hoist([prog EXCEPT !.procs[Name].body = LiftBody(prog, Name, Node)],
                        Name))
    /\ crashed' = BareReturn(Node.body)

(* With nothing to share its statements are not looked at. *)
LiftSuperWithoutEnvironment ==
    /\ ~Done
    /\ Node.nested # <<>>
    /\ Node.params = <<>> /\ Node.vars = <<>>
    /\ Visited(Hoist(program, Name))
    /\ UNCHANGED crashed

(* A lifted procedure without nested ones: only outer variables change. *)
LiftLeaf ==
    /\ ~Done
    /\ Node.nested = <<>>
    /\ Node.scope > ModuleScope
    /\ IF Super \in Names(Node.params)
       THEN /\ Visited([program EXCEPT !.procs[Name].body =
                            Rewrite(program, Decl(Name, Super), @)])
            /\ crashed' = BareReturn(Node.body)
       ELSE /\ Visited(program)
            /\ UNCHANGED crashed

VisitPlainProcedure ==
    /\ ~Done
    /\ Node.nested = <<>>
    /\ Node.scope = ModuleScope
    /\ Visited(program)
    /\ UNCHANGED crashed

Next ==
    \/ LiftSuper
    \/ LiftSuperWithoutEnvironment
    \/ LiftLeaf
    \/ VisitPlainProcedure

Spec == Init /\ [][Next]_vars

-----------------------------------------------------------------------------
ProcNames == DOMAIN source.procs

AllMoved == \A p \in ProcNames : program.procs[p].nested = <<>>

Lifted == Done /\ ~crashed /\ AllMoved

(* The pass "removes nested procedures" (LambdaLifter.cpp:2): none is left  *)
(* nested when it has ended.  The code moves every other one.               *)
NestedProceduresRemoved == Done /\ ~crashed => AllMoved

(* Whatever is nested how deep: a lifted procedure mentions its own         *)
(* declarations and the module's, nothing else, and the field it selects is *)
(* the one of the right type.  The code generator rejects the rest.         *)
ReferencesAreClosed ==
    Lifted => \A p \in ProcNames :
        /\ \A e \in Expressions(program.procs[p].body) :
             e.decl # Literal =>
                /\ e.decl \in Own(program.procs, p) \/ e.decl.proc = Module
                /\ ScopeOf(program, e.decl) \in {ModuleScope, program.procs[p].scope + 1}
                /\ TypeOf(program, e) \in {Integer} \cup ProcNames
        /\ \A s \in ToSet(program.procs[p].body) :
             s.op = "assign" => TypeOf(program, s.lhs) = TypeOf(program, s.rhs)

-----------------------------------------------------------------------------
(* The procedure whose environment p passes on: its own, or in a leaf the   *)
(* one it was given.                                                        *)
Giver(p) ==
    IF source.procs[p].nested # <<>> THEN {p}
    ELSE {q \in ProcNames : p \in ToSet(source.procs[q].nested)}

WrongEnvironment(p, q) ==
    /\ Super \in Names(program.procs[q].params)
    /\ \A giver \in Giver(p) : q \notin ToSet(source.procs[giver].nested)

(* A call hands over the record its callee was compiled for exactly if the  *)
(* callee is declared in the procedure whose environment the caller passes  *)
(* on.  The other calls, e.g. of a procedure with nested ones to itself,    *)
(* pass a record of another type, that nothing rejects.                     *)
CallsFit ==
    Lifted => \A p \in ProcNames :
        \A s \in Calls(program.procs[p].body) :
            Fits(program, s) <=> ~WrongEnvironment(p, s.proc)

=============================================================================
