---------------------------- MODULE ControlFlow ----------------------------
(***************************************************************************)
(* The code generator on statements: LLVMIRBuilder turns a statement       *)
(* sequence into basic blocks, and a machine runs them.  A block is the    *)
(* list of its instructions, terminators included, since the builder can   *)
(* add to a block that is terminated.                                      *)
(***************************************************************************)
EXTENDS Statements, TLC

CONSTANTS Programs,     \* records of a body, its kind and the memory it starts with
          Fuel          \* statements after which a program counts as endless

ASSUME FuelAssumption == Fuel \in Nat

VARIABLES program,
          phase,        \* parsed, checked, rejected, running, or how the run ended
          code,         \* the state of the builder
          pc,           \* block, instruction, and the block before
          mem, regs,    \* variables and temporary values
          source        \* what the statements mean, for comparison

vars == <<program, phase, code, pc, mem, regs, source>>

Ended == {"ret", "trap", "unreachable", "fault"}

-----------------------------------------------------------------------------
(* The builder: blocks, insertion point, stack of loop tails, value_, the  *)
(* number of temporaries, and whether it took the top of an empty stack.   *)

NoCode == [blocks |-> <<<<>>>>, at |-> 1, tails |-> <<>>, value |-> Lit(0), temps |-> 0,
           crashed |-> FALSE, error |-> FALSE]

Temp(n) == [op |-> "temp", temp |-> n]
Br(n) == [op |-> "br", to |-> n]
CondBr(value, yes, no) == [op |-> "condbr", value |-> value, yes |-> yes, no |-> no]
Switch(value, cases, dflt) ==
    [op |-> "switch", value |-> value, cases |-> cases, dflt |-> dflt]
(* The result that is returned: "void", "value", or "i32" of a module. *)
Ret(result) == [op |-> "ret", type |-> result]
(* trap stands for the call of ubsantrap, which does not return. *)
Terminators == {"br", "condbr", "switch", "ret", "trap", "unreachable"}

Emit(b, i) == [b EXCEPT !.blocks[b.at] = Append(@, i)]
(* An instruction with a result, which becomes value_. *)
Define(b, i) == [Emit(b, i @@ [result |-> b.temps + 1])
                   EXCEPT !.temps = @ + 1, !.value = Temp(b.temps + 1)]
(* n new blocks: they get the numbers after Last(b). *)
Create(b, n) == [b EXCEPT !.blocks = @ \o [i \in 1 .. n |-> <<>>]]
LastBlock(b) == Len(b.blocks)
At(b, n) == [b EXCEPT !.at = n]
With(b, value) == [b EXCEPT !.value = value]
Terminated(b) == LET block == b.blocks[b.at]
                 IN  block # <<>> /\ Last(block).op \in Terminators
(* Mutant: a branch after a terminator. *)
EnsureTerminatorAlways(b, n) == Emit(b, Br(n))
EnsureTerminator(b, n) == IF Terminated(b) THEN b ELSE Emit(b, Br(n))

Load(b, v) == Define(b, [op |-> "load", var |-> v])
Operand(b, o) == IF o.op = "var" THEN Load(b, o.var) ELSE With(b, o)
Store(b, v, value) == Emit(b, [op |-> "store", var |-> v, value |-> value])
StoreValue(b, v) == Store(b, v, b.value)
Operate(b, op, left) == Define(b, [op |-> op, args |-> <<left, b.value>>])
AddTo(b, n) == Define(b, [op |-> "add", args |-> <<b.value, Lit(n)>>])
BranchOn(b, yes, no) == Emit(b, CondBr(b.value, yes, no))

(* A value that is computed in a new block when value_ is sense, and is    *)
(* dflt otherwise: enters that block; joins both in the block behind it.   *)
Enter(b, sense) ==
    LET eval == LastBlock(b) + 1
        skip == eval + 1
    IN  At(Create(IF sense THEN BranchOn(b, eval, skip) ELSE BranchOn(b, skip, eval), 2), eval)
Join(b, skip, from, dflt) ==
    Define(At(Emit(b, Br(skip)), skip),
           [op |-> "phi", edges |-> {<<from, dflt>>, <<b.at, b.value>>}])

(* The value of an operand, compared with the one before. *)
CompareWith(b, rel, bound) == Operate(Operand(b, bound), rel, b.value)

(* Does the record at a pointer have a type that extends type? *)
SameId(b, pointer, type) ==
    Operate(With(Define(b, [op |-> "id", args |-> <<pointer>>, level |-> Level(type)]), Lit(type)),
            "eq", Temp(b.temps + 1))
DescriptorTest(b, pointer, type) ==
    LET level == Define(b, [op |-> "level", args |-> <<pointer>>])
    IN  Join(SameId(Enter(Operate(level, "le", Lit(Level(type))), TRUE), pointer, type),
             LastBlock(b) + 2, b.at, Lit(FALSE))

TypeTest(b, pointer, static, type) ==
    LET test == Enter(Define(b, [op |-> "notnil", args |-> <<pointer>>]), TRUE)
    IN  Join(IF Extends(static, type) THEN With(test, Lit(TRUE))
             ELSE DescriptorTest(test, pointer, type),
             LastBlock(b) + 2, b.at, Lit(FALSE))

RECURSIVE Condition(_, _)
(* Logical operators evaluate their right operand, b being after the left  *)
(* one, in a block of its own.                                             *)
ShortCircuit(b, c) ==
    Join(Operate(Condition(Enter(b, c.op = "and"), c.right), c.op, b.value),
         LastBlock(b) + 2, b.at, b.value)

Condition(b, c) ==
    CASE c.op = "less" -> CompareWith(Load(b, c.var), "lt", c.bound)
      [] c.op = "tick" -> CompareWith(Define(b, [op |-> "call", var |-> c.var]), "lt", c.bound)
      [] c.op = "is" -> TypeTest(Load(b, c.var), Temp(b.temps + 1), c.static, c.type)
      [] c.op = "not" -> LET e == Condition(b, c.arg)
                         IN  Define(e, [op |-> "not", args |-> <<e.value>>])
      [] c.op \in {"and", "or"} -> ShortCircuit(Condition(b, c.left), c)

-----------------------------------------------------------------------------
(* Statements *)

RECURSIVE Lower(_, _)
Indices(first, n) == [i \in 1 .. n - first + 1 |-> first + i - 1]

(* Stops at the first statement that leaves the block terminated. *)
LowerAll(b, seq) ==
    FoldLeft(LAMBDA q, i : IF i > 1 /\ Terminated(q) THEN q ELSE Lower(q, seq[i]),
             b, Indices(1, Len(seq)))

(* A sequence in block n that goes on to block next; b continues there. *)
Arm(b, n, seq, next) == EnsureTerminator(LowerAll(At(b, n), seq), next)
Otherwise(b, n, seq, next) == At(IF seq = <<>> THEN b ELSE Arm(b, n, seq, next), next)

(* The ith sequence, b being after its condition, and the test of the next *)
(* condition; dflt is where the last one goes when it does not hold.       *)
LowerArm(b, s, i, dflt, next) ==
    LET last == i = Len(s.conds)
        yes == LastBlock(b) + 1
        no == IF last THEN dflt ELSE yes + 1
    IN  At(Arm(BranchOn(Create(b, IF last THEN 1 ELSE 2), yes, no), yes, s.parts[i], next), no)

LowerArms(b, s, first, dflt, next) ==
    FoldLeft(LAMBDA q, i : LowerArm(Condition(q, s.conds[i]), s, i, dflt, next),
             b, Indices(first, Len(s.conds)))

LowerIf(b, s) ==
    LET tail == LastBlock(b) + 1
        hasElse == s.else # <<>>
        else == IF hasElse THEN tail + 1 ELSE tail
    IN  Otherwise(LowerArms(Create(b, IF hasElse THEN 2 ELSE 1), s, 1, else, tail),
                  else, s.else, tail)

Push(b, tail) == [b EXCEPT !.tails = Append(@, tail)]
Pop(b) == [b EXCEPT !.tails = Front(@)]
(* A loop body in block n: EXIT in it goes to tail. *)
Body(b, n, tail, seq) == Pop(LowerAll(At(Push(b, tail), n), seq))

(* A loop that starts with its body, in the first of two new blocks. *)
FirstBody(b, s) ==
    LET body == LastBlock(b) + 1
    IN  Body(Create(Emit(b, Br(body)), 2), body, body + 1, s.parts[1])

(* Mutant: the end of the body branches behind the loop. *)
LowerLoopOnce(b, s) ==
    LET tail == LastBlock(b) + 2 IN At(EnsureTerminator(FirstBody(b, s), tail), tail)

LowerLoop(b, s) ==
    LET body == LastBlock(b) + 1 IN At(EnsureTerminator(FirstBody(b, s), body), body + 1)

(* The tail is popped before the sequences after ELSIF are visited. *)
LowerWhile(b, s) ==
    LET tail == LastBlock(b) + 1
        body == tail + 1
        yes == tail + 2
        elsif == Len(s.conds) > 1
        no == IF elsif THEN tail + 3 ELSE tail
        entered == At(Create(Emit(b, Br(body)), IF elsif THEN 4 ELSE 3), body)
        first == Body(BranchOn(Condition(entered, s.conds[1]), yes, no), yes, tail, s.parts[1])
    IN  At(LowerArms(At(EnsureTerminator(first, body), no), s, 2, tail, body), tail)

Until(b, cond, body, tail) ==
    IF Terminated(b) THEN b ELSE BranchOn(Condition(b, cond), tail, body)

LowerRepeat(b, s) ==
    LET body == LastBlock(b) + 1
    IN  At(Until(FirstBody(b, s), s.cond, body, body + 1), body + 1)

(* Compares value_ with the one before it, in the order of the step. *)
Ordered(b, before, s, rel) ==
    Define(b, [op |-> rel, args |-> IF s.step > 0 THEN <<before, b.value>> ELSE <<b.value, before>>])
Repeated(high, s, body, tail) ==
    BranchOn(Ordered(Load(high, s.var), high.value, s, "lt"), tail, body)

(* Mutant: the counter is not stored. *)
AdvanceUnstored(b, s, body, tail) ==
    IF Terminated(b) THEN b
    ELSE Repeated(Operand(AddTo(Load(b, s.var), Wrap(s.step)), s.high), s, body, tail)

(* Adds the step, stores the counter and compares it with the upper bound. *)
Advance(b, s, body, tail) ==
    IF Terminated(b) THEN b
    ELSE Repeated(Operand(StoreValue(AddTo(Load(b, s.var), Wrap(s.step)), s.var), s.high),
                  s, body, tail)

(* Sets the counter, whose lower bound is value_, and compares the bounds. *)
StartFor(low, s) ==
    LET body == LastBlock(low) + 1
    IN  BranchOn(Ordered(Operand(StoreValue(low, s.var), s.high), low.value, s, "le"), body, body + 1)

LowerFor(b, s) ==
    LET body == LastBlock(b) + 1
        tail == body + 1
        entered == Create(StartFor(Operand(b, s.low), s), 2)
    IN  At(Advance(Body(entered, body, tail, s.parts[1]), s, body, tail), tail)

(* The switch is created first and gets its cases while they are visited. *)
LowerCase(b, s, dflt, tail) ==
    LET switch == Len(b.blocks[b.at]) + 1
        case(q, i) ==
            LET n == LastBlock(q) + 1
                labels == [l \in {Wrap(m) : m \in RangeLabels(s.labels[i])} |-> n]
            IN  [Arm(Create(q, 1), n, s.parts[i], tail)
                   EXCEPT !.blocks[b.at][switch].cases = @ @@ labels]
    IN  FoldLeft(case, Emit(b, Switch(b.value, <<>>, dflt)), Indices(1, Len(s.parts)))

LowerTypeCase(b, s, dflt, tail) ==
    LET case(q, i) ==
            LET yes == LastBlock(q) + 1
                cond == TypeTest(Create(q, 2), b.value, s.static, s.types[i])
            IN  At(Arm(BranchOn(cond, yes, yes + 1), yes, s.parts[i], tail), yes + 1)
    IN  Emit(FoldLeft(case, b, Indices(1, Len(s.parts))), Br(dflt))

LowerCaseOf(b, s) ==
    LET tail == LastBlock(b) + 1
        hasElse == s.else # <<>>
        dflt == IF hasElse THEN tail + 1 ELSE tail
        value == Load(Create(b, IF hasElse THEN 2 ELSE 1), s.var)
    IN  Otherwise(IF s.op = "case" THEN LowerCase(value, s, dflt, tail)
                  ELSE LowerTypeCase(value, s, dflt, tail),
                  dflt, s.else, tail)

LowerExit(b) == IF b.tails = <<>> THEN [b EXCEPT !.crashed = TRUE]
                ELSE Emit(b, Br(Last(b.tails)))

LowerReturn(b, s) == Emit(b, Ret(IF s.hasValue THEN "value" ELSE "void"))

(* Goes on, in a new block, when value_ is TRUE. *)
InstallTrap(b) ==
    LET tail == LastBlock(b) + 1
        trap == tail + 1
    IN  At(Emit(At(BranchOn(Create(b, 2), tail, trap), trap), [op |-> "trap"]), tail)

(* createAdd: the sum, or a trap when it is no integer of the type. *)
AddChecked(b, n) ==
    LET sum == AddTo(b, n)
        fits == Define(sum, [op |-> "fits", args |-> <<b.value, Lit(n)>>])
    IN  With(InstallTrap(fits), sum.value)

LowerInc(b, s) == StoreValue(AddChecked(Load(b, s.var), s.value), s.var)

Lower(b, s) ==
    CASE s.op = "inc" -> LowerInc(b, s)
      [] s.op = "exit" -> LowerExit(b)
      [] s.op = "return" -> LowerReturn(b, s)
      [] s.op = "if" -> LowerIf(b, s)
      [] s.op = "loop" -> LowerLoop(b, s)
      [] s.op = "while" -> LowerWhile(b, s)
      [] s.op = "repeat" -> LowerRepeat(b, s)
      [] s.op = "for" -> LowerFor(b, s)
      [] s.op \in {"case", "typecase"} -> LowerCaseOf(b, s)

(* The end of a module body: its function returns 0. *)
FinishModule(b) == IF Terminated(b) THEN b ELSE Emit(b, Ret("i32"))

(* The end of a proper procedure, or of a function. *)
FinishProcedure(b, kind) ==
    IF kind = "proper" THEN Emit(b, Ret("void"))
    ELSE IF Terminated(b) THEN b
    ELSE IF b.blocks[b.at] # <<>> THEN [b EXCEPT !.error = TRUE]
    ELSE Emit(b, [op |-> "unreachable"])

Finish(b, kind) == IF kind = "module" THEN FinishModule(b) ELSE FinishProcedure(b, kind)

-----------------------------------------------------------------------------
(* The specification: analyse, generate, run. *)

Undef == "undef"

Init ==
    /\ program \in Programs
    /\ phase = "parsed"
    /\ code = NoCode
    /\ pc = [block |-> 1, at |-> 1, from |-> 0]
    /\ mem = program.mem
    /\ regs = <<>>
    /\ source = <<>>

Analyse ==
    /\ phase = "parsed"
    /\ phase' = IF BodyOK(program.body, program.kind) THEN "checked" ELSE "rejected"
    /\ UNCHANGED <<program, code, pc, mem, regs, source>>

Generate ==
    /\ phase = "checked"
    /\ code' = Finish(LowerAll(NoCode, program.body), program.kind)
    /\ phase' = IF code'.crashed THEN "crashed" ELSE IF code'.error THEN "rejected" ELSE "running"
    /\ regs' = [t \in 1 .. code'.temps |-> Undef]
    /\ source' = Meaning(program.body, program.mem, Fuel)
    /\ UNCHANGED <<program, pc, mem>>

Current == code.blocks[pc.block][pc.at]
Value(o) == IF o.op = "temp" THEN regs[o.temp] ELSE o.value
Arg(i) == Value(Current.args[i])

Running(ops) == phase = "running" /\ Current.op \in ops
Advanced == pc' = [pc EXCEPT !.at = @ + 1]
Set(value) == regs' = [regs EXCEPT ![Current.result] = value] /\ Advanced

(* The instructions that compute a value from values. *)
Result ==
    CASE Current.op = "lt" -> Arg(1) < Arg(2)
      [] Current.op = "le" -> Arg(1) <= Arg(2)
      [] Current.op = "add" -> Wrap(Arg(1) + Arg(2))
      [] Current.op = "fits" -> Arg(1) + Arg(2) \in Integer
      [] Current.op = "and" -> Arg(1) /\ Arg(2)
      [] Current.op = "or" -> Arg(1) \/ Arg(2)
      [] Current.op = "not" -> ~Arg(1)
      [] Current.op = "eq" -> Arg(1) = Arg(2)
      [] Current.op = "notnil" -> Arg(1) # Nil
      [] Current.op = "level" -> Level(Arg(1))

Compute ==
    /\ Running({"lt", "le", "add", "fits", "and", "or", "not", "eq", "notnil", "level"})
    /\ Set(Result)
    /\ UNCHANGED <<program, phase, code, mem, source>>

LoadVar ==
    /\ Running({"load"})
    /\ Set(mem[Current.var])
    /\ UNCHANGED <<program, phase, code, mem, source>>

StoreVar ==
    /\ Running({"store"})
    /\ mem' = [mem EXCEPT ![Current.var] = Value(Current.value)]
    /\ Advanced
    /\ UNCHANGED <<program, phase, code, regs, source>>

(* The function increments the variable, by an INC of its own, and returns it. *)
CallFunction ==
    /\ Running({"call"})
    /\ IF mem[Current.var] = MaxInt
       THEN phase' = "trap" /\ UNCHANGED <<mem, regs, pc>>
       ELSE /\ mem' = [mem EXCEPT ![Current.var] = @ + 1]
            /\ Set(mem'[Current.var])
            /\ UNCHANGED phase
    /\ UNCHANGED <<program, code, source>>

(* The id at a level of a descriptor, which has ids up to its own level. *)
LoadId ==
    /\ Running({"id"})
    /\ IF Current.level <= Level(Arg(1))
       THEN Set(TypeIds[Arg(1)][Current.level + 1]) /\ UNCHANGED phase
       ELSE phase' = "fault" /\ UNCHANGED <<regs, pc>>
    /\ UNCHANGED <<program, code, mem, source>>

SelectPhi ==
    /\ Running({"phi"})
    /\ \E e \in Current.edges : e[1] = pc.from /\ Set(Value(e[2]))
    /\ UNCHANGED <<program, phase, code, mem, source>>

Target ==
    CASE Current.op = "br" -> Current.to
      [] Current.op = "condbr" -> IF Value(Current.value) THEN Current.yes ELSE Current.no
      [] Current.op = "switch" ->
           LET v == Value(Current.value)
           IN  IF v \in DOMAIN Current.cases THEN Current.cases[v] ELSE Current.dflt

Branch ==
    /\ Running({"br", "condbr", "switch"})
    /\ pc' = [block |-> Target, at |-> 1, from |-> pc.block]
    /\ UNCHANGED <<program, phase, code, mem, regs, source>>

End ==
    /\ Running({"ret", "trap", "unreachable"})
    /\ phase' = Current.op
    /\ UNCHANGED <<program, code, pc, mem, regs, source>>

Execute == Compute \/ LoadVar \/ StoreVar \/ CallFunction \/ LoadId \/ SelectPhi \/ Branch \/ End

Next == Analyse \/ Generate \/ Execute

(* The machine executes the next instruction; the compiler may be stopped. *)
Spec == Init /\ [][Next]_vars /\ WF_vars(Execute)

-----------------------------------------------------------------------------
(* Properties *)

RECURSIVE Inside(_)
(* The statements of a sequence, those inside of others included. *)
Inside(seq) ==
    UNION {{s} \cup Inside(s.else) \cup UNION {Inside(p) : p \in ToSet(s.parts)} : s \in ToSet(seq)}

RECURSIVE Leaves(_)
(* Is there an EXIT that ends the loop around the sequence? *)
Leaves(seq) ==
    \E s \in ToSet(seq) :
      \/ s.op = "exit"
      \/ s.op \in Branching /\ (Leaves(s.else) \/ \E p \in ToSet(s.parts) : Leaves(p))

(* Known limit: EXIT after an ELSIF of a WHILE loop. *)
ExitAfterElsif ==
    \E s \in Inside(program.body) :
      s.op = "while" /\ \E i \in DOMAIN s.parts : i > 1 /\ Leaves(s.parts[i])

(* Known limit: labels outside of the range of the type are truncated. *)
LabelsFit ==
    \A s \in Inside(program.body) :
      s.op = "case" => \A i \in DOMAIN s.parts : RangeLabels(s.labels[i]) \subseteq Integer

(* Known limit: a proper procedure gets a second terminator after RETURN. *)
EndsOpen == program.kind = "proper" => ~HasTerminator(program.body)

(* Known limit: RETURN in the body of a module is a return without value   *)
(* from the function of the module, which has the type i32.                *)
ReturnsFromModule ==
    program.kind = "module" /\ \E s \in Inside(program.body) : s.op = "return"

RECURSIVE SurelyReturns(_)
SurelyReturns(seq) ==
    \E s \in ToSet(seq) :
      \/ s.op = "return"
      \/ /\ s.op \in Branching
         /\ SurelyReturns(s.else) /\ \A p \in ToSet(s.parts) : SurelyReturns(p)

(* Known limit: a loop with a RETURN counts as one that returns.           *)
ReturnsInLoopOnly == program.kind = "function" /\ ~SurelyReturns(program.body)

Successors(block) ==
    LET last == Last(block)
    IN  CASE last.op = "br" -> {last.to}
          [] last.op = "condbr" -> {last.yes, last.no}
          [] last.op = "switch" -> {last.dflt} \cup {last.cases[l] : l \in DOMAIN last.cases}
          [] OTHER -> {}

(* What the verifier of LLVM wants: every block ends with a terminator and *)
(* has no other, and a phi has a value for each predecessor.               *)
WellFormed(blocks) ==
    \A n \in DOMAIN blocks :
      /\ blocks[n] # <<>>
      /\ \A i \in DOMAIN blocks[n] : blocks[n][i].op \in Terminators <=> i = Len(blocks[n])
      /\ \A i \in DOMAIN blocks[n] :
           blocks[n][i].op = "phi" =>
             {e[1] : e \in blocks[n][i].edges} = {m \in DOMAIN blocks : n \in Successors(blocks[m])}

(* A function returns what its LLVM type says. *)
ResultType == CASE program.kind = "module" -> "i32"
                [] program.kind = "proper" -> "void"
                [] program.kind = "function" -> "value"
ReturnsTyped(blocks) ==
    \A n \in DOMAIN blocks : Last(blocks[n]).op = "ret" => Last(blocks[n]).type = ResultType

(* Every program that is accepted is translated into well-formed blocks,   *)
(* however its statements are nested and wherever they RETURN or EXIT: an  *)
(* EXIT inside of a loop finds a tail to branch to.  All returns are of    *)
(* the type of the function, but for RETURN in the body of a module.       *)
BlocksWellFormed ==
    /\ phase \in {"running"} \cup Ended /\ EndsOpen /\ LabelsFit =>
         WellFormed(code.blocks) /\ (ReturnsFromModule \/ ReturnsTyped(code.blocks))
    /\ phase = "crashed" => ExitAfterElsif

(* A program that has ended has done what its statements say, and ended in *)
(* their way: it returns, or is stopped by the trap of an INC that leaves  *)
(* the range of integers, which leaves the variables as they were.  It     *)
(* runs off its end into undefined behaviour only if it is a function and  *)
(* its RETURNs are in loops.  Loops, EXIT, ELSIF, CASE, type tests and     *)
(* short-circuit evaluation with its side effects are all in it.           *)
DoesTheSame ==
    phase \in Ended /\ EndsOpen /\ LabelsFit /\ ~ExitAfterElsif /\ ~ReturnsFromModule =>
      \/ source.how = "overflow"
      \/ /\ mem = source.mem
         /\ CASE phase = "ret" -> source.how \in IF program.kind = "function" THEN {"return"}
                                                 ELSE {"next", "return"}
              [] phase = "trap" -> source.how = "trap"
              [] phase = "unreachable" -> source.how = "next" /\ ReturnsInLoopOnly
              [] phase = "fault" -> FALSE

(* A program whose statements come to an end ends, under the fairness that *)
(* the machine executes the next instruction.                              *)
Ends ==
    (phase = "running" /\ source.how \in {"next", "return", "trap"}
       /\ EndsOpen /\ LabelsFit /\ ~ExitAfterElsif /\ ~ReturnsFromModule) ~> phase \in Ended
=============================================================================
