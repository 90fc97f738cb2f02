----------------------------- MODULE Statements -----------------------------
(***************************************************************************)
(* Statement sequences as the parser leaves them in the AST, what the      *)
(* semantic analysis accepts, and what a sequence means.                   *)
(*                                                                         *)
(* Every statement has the sequences it is built from in parts and the     *)
(* sequence after ELSE in else.  Variables hold integers of a small width  *)
(* or pointers to records, that is, the type of the record or Nil.         *)
(***************************************************************************)
EXTENDS Integers, Sequences, SequencesExt, FiniteSets

CONSTANTS Width,            \* bits of the integer type
          Base,             \* record type |-> its base type, or NoType
          NoType, Nil

ASSUME WidthAssumption == Width \in Nat /\ Width > 1

MinInt == -(2 ^ (Width - 1))
MaxInt == 2 ^ (Width - 1) - 1
Integer == MinInt .. MaxInt
Wrap(n) == MinInt + ((n - MinInt) % (MaxInt - MinInt + 1))

(* Ancestors of a record type, the root first, and its level. *)
TypeIds[t \in DOMAIN Base] ==
    IF Base[t] = NoType THEN <<t>> ELSE Append(TypeIds[Base[t]], t)
Level(t) == Len(TypeIds[t]) - 1
Extends(t, super) == super \in ToSet(TypeIds[t])

-----------------------------------------------------------------------------
(* Syntax *)

Lit(n) == [op |-> "lit", value |-> n]
Var(v) == [op |-> "var", var |-> v]

Less(v, bound) == [op |-> "less", var |-> v, bound |-> bound]
(* A function that increments v and tells whether it is less than bound. *)
Tick(v, bound) == [op |-> "tick", var |-> v, bound |-> bound]
Is(v, static, type) == [op |-> "is", var |-> v, static |-> static, type |-> type]
Not(c) == [op |-> "not", arg |-> c]
And(l, r) == [op |-> "and", left |-> l, right |-> r]
Or(l, r) == [op |-> "or", left |-> l, right |-> r]

Statement(op, parts, else) == [op |-> op, parts |-> parts, else |-> else]
Inc(v, n) == Statement("inc", <<>>, <<>>) @@ [var |-> v, value |-> n]
Exit == Statement("exit", <<>>, <<>>)
Return(hasValue) == Statement("return", <<>>, <<>>) @@ [hasValue |-> hasValue]
If(conds, parts, else) == Statement("if", parts, else) @@ [conds |-> conds]
While(conds, parts) == Statement("while", parts, <<>>) @@ [conds |-> conds]
Loop(body) == Statement("loop", <<body>>, <<>>)
Repeat(body, c) == Statement("repeat", <<body>>, <<>>) @@ [cond |-> c]
For(v, low, high, step, body) ==
    Statement("for", <<body>>, <<>>) @@ [var |-> v, low |-> low, high |-> high, step |-> step]
(* labels[i] is the list of ranges <<lower, upper>> of the ith case. *)
Case(v, labels, parts, else) ==
    Statement("case", parts, else) @@ [var |-> v, labels |-> labels]
TypeCase(v, static, types, parts, else) ==
    Statement("typecase", parts, else) @@ [var |-> v, static |-> static, types |-> types]

Loops == {"while", "repeat", "loop", "for"}
Branching == {"if", "case", "typecase"}

-----------------------------------------------------------------------------
(* Semantic analysis *)

RECURSIVE IsReturn(_), IsTerminator(_)
HasReturn(seq) == \E i \in DOMAIN seq : IsReturn(seq[i])
HasTerminator(seq) == \E i \in DOMAIN seq : IsTerminator(seq[i])

(* A loop is taken for a RETURN when its sequences contain one. *)
IsReturn(s) ==
    \/ s.op = "return"
    \/ /\ s.op \in Loops \cup Branching
       /\ \A i \in DOMAIN s.parts : HasReturn(s.parts[i])
       /\ s.op \in Branching => HasReturn(s.else)

IsTerminator(s) ==
    \/ s.op = "exit"
    \/ IsReturn(s)
    \/ /\ s.op \in Branching
       /\ \A i \in DOMAIN s.parts : HasTerminator(s.parts[i])
       /\ HasTerminator(s.else)

UnreachableCode(seq) == \E i \in DOMAIN seq : i < Len(seq) /\ IsTerminator(seq[i])

RangeLabels(ranges) == UNION {r[1] .. r[2] : r \in ToSet(ranges)}

(* onCaseLabel: <<n, n>> is a single label; the bounds of a range are in order. *)
LabelsOK(ranges) ==
    /\ \A i \in DOMAIN ranges : ranges[i][1] <= ranges[i][2]
    /\ \A i, j \in DOMAIN ranges :
         i # j => (ranges[i][1] .. ranges[i][2]) \cap (ranges[j][1] .. ranges[j][2]) = {}

(* onCaseOfEnd: no label twice, or no type twice. *)
CasesOK(s) ==
    IF s.op = "case"
    THEN /\ \A i \in DOMAIN s.labels : LabelsOK(s.labels[i])
         /\ \A i, j \in DOMAIN s.labels :
              i # j => RangeLabels(s.labels[i]) \cap RangeLabels(s.labels[j]) = {}
    ELSE /\ \A i \in DOMAIN s.types : Extends(s.types[i], s.static)
         /\ \A i, j \in DOMAIN s.types : i # j => s.types[i] # s.types[j]

RECURSIVE SequenceOK(_, _, _)
(* No error in a statement sequence inside of a number of loops, that is *)
(* part of a module, a proper procedure or a function.                   *)
StatementOK(s, loops, kind) ==
    /\ s.op = "exit" => loops > 0
    /\ s.op = "return" => (s.hasValue <=> kind = "function")
    /\ s.op = "for" => s.step # 0
    /\ s.op \in {"case", "typecase"} => CasesOK(s)
    /\ LET inner == IF s.op \in Loops THEN loops + 1 ELSE loops
       IN  /\ \A i \in DOMAIN s.parts : SequenceOK(s.parts[i], inner, kind)
           /\ SequenceOK(s.else, inner, kind)

SequenceOK(seq, loops, kind) ==
    /\ ~UnreachableCode(seq)
    /\ \A i \in DOMAIN seq : StatementOK(seq[i], loops, kind)

(* No error in a body: every path of a function returns a result. *)
BodyOK(body, kind) == SequenceOK(body, 0, kind) /\ (kind = "function" => HasReturn(body))

-----------------------------------------------------------------------------
(* Meaning: how is "next", "exit", "return", "trap" when an INC leaves the *)
(* range of integers, or the reason why there is no result: "overflow" of  *)
(* a counter, "stuck" after more than fuel statements.                     *)

ValueOf(o, mem) == IF o.op = "lit" THEN o.value ELSE mem[o.var]

RECURSIVE Holds(_, _)
(* Value of a condition, the memory after it, and how it ended. *)
Holds(c, mem) ==
    CASE c.op = "less" ->
           [value |-> mem[c.var] < ValueOf(c.bound, mem), mem |-> mem, how |-> "next"]
      [] c.op = "tick" ->
           IF mem[c.var] = MaxInt THEN [value |-> FALSE, mem |-> mem, how |-> "trap"]
           ELSE LET after == [mem EXCEPT ![c.var] = @ + 1]
                IN  [value |-> after[c.var] < ValueOf(c.bound, after), mem |-> after, how |-> "next"]
      [] c.op = "is" ->
           [value |-> mem[c.var] # Nil /\ Extends(mem[c.var], c.type), mem |-> mem, how |-> "next"]
      [] c.op = "not" ->
           LET r == Holds(c.arg, mem) IN [r EXCEPT !.value = ~@]
      [] c.op \in {"and", "or"} ->
           LET l == Holds(c.left, mem)
           IN  IF l.how = "trap" \/ l.value = (c.op = "or") THEN l ELSE Holds(c.right, l.mem)

RECURSIVE FirstOf(_, _, _)
(* The first condition from the ith on that holds, or 0. *)
FirstOf(conds, i, mem) ==
    IF i > Len(conds) THEN [arm |-> 0, mem |-> mem, how |-> "next"]
    ELSE LET r == Holds(conds[i], mem)
         IN  IF r.how = "trap" \/ r.value THEN [arm |-> i, mem |-> r.mem, how |-> r.how]
             ELSE FirstOf(conds, i + 1, r.mem)

(* The arm of a CASE statement for a value. *)
ArmOf(s, value) ==
    LET fits(i) == IF s.op = "case" THEN value \in RangeLabels(s.labels[i])
                   ELSE value # Nil /\ Extends(value, s.types[i])
        arms == {i \in DOMAIN s.parts : fits(i)}
    IN  IF arms = {} THEN 0 ELSE CHOOSE i \in arms : \A j \in arms : i <= j

RECURSIVE Perform(_, _), Iterate(_, _)
PerformAll(seq, r) ==
    FoldLeft(LAMBDA q, s : IF q.how = "next" THEN Perform(s, q) ELSE q, r, seq)

(* What follows the body of a loop, and EXIT in it. *)
Again(s, r) == IF r.how = "exit" THEN [r EXCEPT !.how = "next"]
               ELSE IF r.how = "next" THEN Iterate(s, r) ELSE r

(* A FOR loop, its counter being set: v := low; WHILE v <= high DO body; v := v + step END. *)
ForStep(s, r) ==
    IF r.how # "next" THEN r
    ELSE IF r.mem[s.var] + s.step \notin Integer THEN [r EXCEPT !.how = "overflow"]
    ELSE [r EXCEPT !.mem[s.var] = @ + s.step]

Iterate(s, r) ==
    IF r.fuel = 0 THEN [r EXCEPT !.how = "stuck"]
    ELSE LET q == [r EXCEPT !.fuel = @ - 1]
         IN CASE s.op = "loop" -> Again(s, PerformAll(s.parts[1], q))
              [] s.op = "while" ->
                   LET first == FirstOf(s.conds, 1, q.mem)
                       entered == [q EXCEPT !.mem = first.mem, !.how = first.how]
                   IN  IF first.arm = 0 THEN entered
                       ELSE Again(s, PerformAll(s.parts[first.arm], entered))
              [] s.op = "repeat" ->
                   LET body == PerformAll(s.parts[1], q)
                       until == Holds(s.cond, body.mem)
                       tested == [body EXCEPT !.mem = until.mem, !.how = until.how]
                   IN  IF body.how # "next" THEN Again(s, body)
                       ELSE IF until.value THEN tested ELSE Again(s, tested)
              [] s.op = "for" ->
                   LET high == ValueOf(s.high, q.mem)
                       more == IF s.step > 0 THEN q.mem[s.var] <= high ELSE q.mem[s.var] >= high
                   IN  IF more THEN Again(s, ForStep(s, PerformAll(s.parts[1], q))) ELSE q

Perform(s, r) ==
    IF r.fuel = 0 THEN [r EXCEPT !.how = "stuck"]
    ELSE LET q == [r EXCEPT !.fuel = @ - 1]
             arm(i) == IF i = 0 THEN s.else ELSE s.parts[i]
         IN CASE s.op = "inc" ->
                   IF q.mem[s.var] + s.value \in Integer THEN [q EXCEPT !.mem[s.var] = @ + s.value]
                   ELSE [q EXCEPT !.how = "trap"]
              [] s.op \in {"exit", "return"} -> [q EXCEPT !.how = s.op]
              [] s.op = "if" ->
                   LET first == FirstOf(s.conds, 1, q.mem)
                   IN  PerformAll(arm(first.arm), [q EXCEPT !.mem = first.mem, !.how = first.how])
              [] s.op \in {"case", "typecase"} ->
                   PerformAll(arm(ArmOf(s, q.mem[s.var])), q)
              [] s.op = "for" -> Iterate(s, [q EXCEPT !.mem[s.var] = ValueOf(s.low, q.mem)])
              [] OTHER -> Iterate(s, q)

Meaning(body, mem, fuel) == PerformAll(body, [mem |-> mem, how |-> "next", fuel |-> fuel])
=============================================================================
