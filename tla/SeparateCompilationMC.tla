------------------------ MODULE SeparateCompilationMC ------------------------
(***************************************************************************)
(* Instances of SeparateCompilation for TLC: the texts of small modules.   *)
(***************************************************************************)
EXTENDS SeparateCompilation

Id(n) == [module |-> NoModule, name |-> n]
Of(m, n) == [module |-> m, name |-> n]
Named(ref) == [form |-> "name", ref |-> ref]
PointerTo(ref) == [form |-> "pointer", ref |-> ref]
ArrayOf(e) == [form |-> "array", of |-> e]
Field(n, x, e) == [name |-> n, exported |-> x, var |-> FALSE, seqId |-> 0, type |-> e]
Same(n, x) == [name |-> n, exported |-> x, var |-> FALSE, seqId |-> 1, type |-> Named(NoRef)]
RecordOf(ref, parts) == [form |-> "record", ref |-> ref, parts |-> parts]
Parameter(v, e) == [name |-> "p", exported |-> FALSE, var |-> v, seqId |-> 0, type |-> e]
ProcedureOf(ref, parts) == [form |-> "procedure", ref |-> ref, parts |-> parts]
Text(kind, n, x, e) == [kind |-> kind, name |-> n, exported |-> x, expr |-> e]
Type(n, x, e) == Text(NodeType.type, n, x, e)
Var(n, x, e) == Text(NodeType.variable, n, x, e)

IntegerType == Named(Id("INTEGER"))
\* The texts, or the imports, of A and B, or of A, B and C.
Of2(a, b) == [m \in {"A", "B"} |-> IF m = "A" THEN a ELSE b]
Of3(a, b, d) == [m \in {"A", "B", "C"} |-> CASE m = "A" -> a [] m = "B" -> b [] m = "C" -> d]

SomeDecls == 1..200
SomeNames == {"INTEGER", "P", "Q", "R", "S", "T", "H", "v", "f", "g", "h", "_"}

\* A project: texts, imports and bound.
Project(texts, imports, size) == [texts |-> texts, imports |-> imports, size |-> size]

ClientOnly == Of2({}, {"A"})
Layers == Of3({}, {"A"}, {"A", "B"})

Pointers == {Type("P", x, PointerTo(Id("R"))) : x \in BOOLEAN} \cup
            {Type("Q", x, PointerTo(Id("R"))) : x \in BOOLEAN}

\* One module with types of every form, forward and recursive references.
OneModule ==
  Of2(Pointers \cup
      {Type("R", x, RecordOf(b, f)) : x \in BOOLEAN, b \in {NoRef, Id("S")},
         f \in {<<>>, <<Field("f", TRUE, Named(Id("P"))), Same("g", FALSE)>>,
                <<Field("f", FALSE, PointerTo(Id("R"))), Field("g", FALSE, PointerTo(Id("R")))>>,
                <<Field("f", FALSE, Named(Id("H")))>>}} \cup
      {Type("S", x, RecordOf(NoRef, <<Field("h", FALSE, IntegerType)>>)) : x \in BOOLEAN} \cup
      {Type("H", x, ProcedureOf(NoRef, <<Parameter(TRUE, Named(Id("P")))>>)) : x \in BOOLEAN} \cup
      {Type("T", TRUE, ArrayOf(Named(Id("P")))), Type("T", TRUE, Named(Id("R"))),
       Var("v", TRUE, Named(Id("R"))), Var("v", TRUE, ArrayOf(PointerTo(Id("R")))),
       Text(NodeType.constant, "v", TRUE, IntegerType),
       Text(NodeType.procedure, "v", TRUE, ProcedureOf(Id("P"), <<Parameter(FALSE, Named(Id("S")))>>))},
      {})

\* A with recursive types, B re-exports them and extends or points to them.
ReExports ==
  Of3({Type("P", TRUE, PointerTo(Id("R"))),
       Type("H", TRUE, ProcedureOf(NoRef, <<Parameter(TRUE, Named(Id("P")))>>))} \cup
      {Type("S", x, RecordOf(NoRef, <<Field("h", x, IntegerType)>>)) : x \in BOOLEAN} \cup
      {Type("R", TRUE, RecordOf(b, f)) : b \in {NoRef, Id("S")},
         f \in {<<>>, <<Field("f", TRUE, Named(Id("P")))>>, <<Field("g", FALSE, Named(Id("H")))>>,
                <<Field("g", TRUE, Named(Id("S")))>>}},
      {Var("v", TRUE, Named(Of("A", n))) : n \in {"P", "H", "R"}} \cup
      {Type("Q", TRUE, PointerTo(Of("A", n))) : n \in {"R", "S"}} \cup
      {Type("R", TRUE, RecordOf(Of("A", n), <<>>)) : n \in {"R", "S"}},
      {})

RoundTripAndReExports == {Project(OneModule, ClientOnly, 4), Project(ReExports, Layers, 3)}
=============================================================================
