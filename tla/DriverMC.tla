------------------------------ MODULE DriverMC ------------------------------
(***************************************************************************)
(* Instances of Driver for TLC: three modules, A, B that uses A, and C.    *)
(***************************************************************************)
EXTENDS Driver, FiniteSets

Direct(m) == [module |-> m, alias |-> NoModule]
Alias(a, m) == [module |-> m, alias |-> a]
Text(m, imports, uses, reexport, exports) ==
  [module |-> m, imports |-> imports, uses |-> uses, reexport |-> reexport, exports |-> exports,
   broken |-> FALSE, nested |-> FALSE]
Broken(t) == [t EXCEPT !.broken = TRUE]
Nested(t) == [t EXCEPT !.nested = TRUE]

PlainA == Text("A", <<>>, {}, NoModule, TRUE)
UserB == Text("B", <<Direct("A")>>, {"A"}, NoModule, TRUE)
ReexportingB == Text("B", <<Direct("A")>>, {"A"}, "A", FALSE)
AliasC == Text("C", <<Alias("B", "A")>>, {"B"}, "B", FALSE)
LayersC == Text("C", <<Direct("B"), Direct("A")>>, {"A"}, NoModule, FALSE)

SomeTexts ==
  [f \in {"A", "B", "C"} |->
     CASE f = "A" -> {PlainA, Broken(PlainA), Nested(PlainA), Text("A", <<Direct("B")>>, {}, NoModule, TRUE),
                      Text("A", <<Direct("SYSTEM"), Direct("A")>>, {}, NoModule, FALSE)}
       [] f = "B" -> {UserB, ReexportingB, Text("B", <<>>, {}, NoModule, FALSE),
                      Text("A", <<>>, {}, NoModule, TRUE)}
       [] f = "C" -> {AliasC, LayersC, Text("C", <<>>, {"A"}, NoModule, TRUE),
                      Text("C", <<Direct("A"), Direct("A")>>, {}, NoModule, FALSE)}]

Command(mode, output, werror, inputs) ==
  [mode |-> mode, output |-> output, werror |-> werror, inputs |-> inputs]

Single == {<<f>> : f \in {"A", "B", "C"}}
Several == {<<"A", "B">>, <<"B", "A">>, <<"A", "C">>, <<"B", "C">>, <<"A", "B", "C">>, <<"A", "A">>}

SomeCommands ==
  {Command("compile", o, w, i) : o \in BOOLEAN, w \in BOOLEAN, i \in Single \cup Several} \cup
  {Command("run", FALSE, FALSE, i) : i \in {<<"A">>, <<"B">>, <<"A", "B">>}} \cup
  {Command("link", FALSE, FALSE, <<"A">>)}

Plain == {Command("compile", FALSE, FALSE, i) : i \in Single \cup Several}
=============================================================================
