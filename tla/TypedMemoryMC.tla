---------------------------- MODULE TypedMemoryMC ----------------------------
(***************************************************************************)
(* Instances of TypedMemory for TLC: four small programs.                  *)
(***************************************************************************)
EXTENDS TypedMemory

FieldOf(n, t) == [name |-> n, type |-> t]
Value_(n, t) == [name |-> n, var |-> FALSE, type |-> t]
Var(n, t) == [name |-> n, var |-> TRUE, type |-> t]
Anonymous(parameters) == ProcedureType(NoName, parameters)
ArrayOf(name, length, element) == ArrayType(name, name, <<length>>, <<element>>)

TypeTable ==
  LET Basic == [INTEGER |-> BasicType("INTEGER"), CHAR |-> BasicType("CHAR"),
                STRING |-> Node("STRING", NoName, NoType), NILTYPE |-> Node("NILTYPE", NoName, NoType)]
      \* BR is the type R of another module.
      Records == [R |-> RecordType("R", NoType, <<FieldOf("f", "INTEGER")>>),
                  S |-> RecordType("S", "R", <<FieldOf("g", "INTEGER")>>),
                  P |-> PointerType("P", "R"), Q |-> PointerType("Q", "S"),
                  BR |-> RecordType("R", NoType, <<FieldOf("h", "P")>>),
                  U |-> Anonymous(<<Var("x", "R")>>), V |-> Anonymous(<<Value_("y", "R"), Var("z", "P")>>),
                  W |-> Anonymous(<<Var("w", "S"), Value_("k", "P")>>)]
      Arrays == [A2 |-> ArrayOf("A2", 2, "INTEGER"), A3 |-> ArrayOf("A3", 3, "INTEGER"),
                 M |-> ArrayType("M", "M", <<2, 3>>, <<"Row", "INTEGER">>),
                 Row |-> ArrayType(NoName, "M", <<3>>, <<"INTEGER">>),
                 O |-> ArrayType(NoName, "O", <<0>>, <<"INTEGER">>),
                 OO |-> ArrayType(NoName, "OO", <<0, 0>>, <<"ORow", "INTEGER">>),
                 ORow |-> ArrayType(NoName, "OO", <<0>>, <<"INTEGER">>),
                 \* the rows of an ARRAY OF Pair
                 Pair |-> ArrayType("Pair", "Pairs", <<2>>, <<"INTEGER">>),
                 Pairs |-> ArrayType("Pairs", "Pairs", <<0, 2>>, <<"Pair", "INTEGER">>),
                 Set1 |-> Anonymous(<<Var("o", "O"), Value_("i", "INTEGER")>>),
                 Set2 |-> Anonymous(<<Var("m", "OO")>>),
                 Get |-> Anonymous(<<Value_("b", "O"), Var("e", "A3")>>)]
      Procedures == [H |-> ProcedureType("H", <<Var("x", "R")>>), G |-> ProcedureType("G", <<Value_("x", "R")>>),
                     HP |-> Anonymous(<<Var("hx", "R")>>), GP |-> Anonymous(<<Value_("gx", "R")>>),
                     L |-> Anonymous(<<Var("lf", "H"), Value_("lg", "G")>>)]
      Strings == [C2 |-> ArrayOf("C2", 2, "CHAR"), C3 |-> ArrayOf("C3", 3, "CHAR"),
                  OC |-> ArrayType(NoName, "OC", <<0>>, <<"CHAR">>),
                  X |-> Anonymous(<<Var("xo", "OC"), Value_("xc", "OC")>>), Y |-> Anonymous(<<Value_("yo", "C3")>>)]
  IN  Basic @@ Records @@ Arrays @@ Procedures @@ Strings

Constant(form, value, type) == [form |-> form, name |-> NoName, size |-> 0, value |-> value, type |-> type]
One == Constant("number", Number(1), "INTEGER")
NilValue == Constant("nil", Nil, "NILTYPE")
String(name, size) == [form |-> "string", name |-> name, size |-> size, value |-> Nil, type |-> "STRING"]
Text(size, type) == [type |-> type, cells |-> [i \in 1..(size + 1) |-> Char(IF i <= size THEN i ELSE 0)]]

Dereference == [node |-> "dereference"]
At(n) == [node |-> "field", name |-> n]
Index(indices) == [node |-> "index", indices |-> indices]
Guard(t) == [node |-> "guard", type |-> t]

NoStrings == [s \in {} |-> s]

ProjectTable ==
  LET Records ==
        [variables |-> [r |-> "R", s |-> "S", p |-> "P", q |-> "Q"],
         procedures |-> [U |-> "U", V |-> "V", W |-> "W"], strings |-> NoStrings, heap |-> {"h1", "h2"},
         selectors |-> {Dereference, At("f"), At("g"), Guard("Q"), Guard("S")},
         expressions |-> {NilValue, One}, steps |-> 4]
      Arrays ==
        [variables |-> [c |-> "A3", n |-> "M", k |-> "M", t |-> "Pair"],
         procedures |-> [Set1 |-> "Set1", Set2 |-> "Set2", Get |-> "Get"], strings |-> NoStrings, heap |-> {},
         selectors |-> {Index(<<1>>), Index(<<2>>), Index(<<1, 0>>), Index(<<0, 2>>)},
         expressions |-> {One}, steps |-> 4]
      Procedures ==
        [variables |-> [r |-> "R", s |-> "S", b |-> "BR", h |-> "H", g |-> "G"],
         procedures |-> [HP |-> "HP", GP |-> "GP", L |-> "L"], strings |-> NoStrings, heap |-> {},
         selectors |-> {At("f"), Guard("S")}, expressions |-> {NilValue, One}, steps |-> 5]
      Strings ==
        [variables |-> [c |-> "C3", d |-> "C2", a |-> "A2"],
         procedures |-> [X |-> "X", Y |-> "Y"], heap |-> {},
         strings |-> [one |-> Text(1, "C2"), two |-> Text(2, "C3")],
         selectors |-> {Index(<<0>>), Index(<<2>>)}, expressions |-> {String("one", 1), String("two", 2)},
         steps |-> 5]
  IN  [records |-> Records, arrays |-> Arrays, procedures |-> Procedures, strings |-> Strings]

\* TLC keeps the value of a definition without parameters.
SomeTypes == LET table == TypeTable IN table
SomeProjects == LET table == ProjectTable IN table
=============================================================================
