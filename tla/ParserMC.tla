------------------------------ MODULE ParserMC ------------------------------
(***************************************************************************)
(* Programs written from trees, and what becomes of them when a token is   *)
(* forgotten, mistyped or added, or when the file is cut short.            *)
(***************************************************************************)
EXTENDS Grammar

Named(x, selectors) == Node("designator", <<Leaf(x), List(selectors)>>)
Var(x) == Node("qualified", <<Named(x, <<>>)>>)
One == Leaf("1")
Binary(op, l, r) == Node("binary", <<l, Leaf(op), r>>)
Negation(e) == Node("negation", <<e>>)
Not(e) == Node("not", <<e>>)
Larger(E, ops) ==
    E \cup {Binary(op, l, r) : op \in ops, l \in E, r \in E} \cup {Negation(e) : e \in E} \cup {Not(e) : e \in E}
Exprs == Larger(Larger({Var("a"), One}, {"=", "+", "*"}), {"<", "-", "&"})

Field == Node("field", <<Leaf("b")>>)
Index(es) == Node("index", <<List(es)>>)
Parameters(es) == Node("parameters", <<List(es)>>)
Deref == Node("dereference", <<>>)
Use(selectors) == Node("qualified", <<Named("a", selectors)>>)
Imported == Node("qualified", <<Node("designator", <<Node("qualident", <<Leaf("M"), Leaf("b")>>), List(<<Field>>)>>)>>)
Uses == {Use(<<Field, Deref>>), Use(<<Index(<<One, Var("a")>>), Field>>), Use(<<Parameters(<<Var("b")>>), Field>>),
         Use(<<Deref, Parameters(<<>>)>>), Imported, Node("set", <<List(<<>>)>>),
         Node("set", <<List(<<One, Node("range", <<One, Var("a")>>)>>)>>)}

Assignment(e) == Node("assignment", <<Var("a"), e>>)
Call(x, selectors) == Node("call", <<Named(x, selectors)>>)
Exit == Node("exit", <<>>)
Body1 == Statements(<<Assignment(One), Call("P", <<>>)>>)
Body2 == Statements(<<Call("P", <<Parameters(<<One, Var("a")>>)>>)>>)
Empty == Statements(<<>>)
Elsif == Node("elsif", <<Var("b"), Body1>>)
Loop(ss) == Node("loop", <<Statements(ss)>>)
Arm(ls, b) == Node("arm", <<List(ls), b>>)
Compound ==
    {Node("if", <<Var("a"), b, List(es), e>>) : b \in {Empty, Body1}, es \in {<<>>, <<Elsif>>}, e \in {Empty, Body2}}
      \cup {Node("while", <<Var("a"), Body1, List(es)>>) : es \in {<<>>, <<Elsif, Elsif>>}}
      \cup {Node("repeat", <<Statements(<<Exit>>), Not(Var("a"))>>), Loop(<<Loop(<<Exit>>), Exit>>)}
      \cup {Node("for", <<Leaf("a"), One, Var("b"), s, Body1>>) : s \in {Leaf("none"), One}}
      \cup {Node("case", <<Var("a"), List(<<Arm(<<One>>, Body1), Arm(<<One, Node("range", <<One, One>>)>>, Empty)>>), e>>) :
                e \in {Empty, Body2}}
      \cup {Node("return", <<e>>) : e \in {Leaf("none"), One}}

NoDeclarations == Node("declarations", <<List(<<>>), List(<<>>), List(<<>>), List(<<>>)>>)
Module(imports, declared, ss) ==
    Node("module", <<Leaf("M"), List(imports), declared, Statements(ss), Leaf("M")>>)
Main(ss) == Module(<<>>, NoDeclarations, ss)

Star(x) == Node("exported", <<Leaf(x)>>)
Formals(ss, t) == Node("formals", <<List(ss), t>>)
Formal(v, xs, dims, t) ==
    Node("section", <<Leaf(v), List(xs), Node("formal_type", <<List(dims), t>>)>>)
Section1 == Formal("VAR", <<Leaf("a"), Leaf("b")>>, <<Leaf("dimension")>>, Leaf("T"))
Section2 == Formal("none", <<Leaf("a")>>, <<>>, Node("qualident", <<Leaf("M"), Leaf("T")>>))
Procedure(x, formals, declared, ss) ==
    Node("procedure", <<Node("heading", <<x>>), formals, declared, Statements(ss), Leaf("P")>>)
Record(base, fields) == Node("record", <<base, List(fields)>>)
Fields(xs, t) == Node("fields", <<List(xs), t>>)
Declared(cs, ts, vs, ps) == Node("declarations", <<List(cs), List(ts), List(vs), List(ps)>>)
Local1 == Declared(<<>>, <<>>, <<Node("var", <<List(<<Leaf("a")>>), Leaf("T")>>)>>, <<>>)
Programs ==
    {Module(<<Node("import", <<Leaf("a")>>), Node("alias", <<Leaf("b"), Leaf("a")>>)>>,
            Declared(<<Node("const", <<Star("a"), One>>)>>, <<>>,
                     <<Node("var", <<List(<<Leaf("a"), Star("b")>>), Node("array", <<List(<<One, One>>), Leaf("T")>>)>>)>>,
                     <<>>), <<>>),
     Main(<<>>)}
      \cup {Module(<<>>, Declared(<<>>, <<Node("type", <<Leaf("T"), t>>)>>, <<>>, <<>>), <<>>) :
              t \in {Node("pointer", <<Leaf("T")>>), Node("pointer", <<Record(Leaf("none"), <<>>)>>),
                     Record(Leaf("T"), <<Fields(<<Star("a"), Leaf("b")>>, Leaf("T")), Fields(<<Leaf("a")>>, Leaf("T"))>>),
                     Node("signature", <<Formals(<<Section1>>, Leaf("T"))>>)}}
      \cup {Module(<<>>, Declared(<<>>, <<>>, <<>>, <<p>>), <<Call("P", <<>>)>>) :
              p \in {Procedure(Star("P"), Formals(<<Section1, Section2>>, Leaf("none")), Local1, <<Node("return", <<One>>)>>),
                     Procedure(Leaf("P"), Formals(<<>>, Leaf("T")),
                               Declared(<<>>, <<>>, <<>>, <<Procedure(Leaf("P"), Formals(<<>>, Leaf("none")), NoDeclarations, <<>>)>>),
                               <<Call("P", <<>>)>>),
                     Node("external", <<Leaf("string"), Leaf("P"), Formals(<<Section2, Leaf("varargs")>>, Leaf("none")), Leaf("string")>>)}}

-----------------------------------------------------------------------------
Input(tokens, tree, edit) == [tokens |-> tokens, tree |-> tree, edit |-> edit, variables |-> {}]
(* The same with variables for the names in left operands and in labels *)
OfVariables(programs) ==
    {[Input(Text(p), p, "any") EXCEPT !.variables = DOMAIN Text(p)] : p \in programs}
Written(programs) == {Input(Text(p), p, "none") : p \in programs}
Without(t, i) == SubSeq(t, 1, i - 1) \o SubSeq(t, i + 1, Len(t))
With(t, i, u) == SubSeq(t, 1, i - 1) \o <<u>> \o SubSeq(t, i, Len(t))
(* One token forgotten, mistyped or added, or the end of the file lost *)
Slips(t, typed) ==
    LET D == DOMAIN t IN
    {Without(t, i) : i \in D} \cup {[t EXCEPT ![i] = u] : i \in D, u \in typed}
      \cup {With(t, i, u) : i \in D, u \in typed} \cup {SubSeq(t, 1, i) : i \in D}
Slipped(programs, typed) == UNION {{Input(t, p, "any") : t \in Slips(Text(p), typed)} : p \in programs}
(* The semicolons of the module's statements, and the text without one *)
Bodies(t) == {i \in DOMAIN t : t[i] = ";" /\ \E j \in 1 .. i : t[j] = "BEGIN"}
Forgotten(programs) ==
    UNION {{Input(Without(Text(p), i), p, "semicolon") : i \in Bodies(Text(p))} : p \in programs}

Sequences2 == {Main(<<s, Assignment(Var("b")), s>>) : s \in {c \in Compound : c.kind # "return"}}
OfExpressions == {Main(<<Assignment(e)>>) : e \in Exprs \cup Uses}
OfStatements == {Main(<<s>>) : s \in Compound \cup {Call("P", <<Parameters(<<e>>)>>) : e \in Uses}}
(* Where semantic analysis takes a name for a constant or a type *)
Singleton == Node("set", <<List(<<One>>)>>)
Named2 == {Binary("IN", l, r) : l \in {Var("a"), Negation(Var("a")), One}, r \in {Singleton, Var("b")}}
Cases == {Node("case", <<Var("a"), List(<<Arm(<<One>>, Empty), Arm(<<l>>, Body1)>>), Empty>>) :
             l \in {Var("b"), Node("range", <<One, Var("b")>>)}}
OfNames == {Main(<<Assignment(e)>>) : e \in Named2} \cup {Main(<<c>>) : c \in Cases}
(* Names of procedures in the type of a function's result *)
Function(l) == Procedure(Leaf("P"), Formals(<<>>, Node("array", <<List(<<l>>), Leaf("T")>>)), NoDeclarations, <<>>)
Functions == {Module(<<>>, Declared(<<>>, <<>>, <<>>, <<p>>), <<>>) :
                 p \in {Function(l) : l \in {Var("P"), Var("Q"), Node("qualified", <<Named("P", <<Parameters(<<>>)>>)>>)}}}
MCInputs ==
    Written(OfExpressions \cup OfStatements \cup Programs \cup Sequences2 \cup OfNames)
      \cup OfVariables(OfNames) \cup {Input(Text(p), p, "any") : p \in Functions}
      \cup Forgotten(Sequences2)
      \cup Slipped(OfStatements, {";", "END", "a", "+", "|", ")", ":="})
      \cup Slipped(Programs, {";", "END", "a", "(", ":", "..."})
=============================================================================
