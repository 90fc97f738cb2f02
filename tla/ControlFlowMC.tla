--------------------------- MODULE ControlFlowMC ---------------------------
(***************************************************************************)
(* Programs over two integers and a pointer: compound statements around    *)
(* short sequences, around compound statements.                            *)
(***************************************************************************)
EXTENDS ControlFlow

MCBase == [T0 |-> NoType, T1 |-> "T0", T2 |-> "T1", U1 |-> "T0"]

Memory == [x |-> 0, y |-> 0, p |-> "T1"]
Make(kind, body) == [kind |-> kind, body |-> body, mem |-> Memory]
Starts(programs, mems) == {[q EXCEPT !.mem = m] : q \in programs, m \in mems}

X == Less("x", Lit(2))
Y == Less("y", Var("x"))
TickX == Tick("x", Lit(2))
Ops == {And(X, TickX), Or(Not(TickX), Y), And(Or(Y, TickX), Not(X)), Or(And(X, Y), TickX)}

IncX == Inc("x", 1)
IncY == Inc("y", 1)
DecY == Inc("y", -3)
MaybeExit == If(<<X>>, <<<<Exit>>>>, <<>>)
NeverExit == If(<<Not(X)>>, <<<<Exit>>>>, <<>>)
MaybeReturn(v) == If(<<Not(Y)>>, <<<<Return(v)>>>>, <<>>)

(* Sequences inside of a loop *)
Bodies(v) == {<<IncX>>, <<IncX, Exit>>, <<Return(v)>>, <<NeverExit>>, <<MaybeExit, IncY>>, <<IncX, MaybeReturn(v), IncY>>,
              <<IncY, If(<<X, Y>>, <<<<IncX>>, <<Exit>>>>, <<Return(v)>>)>>}

LoopsOf(bodies) ==
    {Loop(b) : b \in bodies}
      \cup {Repeat(b, c) : b \in bodies, c \in {Not(X), Or(Not(TickX), Y)}}
      \cup {While(<<c>>, <<b>>) : c \in {X, And(X, TickX)}, b \in bodies}
      \cup {While(<<Y, X>>, <<b, <<IncX>>>>) : b \in bodies}
      \cup {While(<<Y, X>>, <<<<IncX>>, b>>) : b \in bodies}
      \cup {For("y", Lit(-1), h, 2, b) : h \in {Lit(1), Var("x")}, b \in bodies}
      \cup {For("y", Lit(2), Var("x"), -1, b) : b \in bodies}

Maybe(b, seq) == IF b THEN seq ELSE <<>>

BranchesOf(bodies) ==
    {If(<<c>>, <<b>>, Maybe(else, b)) : c \in Ops, b \in bodies, else \in BOOLEAN}
      \cup {If(<<X, Y>>, <<b, <<IncY>>>>, <<IncX>>) : b \in bodies}
      \cup {Case("x", ls, <<b, <<IncY>>>>, Maybe(else, b)) : b \in bodies, else \in BOOLEAN,
              ls \in {<<<<<<0, 1>>>>, <<<<2, 2>>, <<-1, -1>>>>>>, <<<<<<2, 3>>, <<-4, -2>>>>, <<<<0, 0>>>>>>,
                      <<<<<<0, 1>>>>, <<<<1, 2>>>>>>}}
      \cup {TypeCase("p", "T0", ts, <<b, <<IncY>>>>, Maybe(else, b)) : b \in bodies, else \in BOOLEAN,
              ts \in {<<"T1", "U1">>, <<"T2", "T1">>, <<"U1", "T0">>}}

Simple == {<<IncX>>, <<IncY, Exit>>, <<IncX, If(<<TickX>>, <<<<Exit>>>>, <<IncY>>)>>}

Nested == {<<IncX, s>> : s \in LoopsOf(Simple)} \cup {<<s, IncY>> : s \in BranchesOf(Simple)}

(* One compound statement; two; a loop in a branch in a loop. *)
Flat == {Make("module", <<s, IncX>>) : s \in LoopsOf(Bodies(FALSE)) \cup BranchesOf({<<IncX>>, <<Return(FALSE)>>})}
          \cup {Make("proper", <<s>>) : s \in LoopsOf(Bodies(FALSE))}
          \cup {Make("function", <<s, Return(TRUE)>>) : s \in LoopsOf(Bodies(TRUE))}
          \cup Starts({Make("function", <<s>>) : s \in LoopsOf(Bodies(TRUE))}, {Memory, [Memory EXCEPT !.x = 3]})
          \cup {Make("proper", <<s, IncX>>) : s \in BranchesOf({<<IncX>>, <<Return(FALSE)>>})}
          \cup {Make("function", <<s>>) : s \in BranchesOf({<<Return(TRUE)>>, <<IncX, Return(TRUE)>>})}

Deep == Starts({Make("module", <<s, DecY>>) : s \in LoopsOf(Nested)}, {Memory, [Memory EXCEPT !.x = -3]})

Tests(static) ==
    {Make("module", <<If(<<Is("p", static, t)>>, <<<<IncX>>>>, <<IncY>>)>>) : t \in {"T0", "T1", "T2"}}

(* A pointer refers to a record whose type extends its own, or is NIL. *)
Pointers(static) == {[Memory EXCEPT !.p = t] : t \in {u \in DOMAIN MCBase : Extends(u, static)} \cup {Nil}}

MCPrograms == Flat \cup Deep
    \cup Starts(Tests("T0"), Pointers("T0")) \cup Starts(Tests("T1"), Pointers("T1"))
    \cup Starts({Make("module", <<s>>) : s \in BranchesOf({<<IncX>>})}, Pointers("T0"))
=============================================================================
