--------------------------- MODULE LambdaLifterMC ---------------------------
(***************************************************************************)
(* Modules with a procedure P, Q in P and R in Q, for many choices of      *)
(* parameters and variables (the names a, b and x hide each other) and of  *)
(* bodies, that move values from one visible variable to another, call,    *)
(* recur and return.                                                       *)
(***************************************************************************)
EXTENDS LiftedMeaning

g == Decl(Module, "g")
h == Decl(Module, "h")
Globals == {g, h}

a == <<Formal("a", FALSE, Integer)>>
va == <<Formal("a", TRUE, Integer)>>
vb == <<Formal("b", TRUE, Integer)>>
vab == va \o vb
x == <<Variable("x", Integer)>>

Plus(d, n) == Ref(d, <<>>, n)
Move(to, from) == Assign(Plain(to), Plus(from, 1))
Call(p, args) == CallTo(None, p, args)

(* What is visible in p: its own declarations hide the outer ones. *)
In(p, params, vs, outer) ==
    LET own == Names(params) \cup Names(vs)
    IN  {Decl(p, z) : z \in own} \cup {d \in outer : d.name \notin own}

Moves(ds) == {Move(d[1], d[2]) : d \in {e \in ds \X ds : e[1] # e[2]}}

Args(params, ds) == IF params = <<>> THEN {<<>>}
                    ELSE IF Len(params) = 1 THEN {<<Plain(d)>> : d \in ds}
                    ELSE {<<Plain(d[1]), Plain(d[2])>> : d \in ds \X ds}

CallsOf(p, params, ds) == {Call(p, args) : args \in Args(params, ds)}

(* Shows the locals of P in the module's variables. *)
Report(pv) == IF pv = <<>> THEN <<>> ELSE <<Assign(Plain(h), Plus(Decl("P", "x"), 3))>>

Make(procs, call) ==
    Program(procs, SelectSeq(<<"M", "P">>, LAMBDA p : p \in DOMAIN procs), <<"g", "h">>,
            [p \in DOMAIN procs |-> <<>>], <<Assign(Plain(g), Number(1)), call>>)

-----------------------------------------------------------------------------
(* P with Q *)
Two(pp, pv, qp, qv) ==
    LET inP == In("P", pp, pv, Globals)
        inQ == In("Q", qp, qv, inP)
    IN  {Make([P |-> Procedure(1, pp, pv, <<"Q">>, <<first, call>> \o Report(pv)),
               Q |-> Procedure(2, qp, qv, <<>>, <<move>>)], main) :
           first \in Moves(inP), call \in CallsOf("Q", qp, inP), move \in Moves(inQ),
           main \in CallsOf("P", pp, {g})}

TwoLevels ==
    UNION {Two(pp, pv, qp, qv) : pp \in {<<>>, a, va}, pv \in {<<>>, x},
                                 qp \in {<<>>, va}, qv \in {<<>>, x}}

(* P with Q with R *)
Three(pp, pv, qp, qv, rp) ==
    LET inP == In("P", pp, pv, Globals)
        inQ == In("Q", qp, qv, inP)
        inR == In("R", rp, <<>>, inQ)
    IN  {Make([P |-> Procedure(1, pp, pv, <<"Q">>, <<callQ>> \o Report(pv)),
               Q |-> Procedure(2, qp, qv, <<"R">>, <<callR>>),
               R |-> Procedure(3, rp, <<>>, <<>>, <<move>>)], main) :
           callQ \in CallsOf("Q", qp, inP), callR \in CallsOf("R", rp, inQ),
           move \in Moves(inR), main \in CallsOf("P", pp, Globals)}

ThreeLevels ==
    UNION {Three(pp, x, qp, qv, rp) :
             pp \in {<<>>, va}, qp \in {<<>>, vb}, qv \in {<<>>, x}, rp \in {<<>>, va}}

(* Two VAR parameters, and a procedure M that passes its own on. *)
Aliases ==
    LET inP == In("P", vab, <<>>, Globals)
        inM == In("M", va, <<>>, Globals)
    IN  {Make([P |-> Procedure(1, vab, <<>>, <<"Q">>, <<first, Call("Q", <<>>)>>),
               Q |-> Procedure(2, <<>>, <<>>, <<>>, <<move>>),
               M |-> Procedure(1, va, <<>>, <<>>, <<call>>)], Call("M", <<Plain(main)>>)) :
           first \in {Move(Decl("P", "a"), d) : d \in inP}, move \in Moves(inP),
           call \in CallsOf("P", vab, inM), main \in Globals}

(* Any procedure calls any that it sees, as long as x is positive. *)
Recursive ==
    LET X(p) == Decl(p, "x")
        recur(d, p) == <<If(Plus(d, 0), 2), Assign(Plain(d), Plus(d, -1)), Call(p, <<>>)>>
    IN  {Make([P |-> Procedure(1, <<>>, x, <<"Q">>,
                               <<Assign(Plain(X("P")), Plus(g, n))>> \o recur(X("P"), cp)
                               \o Report(x)),
               Q |-> Procedure(2, <<>>, qv, <<"R">>, recur(X(IF qv = <<>> THEN "P" ELSE "Q"), cq)),
               R |-> Procedure(3, <<>>, x, <<>>,
                               <<Assign(Plain(X("R")), Plus(g, n))>> \o recur(d, cr)
                               \o <<Move(g, X("R"))>>)],
              Call("P", <<>>)) :
           n \in 0..1, cp \in {"P", "Q"}, cq \in {"P", "Q", "R"}, cr \in {"P", "Q", "R"},
           d \in {g, X("R")}, qv \in {<<>>, x}}

(* Procedures that return in the middle, and functions. *)
Early(value) == {<<>>, <<If(Plus(h, 0), 1), Return(value)>>}

Returns ==
    LET b == Decl("P", "a")
        inQ == In("Q", <<>>, x, {b, g, h})
    IN  {Make([P |-> Procedure(1, pp, <<>>, <<"Q">>, <<Call("Q", <<>>)>> \o r \o <<Move(b, g)>>),
               Q |-> Procedure(2, <<>>, x, <<>>, q \o <<move>>)],
              Call("P", <<Plain(g)>>)) :
           pp \in {a, va}, r \in Early(None), q \in Early(None), move \in Moves(inQ)}

Functions ==
    LET b == Decl("P", "a")
        inQ == In("Q", <<>>, x, {b, g, h})
    IN  {Make([P |-> Procedure(1, pp, <<>>, <<"Q">>,
                               <<CallTo(Plain(to), "Q", <<>>)>> \o r \o <<Return(Plus(b, 2))>>),
               Q |-> Procedure(2, <<>>, x, <<>>, <<move>> \o q \o <<Return(Plus(d, 3))>>)],
              CallTo(Plain(h), "P", <<Plain(g)>>)) :
           pp \in {a, va}, to \in {b, g, h}, r \in Early(Plain(b)), q \in Early(Plain(g)),
           move \in Moves(inQ), d \in inQ}

Nested == TwoLevels \cup ThreeLevels \cup Aliases \cup Recursive \cup Returns
          \cup Functions

(* One, two or three procedures side by side in P. *)
Siblings ==
    {Make([P |-> Procedure(1, <<>>, x, SubSeq(<<"Q", "R", "S">>, 1, n), <<Call("Q", <<>>)>>)]
          @@ [p \in ToSet(SubSeq(<<"Q", "R", "S">>, 1, n)) |-> Procedure(2, <<>>, <<>>, <<>>, <<move>>)],
          Call("P", <<>>)) : n \in 1..3, move \in Moves(Globals \cup {Decl("P", "x")})}
=============================================================================
