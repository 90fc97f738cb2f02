------------------------- MODULE ExpressionFolding --------------------------
(***************************************************************************)
(* The semantic analysis of operators: the types of their operands and     *)
(* results, casts, and the folding of constants.                           *)
(***************************************************************************)
EXTENDS ExpressionCode

-----------------------------------------------------------------------------
(* Sema: types, casts *)

(* Mutant: the larger type, of integers and real numbers, too. *)
largerType(lhs, rhs) ==
    IF lhs = rhs THEN lhs
    ELSE IF ~({lhs, rhs} \subseteq Numeric) THEN None
    ELSE IF Size[lhs] > Size[rhs] THEN lhs ELSE rhs
commonType(lhs, rhs) ==
    IF lhs = rhs THEN lhs
    ELSE IF ~({lhs, rhs} \subseteq Numeric) THEN None
    ELSE IF lhs \in RealTypes /\ rhs \in Integers THEN lhs
    ELSE IF lhs \in Integers /\ rhs \in RealTypes THEN rhs
    ELSE IF Size[lhs] > Size[rhs] THEN lhs ELSE rhs

(* Common type of the operands and type of the result, None where there is an error. *)
Typing(op, lhs, rhs) ==
    LET types == {lhs, rhs}
        common == commonType(lhs, rhs)
        Typed(c, t) == [common |-> c, result |-> t]
        Both(c) == Typed(c, c)
        error == Both(None)
    IN  CASE op \in {"=", "#"} /\ types = {"BOOLEAN"} -> Typed(None, "BOOLEAN")
          [] op \in {"=", "#", "<=", ">="} /\ types = {"SET"} -> Typed(common, "BOOLEAN")
          [] op \in Relations /\ (types \subseteq Numeric \/ types = {"CHAR"}) -> Typed(common, "BOOLEAN")
          [] op = "IN" /\ lhs \in Integers /\ rhs = "SET" -> Typed(None, "BOOLEAN")
          [] op \in {"+", "-", "*"} /\ (types \subseteq Numeric \/ types = {"SET"}) -> Both(common)
          [] op \in {"DIV", "MOD"} /\ types \subseteq Integers \cup {"BYTE"} -> Both(common)
          [] op = "/" /\ (types \subseteq Numeric \/ types = {"SET"}) ->
                Both(IF common \in Integers THEN "REAL" ELSE common)
          [] op \in {"OR", "&"} /\ types = {"BOOLEAN"} -> Both("BOOLEAN")
          [] OTHER -> error

(* Mutant: literals keep their type. *)
castVariables(n, expected) == IF isLiteral(n) \/ n.type = expected THEN n ELSE [n EXCEPT !.cast = expected]
cast(n, expected) ==
    IF n.type = expected THEN n
    ELSE IF isLiteral(n) /\ expected \in RealTypes /\ n.type \in Integers
    THEN [n EXCEPT !.type = "REAL", !.cast = expected, !.code = RealLiteral(n.val, "REAL")]
    ELSE [n EXCEPT !.cast = expected]

intType(value) ==
    IF value \in Signed(Bits["SHORTINT"]) THEN "SHORTINT"
    ELSE IF value \notin Signed(Bits["INTEGER"]) THEN "LONGINT" ELSE "INTEGER"

-----------------------------------------------------------------------------
(* Sema: folding.  Each operator yields the set of the folded node, empty  *)
(* if there is none.  Integers are folded in 64 bits.                      *)

Int64(value) == Wrap(value, Bits["LONGINT"])
Double(value) == IF value = Undef THEN Undef ELSE Real(value, Bits["LONGREAL"])
NewInteger(value, mean) == Literal(Int64(value), intType(Int64(value)), mean)
NewNumber(value, common, mean) ==
    IF common \in Integers THEN NewInteger(value, mean) ELSE Literal(Double(value), common, mean)

foldBinaryOp(op, l, r, neutral, zeros, common, mean) ==
    IF isLiteral(l) /\ isLiteral(r)
    THEN {NewNumber(CASE Undef \in {l.val, r.val} -> Undef
                      [] OTHER -> IF op = "+" THEN l.val + r.val ELSE l.val * r.val, common, mean)}
    ELSE IF IsLiteral(l, neutral) THEN {[r EXCEPT !.mean = mean]}
    ELSE IF IsLiteral(r, neutral) THEN {[l EXCEPT !.mean = mean]}
    ELSE IF \E zero \in zeros : IsLiteral(l, zero) \/ IsLiteral(r, zero)
    THEN {Literal(0, IF common \in Integers THEN "SHORTINT" ELSE common, mean)}
    ELSE {}

foldSubOp(l, r, common, mean) ==
    IF isLiteral(l) /\ isLiteral(r)
    THEN {NewNumber(IF Undef \in {l.val, r.val} THEN Undef ELSE l.val - r.val, common, mean)}
    ELSE IF IsLiteral(l, 0) THEN {Node(common, UnaryCode("-", common, r), mean)}
    ELSE IF IsLiteral(r, 0) THEN {[l EXCEPT !.mean = mean]}
    ELSE {}

foldDivModOp(op, l, r, common, mean) ==
    IF ~isLiteral(r) THEN {}
    ELSE IF isLiteral(l)
    THEN {Literal(IF r.val = 1 THEN l.val
                  ELSE IF op = "DIV" THEN floor_div(l.val, r.val)
                  ELSE euclidean_mod(l.val, r.val), common, mean)}
    ELSE IF r.val = 1 THEN {[l EXCEPT !.mean = mean]}
    ELSE {}

foldFDivOp(l, r, common, mean) ==
    IF ~isLiteral(r) THEN {}
    ELSE IF isLiteral(l)
    THEN {Literal(IF Undef \in {l.val, r.val} THEN Undef ELSE Double(Quotient(l.val, r.val)), common, mean)}
    ELSE IF r.val = 1 THEN {[l EXCEPT !.cast = common, !.mean = mean]}
    ELSE {}

(* < and <= are folded as each other. *)
foldRelationOp(op, l, r, mean) ==
    LET folded == CASE op = "<" -> "<=" [] op = "<=" -> "<" [] OTHER -> op
        value == IF Undef \in {l.val, r.val} THEN Undef ELSE Compare(folded, l.val, r.val)
    IN  IF isLiteral(l) /\ isLiteral(r) THEN {Literal(value, "BOOLEAN", mean)} ELSE {}

foldBooleanOp(op, l, r, mean) ==
    LET value == CASE op = "&" -> l.val /\ r.val
                   [] op = "OR" -> l.val \/ r.val
                   [] op = "=" -> l.val = r.val
                   [] op = "#" -> l.val # r.val
        neutral == op = "&"
    IN  IF isLiteral(l) /\ isLiteral(r) THEN {Literal(value, "BOOLEAN", mean)}
        ELSE IF op \in Relations THEN {}
        ELSE IF IsLiteral(l, neutral) THEN {[r EXCEPT !.mean = mean]}
        ELSE IF IsLiteral(r, neutral) THEN {[l EXCEPT !.mean = mean]}
        ELSE {}

foldSetOp(op, l, r, result, mean) ==
    IF isLiteral(l) /\ isLiteral(r) THEN {Literal(SetOp(op, l.val, r.val), result, mean)} ELSE {}

(* A division by a constant that is not positive, or a set without the constant *)
FoldError(op, l, r) ==
    /\ isLiteral(r)
    /\ \/ op \in {"DIV", "MOD"} /\ r.val <= 0
       \/ op = "/" /\ r.type \in Numeric /\ r.val = 0
       \/ op = "IN" /\ isLiteral(l) /\ l.val \notin Word

(* The element is taken for a literal. *)
FoldCrash(op, l, r) == op = "IN" /\ isLiteral(r) /\ ~isLiteral(l)

fold(op, l, r, result, mean) ==
    LET types == {l.type, r.type}
    IN  CASE types = {"BOOLEAN"} -> foldBooleanOp(op, l, r, mean)
          [] "SET" \in types -> foldSetOp(op, l, r, result, mean)
          [] op \in Relations /\ types # {"BOOLEAN"} /\ "SET" \notin types -> foldRelationOp(op, l, r, mean)
          [] op = "+" /\ result \in Integers \cup RealTypes -> foldBinaryOp(op, l, r, 0, {}, result, mean)
          [] op = "*" /\ result \in Integers \cup RealTypes -> foldBinaryOp(op, l, r, 1, {0}, result, mean)
          [] op = "-" /\ result \in Integers \cup RealTypes -> foldSubOp(l, r, result, mean)
          [] op \in {"DIV", "MOD"} /\ result \in Integers -> foldDivModOp(op, l, r, result, mean)
          [] op = "/" /\ result \in RealTypes -> foldFDivOp(l, r, result, mean)
          [] OTHER -> {}

foldUnary(op, n, mean) ==
    IF ~isLiteral(n) THEN {}
    ELSE CASE n.type = "BOOLEAN" -> {[Literal(~n.val, "BOOLEAN", mean) EXCEPT !.cast = n.cast]}
           [] n.type \in Integers -> {[NewInteger(-n.val, mean) EXCEPT !.cast = n.cast]}
           [] n.type \in RealTypes -> {[Literal(IF n.val = Undef THEN Undef ELSE -n.val, n.type, mean) EXCEPT !.cast = n.cast]}
           [] n.type = "SET" -> {[Literal(Word \ n.val, "SET", mean) EXCEPT !.cast = n.cast]}
           [] OTHER -> {}

FoldUnaryError(op, n) ==
    isLiteral(n) /\ IF op = "~" THEN n.type \in {"SET"} \cup Integers \cup RealTypes ELSE n.type = "BOOLEAN"
=============================================================================
