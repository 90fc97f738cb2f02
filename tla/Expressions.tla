---------------------------- MODULE Expressions ----------------------------
(***************************************************************************)
(* Expressions of basic types, from the calls the parser makes after each  *)
(* operand, operator and set, in postfix order, to the code of an          *)
(* assignment.  A node of the syntax tree carries the code that visiting   *)
(* it generates and, for comparison, what it means in the language.        *)
(***************************************************************************)
EXTENDS ExpressionFolding, Sequences, FiniteSets

CONSTANTS VarType,      \* types of variables
          Functions,    \* functions without parameters, that return a variable
          Literals,     \* values of the literals of each type
          Small,        \* the operands of a larger expression: variables
          SmallLiterals,  \* and literals
          Targets,      \* types of variables that are assigned to
          MaxSize       \* bound of operands, unary operators and sets

(* Literals are never of type BYTE, and literals and variables have values   *)
(* of their types, numbers those of real types.  There is a memory that code *)
(* is run in.                                                                *)
ValuesOf(t) == IF t \in RealTypes THEN Int ELSE Values(t)

ASSUME ExpressionsAssumption ==
    /\ None \notin Types
    /\ Functions \subseteq DOMAIN VarType
    /\ \A x \in DOMAIN VarType : VarType[x] \in Types
    /\ \A t \in DOMAIN Literals : t \in Types \ {"BYTE"} /\ Literals[t] \subseteq ValuesOf(t)
    /\ 1 \in DOMAIN Memories
    /\ \A m \in DOMAIN Memories, x \in DOMAIN VarType : Memories[m][x] \in ValuesOf(VarType[x])
    /\ MaxSize \in Nat

VARIABLES stack,        \* nodes the parser holds
          phase,        \* parsing, or why it stopped
          size,         \* of the expression, for MaxSize
          stored        \* what the assignment stores

vars == <<stack, phase, size, stored>>

-----------------------------------------------------------------------------
(* The meaning of a node with operands, and where the compiler departs     *)
(* from it: the names of the departures are kept, and label all that is    *)
(* built from the node.                                                    *)

OperandType(op, s, t) ==
    LET larger == Larger(s, t)
    IN  IF op = "/" /\ larger \in Integers \cup {"BYTE"} THEN "REAL" ELSE larger

Departures(op, l, r, common) ==
    LET types == {l.type, r.type}
        With(val) == (IsLiteral(l, val) /\ ~isLiteral(r)) \/ (IsLiteral(r, val) /\ ~isLiteral(l))
        rest == IF isLiteral(l) THEN r ELSE l
        lost == rest.type # common \/ rest.cast # None
        Inexact(n) == isLiteral(n) /\ n.type \in Integers /\ Fit(n.val, "REAL") = Undef
        number == op \in {"+", "-", "*", "/", "DIV", "MOD"} /\ "SET" \notin types
        \* The numbers that signed bytes are taken for
        Byte(v) == Wrap(v, Bits["BYTE"])
        Leaves(a, b) == /\ a # Undef /\ b # Undef
                        /\ Meaning(op, common, Byte(a), Byte(b)) \notin Signed(Bits["BYTE"])
    IN  {d \in {"constant order", "boolean equality", "modulo one", "lost call", "lost type", "byte sign",
                "byte overflow", "large literal", "set width"} :
           CASE d = "constant order" -> op \in {"<", "<="} /\ isLiteral(l) /\ isLiteral(r) /\ l.val = r.val
             [] d = "boolean equality" -> /\ op \in {"=", "#"} /\ types = {"BOOLEAN"}
                                          /\ ~isLiteral(l) \/ ~isLiteral(r)
             [] d = "modulo one" -> op = "MOD" /\ IsLiteral(r, 1)
             [] d = "lost call" -> number /\ op = "*" /\ With(0)
             [] d = "lost type" -> /\ number /\ lost
                                   /\ \/ op \in {"+", "-"} /\ With(0)
                                      \/ op = "*" /\ With(1)
                                      \/ op \in {"/", "DIV"} /\ ~isLiteral(l) /\ IsLiteral(r, 1)
             [] d = "byte sign" -> /\ "BYTE" \in types
                                   /\ \/ common \in RealTypes
                                      \/ types = {"BYTE"} /\ op \notin {"+", "-", "*", "=", "#"}
             [] d = "byte overflow" -> /\ common = "BYTE" /\ op \in {"+", "-", "*"}
                                       /\ \E m \in DOMAIN Memories : Leaves(l.mean.at[m].v, r.mean.at[m].v)
             [] d = "large literal" -> /\ common = "LONGREAL"
                                       /\ Inexact(l) \/ Inexact(r)
             [] d = "set width" -> op = "IN" /\ ~isLiteral(l) /\ l.type # "INTEGER"}

(* Constants are computed in 64 bits. *)
Overflow(type, const, v) == {d \in {"overflow"} : const /\ type \in Integers /\ Fit(v, "LONGINT") = Undef}

BinaryMean(op, l, r, typing) ==
    LET x == l.mean
        y == r.mean
        const == x.const /\ y.const
        type == OperandType(op, x.type, y.type)
        Given(n, m) == IF const THEN n.at[m].v
                       ELSE IF type \in Numeric /\ op # "IN" THEN Fit(Fit(n.at[m].v, n.type), type)
                       ELSE Fit(n.at[m].v, n.type)
        value(m) == Meaning(op, IF op = "IN" THEN "IN" ELSE type, Given(x, m), Given(y, m))
        skipped(m) == op \in {"&", "OR"} /\ Given(x, m) = (op = "OR")
        largest == IF type \in Integers THEN "LONGINT" ELSE IF type \in RealTypes THEN "LONGREAL" ELSE type
        result == IF typing.result = "BOOLEAN" THEN "BOOLEAN"
                  ELSE IF const /\ type \in Integers THEN SmallestInteger(value(1))
                  ELSE type
        at == [m \in DOMAIN Memories |->
                 IF skipped(m) THEN x.at[m]
                 ELSE [v |-> Fit(value(m), IF const /\ result # "BOOLEAN" THEN largest ELSE result),
                       calls |-> x.at[m].calls + y.at[m].calls]]
    IN  Mean(result, const, at, x.limits \cup y.limits \cup Departures(op, l, r, typing.common)
                                  \cup Overflow(result, const, at[1].v))

UnaryMean(op, n) ==
    LET x == n.mean
        typed == IF op = "~" THEN x.type = "BOOLEAN" ELSE x.type \in Numeric \cup {"SET"}
        value(v) == IF v = Undef \/ ~typed THEN Undef
                    ELSE IF op = "~" THEN ~v ELSE IF x.type = "SET" THEN Word \ v ELSE -v
        at == [m \in DOMAIN Memories |-> [v |-> LET v == value(x.at[m].v)
                                         IN  IF x.const \/ ~typed THEN v ELSE Fit(v, x.type),
                                   calls |-> x.at[m].calls]]
        type == IF x.const /\ x.type \in Integers THEN SmallestInteger(at[1].v)
                ELSE x.type
    IN  Mean(type, x.const, at, x.limits \cup (IF typed THEN {} ELSE {"unary type"})
                                  \cup Overflow(type, x.const, at[1].v))

-----------------------------------------------------------------------------
(* Actions: one for each call of the parser *)

Init == stack = <<>> /\ phase = "parsing" /\ size = 0 /\ stored = None

Top(n) == stack[Len(stack) + 1 - n]
Pop(n) == SubSeq(stack, 1, Len(stack) - n)
AreExpressions(n) == Len(stack) >= n /\ \A k \in 1 .. n : Top(k).kind # "range"

Push(n, node) == stack' = Append(Pop(n), node) /\ UNCHANGED <<phase, stored>>
Stop(why) == phase' = why /\ stack' = <<>> /\ UNCHANGED <<size, stored>>

Count == phase = "parsing" /\ size < MaxSize /\ size' = size + 1

(* Operands: literals and declared constants, variables, and functions that count their calls *)

onLiteral(type, value) ==
    /\ Count
    /\ size < 2 \/ (type \in DOMAIN SmallLiterals /\ value \in SmallLiterals[type])
    /\ Push(0, Literal(value, type, Constant(value, type)))

Stored(v, t) == IF v = Undef THEN Undef ELSE IF t \in Integers \cup {"BYTE"} THEN Wrap(v, Bits[t]) ELSE v

Reference(x, calls) ==
    LET t == VarType[x]
        code == Code(getLLVMType[t], [m \in DOMAIN Memories |-> [v |-> Stored(Memories[m][x], t), calls |-> calls]])
        mean == Mean(t, FALSE, [m \in DOMAIN Memories |-> [v |-> Memories[m][x], calls |-> calls]], {})
    IN  Node(t, code, mean)

onQualifiedExpression(x) == Count /\ (size < 2 \/ x \in Small) /\ Push(0, Reference(x, 0))
onCall(f) == Count /\ (size < 2 \/ f \in Small) /\ Push(0, Reference(f, 1))

onUnaryExpression(op) ==
    /\ Count
    /\ AreExpressions(1)
    /\ LET n == Top(1)
           mean == UnaryMean(op, n)
           folded == foldUnary(op, n, mean)
       IN  IF FoldUnaryError(op, n) THEN phase' = "rejected" /\ stack' = <<>> /\ UNCHANGED stored
           ELSE IF folded # {} THEN \E node \in folded : Push(1, node)
           ELSE Push(1, Node(n.type, UnaryCode(op, n.type, n), mean))

onBinaryExpression(op) ==
    /\ phase = "parsing"
    /\ AreExpressions(2)
    /\ LET l == Top(2)
           r == Top(1)
           typing == Typing(op, l.type, r.type)
           mean == BinaryMean(op, l, r, typing)
           folded == fold(op, l, r, typing.result, mean)
           Cast(n) == IF typing.common = None THEN n ELSE cast(n, typing.common)
       IN  IF typing.result = None \/ FoldError(op, l, r) THEN Stop("rejected")
           ELSE IF FoldCrash(op, l, r) THEN Stop("crashed")
           ELSE /\ IF folded # {} THEN \E node \in folded : Push(2, node)
                   ELSE Push(2, Node(typing.result, BinaryCode(op, Cast(l), Cast(r)), mean))
                /\ UNCHANGED size

(* lower .. upper, an element of a set *)
onRangeExpression ==
    /\ phase = "parsing"
    /\ AreExpressions(2)
    /\ LET l == Top(2)
           r == Top(1)
           lower == IF Size[l.type] < Size[r.type] THEN cast(l, r.type) ELSE l
           upper == IF Size[l.type] > Size[r.type] THEN cast(r, l.type) ELSE r
       IN  IF ~({l.type, r.type} \subseteq Integers \/ {l.type, r.type} = {"CHAR"}) THEN Stop("rejected")
           ELSE /\ Push(2, [kind |-> "range", lower |-> lower, upper |-> upper,
                            type |-> IF Size[l.type] < Size[r.type] THEN r.type ELSE l.type])
                /\ UNCHANGED size

(* The expressions of an element, the literals among them *)
Bounds(e) == IF e.kind = "range" THEN <<e.lower, e.upper>> ELSE <<e>>
LastLiteral(e) == LET literals == SelectSeq(Bounds(e), isLiteral)
                  IN  IF literals = <<>> THEN {} ELSE {literals[Len(literals)].val}
FirstLiteral(e) == IF isLiteral(Bounds(e)[1]) THEN {Bounds(e)[1].val} ELSE {}
IsConstant(e) == \A n \in DOMAIN Bounds(e) : isLiteral(Bounds(e)[n])

ElementError(e) ==
    \/ e.type \notin Integers
    \/ \E n \in DOMAIN Bounds(e) : isLiteral(Bounds(e)[n]) /\ Bounds(e)[n].val \notin Word
    \/ e.kind = "range" /\ IsConstant(e) /\ e.lower.val >= e.upper.val

(* A literal is not larger than the last literal before it. *)
OrderError(elements) ==
    \E i, j \in DOMAIN elements :
        /\ i < j
        /\ \A k \in i + 1 .. j - 1 : LastLiteral(elements[k]) = {}
        /\ \E last \in LastLiteral(elements[i]), value \in FirstLiteral(elements[j]) : value <= last

ElementBits(e) ==
    IF e.kind = "range" THEN RangeLiteral(e.lower.val, e.upper.val, Bits["SET"]) ELSE {e.val}

(* The bits of an element as instructions shift them, undefined if too far; v has the bounds. *)
Shifted(e, v) ==
    IF \E n \in DOMAIN v : v[n] = Undef THEN Undef
    ELSE IF e.kind = "range"
    THEN IF RangeShifts(v[1], v[2], Bits["SET"]) \subseteq Word THEN RangeExpression(v[1], v[2], Bits["SET"]) ELSE Undef
    ELSE IF v[1] \in Word THEN Shl({0}, v[1], Bits["SET"]) ELSE Undef

ElementMeaning(e, v) ==
    LET lower == v[1]
        upper == v[Len(v)]
    IN  IF ~({lower, upper} \subseteq Word) THEN Undef ELSE IF lower > upper THEN Undef ELSE lower .. upper

(* What f yields for each of the elements, united, unless one is undefined *)
United(elements, f(_)) ==
    LET parts == {f(elements[k]) : k \in DOMAIN elements}
    IN  IF Undef \in parts THEN Undef ELSE UNION parts

Calls(elements, f(_, _)) ==
    LET all == {p \in (DOMAIN elements) \X (1 .. 2) : p[2] \in DOMAIN Bounds(elements[p[1]])}
    IN  Cardinality({c \in all \X (1 .. MaxSize) : c[2] <= f(elements[c[1][1]], c[1][2])})

SetExpressionCode(elements) ==
    LET fits(n) == isLiteral(n) \/ Visited(n).ll = "i32"
        at(m) == LET value(e) == [n \in DOMAIN Bounds(e) |-> Visited(Bounds(e)[n]).at[m].v]
                     bits(e) == IF IsConstant(e) THEN ElementBits(e) ELSE Shifted(e, value(e))
                     calls(e, n) == Bounds(e)[n].code.at[m].calls
                 IN  [v |-> United(elements, bits), calls |-> Calls(elements, calls)]
    IN  IF \A k \in DOMAIN elements : \A n \in DOMAIN Bounds(elements[k]) : fits(Bounds(elements[k])[n])
        THEN Code("i32", [m \in DOMAIN Memories |-> at(m)])
        ELSE Invalid

SetMean(elements) ==
    LET at(m) == LET value(e) == [n \in DOMAIN Bounds(e) |-> Bounds(e)[n].mean.at[m].v]
                     set(e) == ElementMeaning(e, value(e))
                     calls(e, n) == Bounds(e)[n].mean.at[m].calls
                 IN  [v |-> United(elements, set), calls |-> Calls(elements, calls)]
        nodes == UNION {{Bounds(elements[k])[n] : n \in DOMAIN Bounds(elements[k])} : k \in DOMAIN elements}
    IN  Mean("SET", \A n \in nodes : n.mean.const, [m \in DOMAIN Memories |-> at(m)],
             (UNION {n.mean.limits : n \in nodes})
               \cup {d \in {"set width"} : \E n \in nodes : ~isLiteral(n) /\ n.type # "INTEGER"})

onSetExpression(n) ==
    /\ Count
    /\ Len(stack) >= n
    /\ LET elements == SubSeq(stack, Len(stack) - n + 1, Len(stack))
           mean == SetMean(elements)
           errors == (\E k \in DOMAIN elements : ElementError(elements[k])) \/ OrderError(elements)
           bits == UNION {ElementBits(elements[k]) : k \in DOMAIN elements}
       IN  IF errors THEN phase' = "rejected" /\ stack' = <<>> /\ UNCHANGED stored
           ELSE IF \A k \in DOMAIN elements : IsConstant(elements[k]) THEN Push(n, Literal(bits, "SET", mean))
           ELSE Push(n, Node("SET", SetExpressionCode(elements), mean))

(* Mutant: sizes are not compared. *)
isTypeIncludedAnySize(sub, super) ==
    \/ {sub, super} \subseteq Integers \cup {"BYTE"}
    \/ super \in RealTypes /\ sub \in Integers \cup RealTypes
(* Every integer type is included in BYTE, and BYTE in every integer type. *)
isTypeIncluded(sub, super) ==
    \/ {sub, super} \subseteq Integers /\ Size[super] >= Size[sub]
    \/ {sub, super} \subseteq RealTypes /\ Size[super] >= Size[sub]
    \/ super \in RealTypes /\ sub \in Integers
    \/ super = "BYTE" /\ sub \in Integers \cup {"BYTE"}
    \/ super \in Integers /\ sub = "BYTE"

isAssignmentCompatible(type, n) ==
    LET t == IF n.cast # None THEN n.cast ELSE n.type
    IN  type = t \/ ({type, t} \subseteq Numeric /\ isTypeIncluded(t, type))

onAssignment(type) ==
    /\ phase = "parsing"
    /\ Len(stack) = 1
    /\ AreExpressions(1)
    /\ IF isAssignmentCompatible(type, Top(1))
       THEN /\ phase' = "assigned"
            /\ stored' = [type |-> type, code |-> Operand(cast(Top(1), type))]
            /\ UNCHANGED <<stack, size>>
       ELSE Stop("rejected")

Next ==
    \/ \E type \in DOMAIN Literals : \E value \in Literals[type] : onLiteral(type, value)
    \/ \E x \in DOMAIN VarType \ Functions : onQualifiedExpression(x)
    \/ \E f \in Functions : onCall(f)
    \/ \E op \in {"-", "~"} : onUnaryExpression(op)
    \/ \E op \in Relations \cup {"IN", "+", "-", "*", "/", "DIV", "MOD", "&", "OR"} : onBinaryExpression(op)
    \/ onRangeExpression
    \/ \E n \in 0 .. 2 : onSetExpression(n)
    \/ \E type \in Targets : onAssignment(type)

Spec == Init /\ [][Next]_vars

-----------------------------------------------------------------------------
(* Properties *)

AllExpressions(P(_)) == \A k \in DOMAIN stack : stack[k].kind # "range" => P(stack[k])

(* The casts of the semantic analysis make the operands of every instruction *)
(* agree: the code of a node has the type of the node.                       *)
HasType(n) == n.mean.limits = {} => n.code.ll = getLLVMType[n.type]
CodeIsTyped == AllExpressions(HasType)

(* The value of a BYTE is an unsigned number, whatever the code takes it for. *)
Denoted(v, type) == IF type = "BYTE" /\ v # Undef THEN v % 2 ^ Bits["BYTE"] ELSE v

(* Code computes what the expression means, and calls the functions it names *)
(* as often: through folding, casts, instructions and jumps. If the meaning  *)
(* is a value of its type, the code does not trap.                           *)
Agrees(n) ==
    \A m \in DOMAIN Memories :
        LET v == Fit(n.mean.at[m].v, n.mean.type)
        IN  v # Undef => /\ Denoted(n.code.at[m].v, n.type) = v
                         /\ n.code.at[m].calls = n.mean.at[m].calls
IsMeant(n) == n.mean.limits = {} => Agrees(n)
GeneratedIsMeant == AllExpressions(IsMeant)

(* The type that an expression is given includes its type in the language,   *)
(* and is real only if that is: folding does not decide what is computed.    *)
IncludesType(n) ==
    n.mean.limits = {} => /\ Larger(n.type, n.mean.type) = n.type
                          /\ n.type \in RealTypes <=> n.mean.type \in RealTypes
TypesAreMeant == AllExpressions(IncludesType)

(* An assignment that is accepted stores what the expression means: only    *)
(* BYTE variables take values that do not fit.                              *)
AssignmentKeepsValue ==
    phase = "assigned" =>
        LET n == stack[1]
            large == stored.type = "LONGREAL" /\ isLiteral(n) /\ n.type \in Integers /\ Fit(n.val, "REAL") = Undef
        IN  n.mean.limits = {} /\ ~large =>
              \A m \in DOMAIN Memories :
                LET v == Fit(Fit(n.mean.at[m].v, n.mean.type), IF stored.type = "BYTE" THEN "BYTE" ELSE n.mean.type)
                    fits == stored.type \notin RealTypes \/ Fit(v, stored.type) # Undef
                IN  v # Undef /\ fits => Denoted(stored.code.at[m].v, stored.type) = v
=============================================================================
