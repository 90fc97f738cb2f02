--------------------------- MODULE ExpressionCode ---------------------------
(***************************************************************************)
(* Nodes of expressions, and the code LLVMIRBuilder generates from them:   *)
(* its LLVM type, and its value and the calls it makes in every memory.    *)
(***************************************************************************)
EXTENDS BasicTypes

CONSTANTS Memories,     \* a sequence of records from variables to values
          None          \* no cast, no type

-----------------------------------------------------------------------------
(* Nodes *)

Code(ll, at) == [ll |-> ll, at |-> at]
Invalid == Code("invalid", [m \in DOMAIN Memories |-> [v |-> Undef, calls |-> 0]])

IntegerLiteral(val, t) == Code(getLLVMType[t], [m \in DOMAIN Memories |-> [v |-> Wrap(val, Bits[t]), calls |-> 0]])
RealLiteral(val, t) == Code(getLLVMType[t], [m \in DOMAIN Memories |-> [v |-> Real(val, Bits[t]), calls |-> 0]])
LiteralCode(val, t) == IF t \in Integers THEN IntegerLiteral(val, t)
                       ELSE IF t \in RealTypes THEN RealLiteral(val, t)
                       ELSE Code(getLLVMType[t], [m \in DOMAIN Memories |-> [v |-> val, calls |-> 0]])

Node(type, code, mean) ==
    [kind |-> "expression", type |-> type, cast |-> None, val |-> None, code |-> code, mean |-> mean]
Literal(val, type, mean) ==
    [kind |-> "literal", type |-> type, cast |-> None, val |-> val, code |-> LiteralCode(val, type), mean |-> mean]
isLiteral(n) == n.kind = "literal"
IsLiteral(n, val) == isLiteral(n) /\ n.val = val

Mean(type, const, at, limits) == [type |-> type, const |-> const, at |-> at, limits |-> limits]
Constant(val, type) == Mean(type, TRUE, [m \in DOMAIN Memories |-> [v |-> val, calls |-> 0]], {})

-----------------------------------------------------------------------------
(* The code generator *)

(* An instruction on operands of the same type, one of lls. *)
Apply(lls, ll, f(_, _), x, y) ==
    IF x.ll # y.ll \/ x.ll \notin lls THEN Invalid
    ELSE Code(ll, [m \in DOMAIN Memories |->
            [v |-> IF x.at[m].v = Undef \/ y.at[m].v = Undef THEN Undef ELSE f(x.at[m].v, y.at[m].v),
             calls |-> x.at[m].calls + y.at[m].calls]])

Convert(v, source, target) ==
    IF v = Undef THEN Undef
    ELSE IF target \in RealTypes THEN Real(v, Bits[target])
    ELSE IF Size[target] <= Size[source] THEN Wrap(v, Bits[target])
    ELSE IF source = "BYTE" THEN v % 2 ^ Bits["BYTE"] ELSE v

CastCode(code, source, target) ==
    LET integral == Integers \cup {"BYTE"}
    IN  IF \/ target \in {None, source}
           \/ source \in integral /\ target \notin integral \cup RealTypes
           \/ source \in RealTypes /\ target \notin RealTypes
           \/ source \notin Numeric
           \/ code.ll = getLLVMType[target]
        THEN code
        ELSE IF code.ll # getLLVMType[source] THEN Invalid
        ELSE Code(getLLVMType[target], [m \in DOMAIN Memories |->
                    [code.at[m] EXCEPT !.v = Convert(@, source, target)]])

(* Literals are cast when they are visited, other nodes by their parent. *)
Operand(n) == CastCode(n.code, n.type, n.cast)
Visited(n) == IF isLiteral(n) THEN Operand(n) ELSE n.code

(* Mutant: both operands are evaluated. *)
BothOperands(op, x, y) ==
    Code("i1", [m \in DOMAIN Memories |->
        [v |-> Meaning(op, "BOOLEAN", x.at[m].v, y.at[m].v), calls |-> x.at[m].calls + y.at[m].calls]])
ShortCircuit(op, x, y) ==
    Code("i1", [m \in DOMAIN Memories |->
        LET a == x.at[m]  b == y.at[m]
        IN  IF a.v = Undef THEN a
            ELSE IF a.v = (op = "OR") THEN a
            ELSE [v |-> b.v, calls |-> a.calls + b.calls]])

(* Operations of sets as operations on their bits *)
SetOp(op, a, b) ==
    LET not(bits) == Word \ bits
    IN  CASE op = "+" -> a \cup b
          [] op = "-" -> a \cap not(b)
          [] op = "*" -> a \cap b
          [] op = "/" -> (a \ b) \cup (b \ a)
          [] op = "=" -> a = b
          [] op = "#" -> a # b
          [] op = "<=" -> a \cap not(b) = {}
          [] op = ">=" -> b \cap not(a) = {}
          [] op = "IN" -> IF a \in Word THEN Shl({0}, a, Bits["SET"]) \cap b # {} ELSE Undef

(* A trap ends the program: there is no value, as where the code defines none. *)
Trapped == Undef

(* An overflow is a trap, in the width of the operands. *)
createNumber(n, ll) == IF ll \in Floats THEN Real(n, Width[ll])
                       ELSE IF n \in Signed(Width[ll]) THEN n ELSE Trapped

NumericOp(op, ll, a, b) ==
    CASE op = "+" -> createNumber(a + b, ll)
      [] op = "-" -> createNumber(a - b, ll)
      [] op = "*" -> createNumber(a * b, ll)
      [] op = "/" -> Real(Quotient(a, b), Width[ll])
      [] op = "DIV" -> IF b > 0 THEN Wrap(createDiv(a, b), Width[ll]) ELSE Trapped
      [] op = "MOD" -> IF b > 0 THEN Wrap(createMod(a, b), Width[ll]) ELSE Trapped
      [] op \in Relations -> Compare(op, a, b)

(* Operands of any other type: the value is that of the left-hand side. *)
BinaryCode(op, l, r) ==
    LET types == {l.type, r.type}
        \* LLVM shifts a constant by a constant of any width.
        x == IF op = "IN" /\ isLiteral(l) THEN [l.code EXCEPT !.ll = "i32"] ELSE Operand(l)
        y == Operand(r)
        predicate == op \in Relations \cup {"IN"}
        floating == types \cap RealTypes # {}
        setOp(a, b) == SetOp(op, a, b)
        numericOp(a, b) == NumericOp(op, x.ll, a, b)
        compare(a, b) == Compare(op, a, b)
    IN  IF op \in {"&", "OR"} THEN ShortCircuit(op, x, y)
        ELSE IF "SET" \in types THEN Apply({"i32"}, IF predicate THEN "i1" ELSE "i32", setOp, x, y)
        ELSE IF types \subseteq Numeric
        THEN Apply(IF floating \/ op = "/" THEN Floats ELSE Ints, IF predicate THEN "i1" ELSE x.ll, numericOp, x, y)
        ELSE IF types = {"CHAR"} THEN Apply({"i8"}, "i1", compare, x, y)
        ELSE x

(* Subtracted from zero, which is a trap if it overflows, or all bits flipped, *)
(* which never overflows: one is -1 in one bit, and has no opposite.           *)
UnaryOp(op, type, ll, a) ==
    CASE type = "SET" -> Word \ a
      [] ll = "i1" -> IF op = "~" THEN ~a ELSE IF a THEN Trapped ELSE a
      [] type # "SET" /\ ll # "i1" -> createNumber(IF op = "~" THEN -a - 1 ELSE -a, ll)

UnaryCode(op, type, n) ==
    LET x == Operand(n)
        lls == IF type = "SET" THEN {"i32"} ELSE IF op = "-" /\ type \in RealTypes THEN Floats ELSE Ints \cup {"i1"}
        value(v) == IF v = Undef THEN Undef ELSE UnaryOp(op, type, x.ll, v)
    IN  IF x.ll \in lls THEN [x EXCEPT !.at = [m \in DOMAIN Memories |-> [x.at[m] EXCEPT !.v = value(@)]]]
        ELSE Invalid
=============================================================================
