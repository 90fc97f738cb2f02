----------------------------- MODULE BasicTypes -----------------------------
(***************************************************************************)
(* The basic types, and what operators mean in the language.               *)
(***************************************************************************)
EXTENDS Arithmetic

CONSTANTS Bits,         \* widths of the types; significant bits of real numbers
          Undef         \* no value: the code does not define it, or stops

-----------------------------------------------------------------------------
(* Types and values *)

Integers == {"SHORTINT", "INTEGER", "LONGINT"}
RealTypes == {"REAL", "LONGREAL"}
Numeric == Integers \cup RealTypes \cup {"BYTE"}
Types == Numeric \cup {"BOOLEAN", "CHAR", "SET"}

ASSUME BitsAssumption ==
    /\ Bits \in [Types -> Nat \ {0}]
    /\ Bits["BYTE"] < Bits["SHORTINT"]
    /\ Bits["SHORTINT"] < Bits["INTEGER"] /\ Bits["INTEGER"] < Bits["LONGINT"]
    /\ Bits["REAL"] < Bits["LONGREAL"] /\ Bits["SET"] = Bits["INTEGER"]

Size == [BOOLEAN |-> 1, BYTE |-> 1, CHAR |-> 1, SHORTINT |-> 2, INTEGER |-> 4, LONGINT |-> 8,
         REAL |-> 4, LONGREAL |-> 8, SET |-> 4]

getLLVMType == [BOOLEAN |-> "i1", BYTE |-> "i8", CHAR |-> "i8", SHORTINT |-> "i16", INTEGER |-> "i32",
                LONGINT |-> "i64", REAL |-> "float", LONGREAL |-> "double", SET |-> "i32"]
Width == [i8 |-> Bits["BYTE"], i16 |-> Bits["SHORTINT"], i32 |-> Bits["INTEGER"], i64 |-> Bits["LONGINT"],
          float |-> Bits["REAL"], double |-> Bits["LONGREAL"]]
Floats == {"float", "double"}
Ints == {"i8", "i16", "i32", "i64"}
Word == Ones(Bits["SET"])

ASSUME UndefAssumption == Undef \notin Int /\ Undef \notin BOOLEAN /\ \A set \in SUBSET Word : set # Undef

(* Numbers with a fraction, or with more significant bits than there are, are left undefined. *)
Real(n, bits) == IF n # Undef /\ \E e \in 0 .. 2 * Bits["LONGINT"] :
                                    Abs(n) % 2 ^ e = 0 /\ Abs(n) \div 2 ^ e < 2 ^ bits
                 THEN n ELSE Undef
Quotient(a, b) == IF b # 0 /\ SRem(a, b) = 0 THEN SDiv(a, b) ELSE Undef

-----------------------------------------------------------------------------
(* What expressions mean: exact values, in the smallest type that includes *)
(* the operands.  A value that does not fit is left undefined.             *)

Inclusion == <<"BYTE", "SHORTINT", "INTEGER", "LONGINT", "REAL", "LONGREAL">>
Rank(t) == CHOOSE k \in DOMAIN Inclusion : Inclusion[k] = t
Larger(s, t) == IF s \notin Numeric \/ t \notin Numeric THEN s
                ELSE IF Rank(s) < Rank(t) THEN t ELSE s

Values(t) == CASE t \in Integers -> Signed(Bits[t])
              [] t \in {"BYTE", "CHAR"} -> 0 .. 2 ^ Bits[t] - 1
              [] t = "BOOLEAN" -> BOOLEAN
              [] t = "SET" -> SUBSET Word

Fit(v, t) == IF v = Undef THEN Undef
             ELSE IF t \in RealTypes THEN Real(v, Bits[t])
             ELSE IF v \in Values(t) THEN v ELSE Undef

SmallestInteger(v) == Inclusion[CHOOSE k \in 2 .. 4 : /\ v \in Values(Inclusion[k]) \/ k = 4
                                                      /\ \A j \in 2 .. k - 1 : v \notin Values(Inclusion[j])]

Relations == {"=", "#", "<", ">", "<=", ">="}
Compare(op, a, b) == CASE op = "=" -> a = b
                       [] op = "#" -> a # b
                       [] op = "<" -> a < b
                       [] op = ">" -> a > b
                       [] op = "<=" -> a <= b
                       [] op = ">=" -> a >= b

SetMeaning(op, a, b) ==
    CASE op = "+" -> a \cup b
      [] op = "-" -> a \ b
      [] op = "*" -> a \cap b
      [] op = "/" -> (a \ b) \cup (b \ a)
      [] op = "=" -> a = b
      [] op = "#" -> a # b
      [] op = "<=" -> a \subseteq b
      [] op = ">=" -> b \subseteq a

Meaning(op, t, a, b) ==
    IF a = Undef \/ b = Undef THEN Undef
    ELSE IF t = "SET" THEN SetMeaning(op, a, b)
    ELSE CASE op = "IN" -> IF a \in Word THEN a \in b ELSE Undef
           [] op = "&" -> a /\ b
           [] op = "OR" -> a \/ b
           [] op \in Relations /\ t = "BOOLEAN" -> (op = "=") = (a = b)
           [] op \in Relations /\ t # "BOOLEAN" -> Compare(op, a, b)
           [] op = "+" -> a + b
           [] op = "-" -> a - b
           [] op = "*" -> a * b
           [] op = "/" -> Quotient(a, b)
           [] op = "DIV" -> IF b > 0 THEN a \div b ELSE Undef
           [] op = "MOD" -> IF b > 0 THEN a % b ELSE Undef
=============================================================================
