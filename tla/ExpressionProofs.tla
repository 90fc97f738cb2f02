-------------------------- MODULE ExpressionProofs --------------------------
(***************************************************************************)
(* Proofs about Expressions: for any widths of the types, any variables,   *)
(* literals and memories, the types of code and nodes are right, and code  *)
(* computes what the expression means.  First the arithmetic, then types,  *)
(* then values.                                                            *)
(***************************************************************************)
EXTENDS Expressions, SequenceTheorems, FiniteSetTheorems, FunctionTheorems, TLAPS

-----------------------------------------------------------------------------
(* Constants and instructions compute the same quotients, remainders and   *)
(* ranges, the ones of the language, for every width.                      *)


(* Quotient and remainder determine each other for a positive divisor. *)
LEMMA QuotientIsUnique ==
    ASSUME NEW x \in Int, NEW y \in Int, y > 0, NEW q \in Int, NEW r \in Int,
           x = y * q + r, 0 <= r, r < y
    PROVE  q = x \div y /\ r = x % y
  <1>1. x = y * (x \div y) + (x % y) /\ x \div y \in Int /\ x % y \in Int
    OBVIOUS
  <1>2. 0 <= x % y /\ x % y < y
    OBVIOUS
  <1>3. y * (q - (x \div y)) = (x % y) - r
    BY <1>1
  <1>4. q - (x \div y) < 1
    BY <1>1, <1>2, <1>3
  <1>5. q - (x \div y) > -1
    BY <1>1, <1>2, <1>3
  <1>6. q = x \div y
    BY <1>1, <1>4, <1>5
  <1>. QED
    BY <1>1, <1>6

(* Division rounded to zero leaves a remainder with the sign of the dividend. *)
LEMMA Truncation ==
    ASSUME NEW x \in Int, NEW y \in Int, y > 0
    PROVE  /\ SDiv(x, y) \in Int /\ SRem(x, y) \in Int
           /\ x = y * SDiv(x, y) + SRem(x, y)
           /\ x >= 0 => 0 <= SRem(x, y) /\ SRem(x, y) < y
           /\ x < 0 => -y < SRem(x, y) /\ SRem(x, y) <= 0
  <1>1. CASE x >= 0
    <2>1. SDiv(x, y) = x \div y
      BY <1>1 DEF SDiv, Abs
    <2>2. x = y * (x \div y) + (x % y) /\ x \div y \in Int /\ 0 <= x % y /\ x % y < y
      OBVIOUS
    <2>3. SRem(x, y) = x % y
      BY <2>1, <2>2 DEF SRem
    <2>. QED
      BY <1>1, <2>1, <2>2, <2>3
  <1>2. CASE x < 0
    <2>1. SDiv(x, y) = -((-x) \div y)
      BY <1>2 DEF SDiv, Abs
    <2>2. /\ -x = y * ((-x) \div y) + ((-x) % y)
          /\ (-x) \div y \in Int /\ 0 <= (-x) % y /\ (-x) % y < y
      <3>. DEFINE n == -x
      <3>1. n \in Int
        OBVIOUS
      <3>2. n = y * (n \div y) + (n % y) /\ n \div y \in Int /\ 0 <= n % y /\ n % y < y
        BY <3>1
      <3>. QED
        BY <3>2
    <2>3. SRem(x, y) = -((-x) % y)
      BY <2>1, <2>2 DEF SRem
    <2>. QED
      BY <1>2, <2>1, <2>2, <2>3
  <1>. QED
    BY <1>1, <1>2

(* Sema::floor_div and Sema::euclidean_mod, which fold DIV and MOD of      *)
(* constants, are the quotient and the remainder of the language.          *)
THEOREM ConstantDivision ==
    ASSUME NEW x \in Int, NEW y \in Int, y > 0
    PROVE  floor_div(x, y) = x \div y /\ euclidean_mod(x, y) = x % y
  <1>. DEFINE d == SDiv(x, y)
              r == SRem(x, y)
  <1>1. /\ d \in Int /\ r \in Int /\ x = y * d + r
        /\ x >= 0 => 0 <= r /\ r < y
        /\ x < 0 => -y < r /\ r <= 0
    BY Truncation
  <1>. HIDE DEF d, r
  <1>2. CASE r >= 0
    <2>1. d = x \div y /\ r = x % y
      BY <1>1, <1>2, QuotientIsUnique
    <2>2. floor_div(x, y) = d /\ euclidean_mod(x, y) = r
      BY <1>1, <1>2 DEF floor_div, euclidean_mod, d, r
    <2>. QED
      BY <2>1, <2>2
  <1>3. CASE r < 0
    <2>1. x = y * (d - 1) + (r + y)
      BY <1>1
    <2>2. 0 <= r + y /\ r + y < y
      BY <1>1, <1>3
    <2>3. d - 1 = x \div y /\ r + y = x % y
      BY <1>1, <2>1, <2>2, QuotientIsUnique
    <2>4. floor_div(x, y) = d - 1 /\ euclidean_mod(x, y) = r + y
      BY <1>1, <1>3 DEF floor_div, euclidean_mod, d, r
    <2>. QED
      BY <2>3, <2>4
  <1>. QED
    BY <1>1, <1>2, <1>3

(* The instructions of createDiv and createMod compute what the folding of *)
(* constants computes, so folding never changes a quotient or a remainder. *)
THEOREM CodeDivision ==
    ASSUME NEW x \in Int, NEW y \in Int, y > 0
    PROVE  createDiv(x, y) = floor_div(x, y) /\ createMod(x, y) = euclidean_mod(x, y)
  <1>1. SDiv(x, y) \in Int /\ SRem(x, y) \in Int /\ x = y * SDiv(x, y) + SRem(x, y)
    BY Truncation
  <1>2. x - SDiv(x, y) * y = SRem(x, y)
    BY <1>1
  <1>3. createDiv(x, y) = floor_div(x, y)
    BY <1>1, <1>2 DEF createDiv, floor_div
  <1>4. createMod(x, y) = euclidean_mod(x, y)
    BY <1>1 DEF createMod, euclidean_mod
  <1>. QED
    BY <1>3, <1>4

(* Shifts of an interval of bits move its bounds. *)
LEMMA LeftShift ==
    ASSUME NEW w \in Nat, NEW n \in Nat, NEW a \in Nat, NEW b \in Int
    PROVE  Shl(a .. b, n, w) = {i \in a + n .. b + n : i < w}
  <1>1. ASSUME NEW i \in {j \in a + n .. b + n : j < w} PROVE i \in Shl(a .. b, n, w)
    <2>1. i - n \in a .. b /\ i = (i - n) + n /\ i \in Ones(w)
      BY DEF Ones
    <2>. QED
      BY <2>1 DEF Shl
  <1>2. ASSUME NEW i \in Shl(a .. b, n, w) PROVE i \in a + n .. b + n /\ i < w
    <2>1. PICK j \in a .. b : i = j + n
      BY DEF Shl
    <2>2. i < w
      BY DEF Shl, Ones
    <2>. QED
      BY <2>1, <2>2
  <1>. QED
    BY <1>1, <1>2

\* Shifting the bits a to b to the right by n moves them down by n and drops
\* those that come to lie below bit 0.
LEMMA RightShift ==
    ASSUME NEW n \in Nat, NEW a \in Nat, NEW b \in Int
    PROVE  LShr(a .. b, n) = {i \in a - n .. b - n : i >= 0}
  <1>1. ASSUME NEW i \in {j \in a - n .. b - n : j >= 0} PROVE i \in LShr(a .. b, n)
    <2>1. i + n \in a .. b /\ i = (i + n) - n /\ i >= 0
      OBVIOUS
    <2>. QED
      BY <2>1 DEF LShr
  <1>2. ASSUME NEW i \in LShr(a .. b, n) PROVE i \in a - n .. b - n /\ i >= 0
    <2>1. PICK j \in a .. b : i = j - n
      BY DEF LShr
    <2>2. i >= 0
      BY DEF LShr
    <2>. QED
      BY <2>1, <2>2
  <1>. QED
    BY <1>1, <1>2

(* A range of constants, folded by Sema::onSetExpression, holds the        *)
(* elements from its lower to its upper bound.                             *)
THEOREM ConstantRange ==
    ASSUME NEW w \in Nat, NEW lower \in 0 .. w - 1, NEW upper \in lower .. w - 1
    PROVE  RangeLiteral(lower, upper, w) = lower .. upper
  <1>. DEFINE left == w - 1 - upper + lower
              right == w - 1 - upper
  <1>1. LShr(Ones(w), lower) = 0 .. w - 1 - lower
    <2>1. LShr(0 .. w - 1, lower) = {i \in 0 - lower .. w - 1 - lower : i >= 0}
      BY RightShift
    <2>2. {i \in 0 - lower .. w - 1 - lower : i >= 0} = 0 .. w - 1 - lower
      OBVIOUS
    <2>. QED
      BY <2>1, <2>2 DEF Ones
  <1>2. Shl(0 .. w - 1 - lower, left, w) = left .. w - 1
    <2>1. Shl(0 .. w - 1 - lower, left, w) = {i \in 0 + left .. w - 1 - lower + left : i < w}
      BY LeftShift
    <2>2. {i \in 0 + left .. w - 1 - lower + left : i < w} = left .. w - 1
      OBVIOUS
    <2>. QED
      BY <2>1, <2>2
  <1>3. LShr(left .. w - 1, right) = lower .. upper
    <2>1. LShr(left .. w - 1, right) = {i \in left - right .. w - 1 - right : i >= 0}
      BY RightShift
    <2>2. {i \in left - right .. w - 1 - right : i >= 0} = lower .. upper
      OBVIOUS
    <2>. QED
      BY <2>1, <2>2
  <1>. QED
    BY <1>1, <1>2, <1>3 DEF RangeLiteral

(* The shifts generated for a range are in bounds, and they leave the same *)
(* elements as a range of constants, if its bounds are in order.           *)
THEOREM CodeRange ==
    ASSUME NEW w \in Nat, NEW lower \in 0 .. w - 1, NEW upper \in lower .. w - 1
    PROVE  /\ RangeShifts(lower, upper, w) \subseteq 0 .. w - 1
           /\ RangeExpression(lower, upper, w) = RangeLiteral(lower, upper, w)
  <1>. DEFINE right == w - 1 - upper + lower
  <1>1. RangeShifts(lower, upper, w) \subseteq 0 .. w - 1
    BY DEF RangeShifts
  <1>2. Shl(Ones(w), lower, w) = lower .. w - 1
    <2>1. Shl(0 .. w - 1, lower, w) = {i \in 0 + lower .. w - 1 + lower : i < w}
      BY LeftShift
    <2>2. {i \in 0 + lower .. w - 1 + lower : i < w} = lower .. w - 1
      OBVIOUS
    <2>. QED
      BY <2>1, <2>2 DEF Ones
  <1>3. LShr(lower .. w - 1, right) = 0 .. upper - lower
    <2>1. LShr(lower .. w - 1, right) = {i \in lower - right .. w - 1 - right : i >= 0}
      BY RightShift
    <2>2. {i \in lower - right .. w - 1 - right : i >= 0} = 0 .. upper - lower
      OBVIOUS
    <2>. QED
      BY <2>1, <2>2
  <1>4. Shl(0 .. upper - lower, lower, w) = lower .. upper
    <2>1. Shl(0 .. upper - lower, lower, w) = {i \in 0 + lower .. upper - lower + lower : i < w}
      BY LeftShift
    <2>2. {i \in 0 + lower .. upper - lower + lower : i < w} = lower .. upper
      OBVIOUS
    <2>. QED
      BY <2>1, <2>2
  <1>5. RangeExpression(lower, upper, w) = lower .. upper
    BY <1>2, <1>3, <1>4 DEF RangeExpression
  <1>. QED
    BY <1>1, <1>5, ConstantRange

-----------------------------------------------------------------------------
(* The inductive invariant *)

(* A type that the compiler gives to what has another type in the language. *)
Includes(t, u) ==
    t = u \/ ({t, u} \subseteq Numeric /\ Rank(u) <= Rank(t) /\ (t \in RealTypes <=> u \in RealTypes))

(* An expression as the parser holds it, apart from its type. *)
IsNode(n) ==
    /\ n = [kind |-> n.kind, type |-> n.type, cast |-> n.cast, val |-> n.val, code |-> n.code, mean |-> n.mean]
    /\ n.code = [ll |-> n.code.ll, at |-> n.code.at]
    /\ n.kind \in {"expression", "literal"}
    /\ n.type \in IF isLiteral(n) THEN Types \ {"BYTE"} ELSE Types

(* The value of an integer literal is in the range of its type, and is what  *)
(* the expression means; literals and constants are the same.                *)
Folded(n) ==
    /\ isLiteral(n) <=> n.mean.const
    /\ isLiteral(n) /\ n.type \in Integers =>
         /\ n.mean.type \in Integers
         /\ n.val \in Values(n.type)
         /\ \A m \in DOMAIN Memories : n.mean.at[m].v = n.val

IsTyped(n) ==
    /\ IsNode(n)
    /\ n.mean.limits = {} => /\ n.code.ll = getLLVMType[n.type]
                             /\ Includes(n.type, n.mean.type)
                             /\ Folded(n)

(* Only the bounds of a range have casts to another type. *)
IsExpression(n) ==
    /\ IsTyped(n)
    /\ isLiteral(n) => n.cast = None
    /\ n.mean.limits = {} => n.cast \in {None, n.type}

IsElement(e) == IF e.kind = "range" THEN IsTyped(e.lower) /\ IsTyped(e.upper) ELSE IsExpression(e)

IInv ==
    /\ stack \in Seq({stack[k] : k \in DOMAIN stack})
    /\ \A k \in DOMAIN stack : IsElement(stack[k])

-----------------------------------------------------------------------------
(* Powers of two, as numbers of subsets *)

(* An interval of n numbers has 2^n subsets. *)
LEMMA SubsetsOfInterval ==
    ASSUME NEW n \in Nat
    PROVE  /\ IsFiniteSet(SUBSET (1 .. n))
           /\ Cardinality(SUBSET (1 .. n)) = 2 ^ n
  <1>1. IsFiniteSet(1 .. n) /\ Cardinality(1 .. n) = n
    BY FS_Interval
  <1>. QED  BY <1>1, FS_SUBSET

(* Powers of two are positive. *)
LEMMA PowerIsPositive ==
    ASSUME NEW n \in Nat
    PROVE  2 ^ n \in Nat \ {0}
  <1>1. IsFiniteSet(SUBSET (1 .. n)) /\ Cardinality(SUBSET (1 .. n)) = 2 ^ n
    BY SubsetsOfInterval
  <1>2. Cardinality(SUBSET (1 .. n)) \in Nat
    BY <1>1, FS_CardinalityType
  <1>3. {} \in SUBSET (1 .. n)
    OBVIOUS
  <1>4. Cardinality(SUBSET (1 .. n)) # 0
    BY <1>1, <1>3, FS_EmptySet
  <1>. QED  BY <1>1, <1>2, <1>4

(* They grow with the exponent. *)
LEMMA PowerIsMonotone ==
    ASSUME NEW m \in Nat, NEW n \in Nat, m <= n
    PROVE  2 ^ m <= 2 ^ n
  <1>1. /\ IsFiniteSet(SUBSET (1 .. m)) /\ Cardinality(SUBSET (1 .. m)) = 2 ^ m
        /\ IsFiniteSet(SUBSET (1 .. n)) /\ Cardinality(SUBSET (1 .. n)) = 2 ^ n
    BY SubsetsOfInterval
  <1>2. SUBSET (1 .. m) \subseteq SUBSET (1 .. n)
    OBVIOUS
  <1>3. Cardinality(SUBSET (1 .. m)) <= Cardinality(SUBSET (1 .. n))
    BY <1>1, <1>2, FS_Subset
  <1>. QED  BY <1>1, <1>3

(* The subsets of 1 .. n + 1 are those of 1 .. n, without and with n + 1. *)
LEMMA PowerDoubles ==
    ASSUME NEW n \in Nat
    PROVE  2 ^ (n + 1) = 2 * 2 ^ n
  <1>. DEFINE A == SUBSET (1 .. n)
              f == [s \in A |-> s \cup {n + 1}]
              B == {f[s] : s \in A}
              C == SUBSET (1 .. n + 1)
  <1>1. /\ IsFiniteSet(A) /\ Cardinality(A) = 2 ^ n
        /\ IsFiniteSet(C) /\ Cardinality(C) = 2 ^ (n + 1)
    BY SubsetsOfInterval, n + 1 \in Nat
  <1>2. C = A \cup B
    <2>1. ASSUME NEW s \in C PROVE s \in A \cup B
      <3>1. CASE n + 1 \in s
        <4>1. s \ {n + 1} \in A
          BY <2>1
        <4>2. s = f[s \ {n + 1}]
          BY <3>1, <4>1
        <4>. QED  BY <4>1, <4>2
      <3>2. CASE n + 1 \notin s
        <4>1. s \in A
          BY <2>1, <3>2
        <4>. QED  BY <4>1
      <3>. QED  BY <3>1, <3>2
    <2>2. ASSUME NEW s \in A PROVE s \in C /\ f[s] \in C
      <3>1. s \subseteq 1 .. n + 1 /\ s \cup {n + 1} \subseteq 1 .. n + 1
        BY <2>2
      <3>. QED  BY <3>1
    <2>3. A \cup B \subseteq C
      <3>. HIDE DEF A, C, f
      <3>. QED  BY <2>2
    <2>4. C \subseteq A \cup B
      BY <2>1
    <2>. HIDE DEF A, B, C
    <2>. QED  BY <2>3, <2>4
  <1>3. A \cap B = {}
    <2>1. ASSUME NEW s \in A PROVE f[s] \notin A
      BY <2>1
    <2>. QED  BY <2>1
  <1>4. f \in Bijection(A, B)
    <2>1. ASSUME NEW s \in A, NEW t \in A, f[s] = f[t] PROVE s = t
      <3>1. n + 1 \notin s /\ n + 1 \notin t
        OBVIOUS
      <3>. QED  BY <2>1, <3>1
    <2>2. f \in [A -> B]
      OBVIOUS
    <2>. QED  BY <2>1, <2>2, Fun_IsBij
  <1>5. IsFiniteSet(B) /\ Cardinality(B) = 2 ^ n
    <2>1. ExistsBijection(A, B)
      BY <1>4, Fun_ExistsBij
    <2>. HIDE DEF A, B, f
    <2>. QED  BY <1>1, <2>1, FS_Bijection
  <1>6. Cardinality(A \cap B) = 0
    BY <1>3, FS_EmptySet
  <1>7. Cardinality(C) = Cardinality(A) + Cardinality(B) - Cardinality(A \cap B)
    BY <1>1, <1>2, <1>5, FS_Union
  <1>8. 2 ^ n \in Nat
    BY PowerIsPositive
  <1>. HIDE DEF A, B, C, f
  <1>. QED  BY <1>1, <1>5, <1>6, <1>7, <1>8

-----------------------------------------------------------------------------
(* Integers of fixed width *)

(* The range of a width and its modulus *)
LEMMA SignedRange ==
    ASSUME NEW w \in Nat \ {0}
    PROVE  /\ 2 ^ (w - 1) \in Nat \ {0}
           /\ 2 ^ w = 2 * 2 ^ (w - 1)
           /\ Signed(w) = -(2 ^ (w - 1)) .. 2 ^ (w - 1) - 1
  <1>1. w - 1 \in Nat /\ (w - 1) + 1 = w
    OBVIOUS
  <1>. DEFINE k == w - 1
  <1>2. 2 ^ k \in Nat \ {0}
    BY <1>1, PowerIsPositive
  <1>3. 2 ^ (k + 1) = 2 * 2 ^ k
    BY <1>1, PowerDoubles
  <1>4. k + 1 = w
    BY <1>1
  <1>. QED  BY <1>2, <1>3, <1>4 DEF Signed

(* A number that fits is not changed, and every number is wrapped to one     *)
(* that does.                                                                *)
LEMMA WrapFits ==
    ASSUME NEW w \in Nat \ {0}, NEW n \in Int
    PROVE  /\ Wrap(n, w) \in Signed(w)
           /\ n \in Signed(w) => Wrap(n, w) = n
  <1>. DEFINE H == 2 ^ (w - 1)
              M == 2 ^ w
  <1>1. H \in Nat \ {0} /\ M = 2 * H /\ Signed(w) = -H .. H - 1
    BY SignedRange
  <1>2. Wrap(n, w) = ((n + H) % M) - H
    BY DEF Wrap
  <1>. HIDE DEF H, M
  <1>3. n + H \in Int /\ M \in Nat \ {0} /\ M > 0
    BY <1>1
  <1>4. (n + H) % M \in 0 .. M - 1
    BY <1>3
  <1>5. Wrap(n, w) \in Signed(w)
    BY <1>1, <1>2, <1>4
  <1>6. ASSUME n \in Signed(w) PROVE Wrap(n, w) = n
    <2>1. 0 <= n + H /\ n + H < M
      BY <1>1, <1>6
    <2>2. n + H = M * 0 + (n + H)
      BY <1>3
    <2>3. n + H = (n + H) % M
      BY <1>3, <2>1, <2>2, QuotientIsUnique
    <2>. QED  BY <1>1, <1>2, <2>3
  <1>. QED  BY <1>5, <1>6

(* A wider integer type has all values of a narrower one. *)
LEMMA SignedIsMonotone ==
    ASSUME NEW v \in Nat \ {0}, NEW w \in Nat \ {0}, v <= w
    PROVE  Signed(v) \subseteq Signed(w)
  <1>1. v - 1 \in Nat /\ w - 1 \in Nat /\ v - 1 <= w - 1
    OBVIOUS
  <1>2. 2 ^ (v - 1) <= 2 ^ (w - 1)
    BY <1>1, PowerIsMonotone
  <1>. QED  BY <1>2, SignedRange

-----------------------------------------------------------------------------
(* Types *)

(* The widths of types, positive and in this order *)
LEMMA Widths ==
    /\ \A t \in Types : Bits[t] \in Nat \ {0}
    /\ Bits["SHORTINT"] \in Nat \ {0} /\ Bits["INTEGER"] \in Nat \ {0} /\ Bits["LONGINT"] \in Nat \ {0}
    /\ Bits["SHORTINT"] < Bits["INTEGER"] /\ Bits["INTEGER"] < Bits["LONGINT"]
  <1>1. {"SHORTINT", "INTEGER", "LONGINT"} \subseteq Types
    BY DEF Types, Numeric, Integers
  <1>. QED  BY <1>1, BitsAssumption

(* The place of a type among those that include each other *)
LEMMA Ranks ==
    /\ Rank("BYTE") = 1 /\ Rank("SHORTINT") = 2 /\ Rank("INTEGER") = 3
    /\ Rank("LONGINT") = 4 /\ Rank("REAL") = 5 /\ Rank("LONGREAL") = 6
  <1>1. DOMAIN Inclusion = 1 .. 6
    BY DEF Inclusion
  <1>2. /\ Inclusion[1] = "BYTE" /\ Inclusion[2] = "SHORTINT" /\ Inclusion[3] = "INTEGER"
        /\ Inclusion[4] = "LONGINT" /\ Inclusion[5] = "REAL" /\ Inclusion[6] = "LONGREAL"
    BY DEF Inclusion
  <1>3. \A k \in DOMAIN Inclusion : k = 1 \/ k = 2 \/ k = 3 \/ k = 4 \/ k = 5 \/ k = 6
    BY <1>1
  <1>. QED  BY <1>1, <1>2, <1>3 DEF Rank

(* What the range of a wider type has *)
LEMMA IntegerValues ==
    /\ \A t \in Integers : Values(t) = Signed(Bits[t]) /\ Values(t) \subseteq Int
    /\ Values("SHORTINT") \subseteq Values("INTEGER")
    /\ Values("INTEGER") \subseteq Values("LONGINT")
  <1>1. \A t \in Integers : Values(t) = Signed(Bits[t])
    BY DEF Values, Integers
  <1>2. \A t \in Integers : Signed(Bits[t]) \subseteq Int
    <2>. SUFFICES ASSUME NEW t \in Integers PROVE Signed(Bits[t]) \subseteq Int
      OBVIOUS
    <2>1. Bits[t] \in Nat \ {0}
      BY Widths DEF Types, Numeric
    <2>. QED  BY <2>1, SignedRange
  <1>3. Signed(Bits["SHORTINT"]) \subseteq Signed(Bits["INTEGER"])
    BY Widths, SignedIsMonotone
  <1>4. Signed(Bits["INTEGER"]) \subseteq Signed(Bits["LONGINT"])
    BY Widths, SignedIsMonotone
  <1>. QED  BY <1>1, <1>2, <1>3, <1>4 DEF Integers

(* The type that Sema gives a folded integer is that of its meaning. *)
LEMMA SmallestIsIntType ==
    ASSUME NEW v
    PROVE  SmallestInteger(v) = intType(v) /\ intType(v) \in Integers
  <1>. DEFINE P(k) == /\ v \in Values(Inclusion[k]) \/ k = 4
                      /\ \A j \in 2 .. k - 1 : v \notin Values(Inclusion[j])
  <1>1. Inclusion[2] = "SHORTINT" /\ Inclusion[3] = "INTEGER" /\ Inclusion[4] = "LONGINT"
    BY DEF Inclusion
  <1>2. 2 .. 4 = {2, 3, 4} /\ 2 .. 2 - 1 = {} /\ 2 .. 3 - 1 = {2} /\ 2 .. 4 - 1 = {2, 3}
    OBVIOUS
  <1>3. P(2) <=> v \in Values("SHORTINT")
    BY <1>1, <1>2
  <1>4. P(3) <=> v \in Values("INTEGER") /\ v \notin Values("SHORTINT")
    BY <1>1, <1>2
  <1>5. P(4) <=> v \notin Values("INTEGER") /\ v \notin Values("SHORTINT")
    BY <1>1, <1>2
  <1>6. SmallestInteger(v) = Inclusion[CHOOSE k \in 2 .. 4 : P(k)]
    BY DEF SmallestInteger
  <1>7. intType(v) = IF v \in Values("SHORTINT") THEN "SHORTINT"
                     ELSE IF v \notin Values("INTEGER") THEN "LONGINT" ELSE "INTEGER"
    BY IntegerValues DEF intType, Integers
  <1>. HIDE DEF P
  <1>8. CASE v \in Values("SHORTINT")
    <2>1. P(2) /\ ~P(3) /\ ~P(4)
      BY <1>3, <1>4, <1>5, <1>8
    <2>2. (CHOOSE k \in 2 .. 4 : P(k)) = 2
      BY <1>2, <2>1
    <2>. QED  BY <1>1, <1>6, <1>7, <1>8, <2>2 DEF Integers
  <1>9. CASE v \notin Values("SHORTINT") /\ v \in Values("INTEGER")
    <2>1. ~P(2) /\ P(3) /\ ~P(4)
      BY <1>3, <1>4, <1>5, <1>9
    <2>2. (CHOOSE k \in 2 .. 4 : P(k)) = 3
      BY <1>2, <2>1
    <2>. QED  BY <1>1, <1>6, <1>7, <1>9, <2>2 DEF Integers
  <1>10. CASE v \notin Values("SHORTINT") /\ v \notin Values("INTEGER")
    <2>1. ~P(2) /\ ~P(3) /\ P(4)
      BY <1>3, <1>4, <1>5, <1>10
    <2>2. (CHOOSE k \in 2 .. 4 : P(k)) = 4
      BY <1>2, <2>1
    <2>. QED  BY <1>1, <1>6, <1>7, <1>10, <2>2 DEF Integers
  <1>. QED  BY <1>8, <1>9, <1>10

(* It has the value, and every other type that has it includes it. *)
LEMMA SmallestIsIncluded ==
    ASSUME NEW t \in Integers, NEW v \in Values(t)
    PROVE  v \in Values(intType(v)) /\ Includes(t, intType(v))
  <1>1. /\ v \in Values("SHORTINT") => intType(v) = "SHORTINT"
        /\ v \notin Values("SHORTINT") /\ v \in Values("INTEGER") => intType(v) = "INTEGER"
        /\ v \notin Values("INTEGER") /\ v \notin Values("SHORTINT") => intType(v) = "LONGINT"
    BY IntegerValues DEF intType, Integers
  <1>2. v \in Values("LONGINT")
    BY IntegerValues DEF Integers
  <1>. QED  BY <1>1, <1>2, IntegerValues, Ranks DEF Integers, Includes, Numeric, RealTypes

(* Ranks tell the numeric types apart, and real types from the others. *)
LEMMA RanksOfNumbers ==
    /\ \A t \in Numeric : Rank(t) \in 1 .. 6 /\ (t \in RealTypes <=> Rank(t) >= 5)
    /\ \A s, t \in Numeric : Rank(s) = Rank(t) => s = t
  BY Ranks DEF Numeric, Integers, RealTypes

(* The common type of two numbers is the larger one in the language. *)
LEMMA CommonIsLarger ==
    ASSUME NEW s \in Numeric, NEW t \in Numeric
    PROVE  /\ commonType(s, t) = Larger(s, t)
           /\ Larger(s, t) \in {s, t} /\ Rank(s) <= Rank(Larger(s, t)) /\ Rank(t) <= Rank(Larger(s, t))
           /\ Larger(s, t) \in RealTypes <=> s \in RealTypes \/ t \in RealTypes
  <1>1. Larger(s, t) = IF Rank(s) < Rank(t) THEN t ELSE s
    BY DEF Larger
  <1>2. /\ Larger(s, t) \in {s, t} /\ Rank(s) <= Rank(Larger(s, t)) /\ Rank(t) <= Rank(Larger(s, t))
        /\ Larger(s, t) \in RealTypes <=> s \in RealTypes \/ t \in RealTypes
    BY <1>1, RanksOfNumbers
  <1>3. /\ Size["BYTE"] = 1 /\ Size["SHORTINT"] = 2 /\ Size["INTEGER"] = 4 /\ Size["LONGINT"] = 8
        /\ Size["REAL"] = 4 /\ Size["LONGREAL"] = 8
    BY DEF Size
  <1>4. commonType(s, t) = Larger(s, t)
    BY <1>1, <1>3, Ranks DEF commonType, Numeric, Integers, RealTypes
  <1>. QED  BY <1>2, <1>4

(* What includes the operands includes the larger of them. *)
LEMMA LargerIsIncluded ==
    ASSUME NEW s \in Numeric, NEW t \in Numeric, NEW u, NEW v, Includes(s, u), Includes(t, v)
    PROVE  {u, v} \subseteq Numeric /\ Includes(Larger(s, t), Larger(u, v))
  <1>1. u \in Numeric /\ v \in Numeric
    BY DEF Includes
  <1>2. Larger(s, t) = IF Rank(s) < Rank(t) THEN t ELSE s
    BY DEF Larger
  <1>3. Larger(u, v) = IF Rank(u) < Rank(v) THEN v ELSE u
    BY <1>1 DEF Larger
  <1>4. /\ Rank(u) <= Rank(s) /\ (u \in RealTypes <=> s \in RealTypes)
        /\ Rank(v) <= Rank(t) /\ (v \in RealTypes <=> t \in RealTypes)
    BY RanksOfNumbers DEF Includes
  <1>. QED  BY <1>1, <1>2, <1>3, <1>4, RanksOfNumbers DEF Includes

(* The LLVM types of the basic types *)
LEMMA LLVMTypes ==
    /\ getLLVMType["BOOLEAN"] = "i1" /\ getLLVMType["BYTE"] = "i8" /\ getLLVMType["CHAR"] = "i8"
    /\ getLLVMType["SHORTINT"] = "i16" /\ getLLVMType["INTEGER"] = "i32" /\ getLLVMType["LONGINT"] = "i64"
    /\ getLLVMType["REAL"] = "float" /\ getLLVMType["LONGREAL"] = "double" /\ getLLVMType["SET"] = "i32"
  BY DEF getLLVMType

-----------------------------------------------------------------------------
(* Casts *)

(* A cast to the same type, or from a number to a number other than from a   *)
(* real number to an integer, yields code of the type it names.              *)
LEMMA CastCodeIsTyped ==
    ASSUME NEW code, NEW s \in Types, NEW t \in Types, code.ll = getLLVMType[s],
           s = t \/ ({s, t} \subseteq Numeric /\ (s \in RealTypes => t \in RealTypes))
    PROVE  CastCode(code, s, t).ll = getLLVMType[t]
  <1>1. CASE s = t
    BY <1>1 DEF CastCode
  <1>2. CASE code.ll = getLLVMType[t]
    BY <1>2 DEF CastCode
  <1>3. CASE s # t /\ code.ll # getLLVMType[t]
    <2>1. s \in Numeric /\ t \in Numeric /\ t # None
      BY <1>3, ExpressionsAssumption
    <2>2. ~(s \in Integers \cup {"BYTE"} /\ t \notin Integers \cup {"BYTE"} \cup RealTypes)
      BY <2>1 DEF Numeric
    <2>. DEFINE at == [m \in DOMAIN Memories |-> [code.at[m] EXCEPT !.v = Convert(@, s, t)]]
    <2>3. CastCode(code, s, t) = Code(getLLVMType[t], at)
      <3>. HIDE DEF at
      <3>1. ~(s \in RealTypes /\ t \notin RealTypes)
        BY <1>3
      <3>. USE DEF at
      <3>. QED  BY <1>3, <2>1, <2>2, <3>1 DEF CastCode
    <2>. HIDE DEF at
    <2>. QED  BY <2>3 DEF Code
  <1>. QED  BY <1>1, <1>2, <1>3

(* No cast *)
LEMMA NoCast ==
    ASSUME NEW code, NEW s, NEW t \in {None, s}
    PROVE  CastCode(code, s, t) = code
  BY DEF CastCode

(* The operand of an instruction has the type that Sema casts it to. *)
LEMMA CastOperand ==
    ASSUME NEW n, IsExpression(n), n.mean.limits = {}, NEW t \in Types,
           n.type = t \/ ({n.type, t} \subseteq Numeric /\ (n.type \in RealTypes => t \in RealTypes))
    PROVE  /\ Operand(cast(n, t)).ll = getLLVMType[t]
           /\ cast(n, t).type \in {n.type, "REAL"}
           /\ cast(n, t).type # n.type => t \in RealTypes /\ isLiteral(n)
  <1>. DEFINE made(k, s, c, v, code, mean) ==
                  [kind |-> k, type |-> s, cast |-> c, val |-> v, code |-> code, mean |-> mean]
  <1>1. /\ n = made(n.kind, n.type, n.cast, n.val, n.code, n.mean)
        /\ n.type \in Types /\ n.code.ll = getLLVMType[n.type] /\ n.cast \in {None, n.type}
    BY DEF IsExpression, IsTyped, IsNode
  <1>2. CASE n.type = t
    <2>1. cast(n, t) = n
      BY <1>2 DEF cast
    <2>2. Operand(n) = n.code
      BY <1>1, NoCast DEF Operand
    <2>. QED  BY <1>1, <1>2, <2>1, <2>2
  <1>3. CASE n.type # t /\ isLiteral(n) /\ t \in RealTypes /\ n.type \in Integers
    <2>. DEFINE real == RealLiteral(n.val, "REAL")
    <2>1. cast(n, t) = [n EXCEPT !.type = "REAL", !.cast = t, !.code = real]
      BY <1>3 DEF cast
    <2>2. real.ll = getLLVMType["REAL"]
      BY DEF RealLiteral, Code
    <2>. HIDE DEF real
    <2>3. cast(n, t) = made(n.kind, "REAL", t, n.val, real, n.mean)
      BY <1>1, <2>1
    <2>4. cast(n, t).type = "REAL" /\ cast(n, t).cast = t /\ cast(n, t).code = real
      BY <2>3
    <2>5. "REAL" \in Types /\ ({"REAL", t} \subseteq Numeric)
      BY <1>3 DEF Types, Numeric, RealTypes
    <2>6. CastCode(real, "REAL", t).ll = getLLVMType[t]
      BY <1>3, <2>2, <2>5, CastCodeIsTyped
    <2>. QED  BY <1>3, <2>4, <2>6 DEF Operand
  <1>4. CASE n.type # t /\ ~(isLiteral(n) /\ t \in RealTypes /\ n.type \in Integers)
    <2>1. cast(n, t) = [n EXCEPT !.cast = t]
      BY <1>4 DEF cast
    <2>2. cast(n, t) = made(n.kind, n.type, t, n.val, n.code, n.mean)
      BY <1>1, <2>1
    <2>3. cast(n, t).type = n.type /\ cast(n, t).cast = t /\ cast(n, t).code = n.code
      BY <2>2
    <2>4. CastCode(n.code, n.type, t).ll = getLLVMType[t]
      BY <1>1, CastCodeIsTyped
    <2>. QED  BY <2>3, <2>4 DEF Operand
  <1>. QED  BY <1>2, <1>3, <1>4

-----------------------------------------------------------------------------
(* Operators: their operands, the type these are cast to, and the result *)

Equality(op, s, t, c, result) == op \in {"=", "#"} /\ s = "BOOLEAN" /\ t = "BOOLEAN" /\ c = None /\ result = "BOOLEAN"
Logic(op, s, t, c, result) == op \in {"&", "OR"} /\ s = "BOOLEAN" /\ t = "BOOLEAN" /\ c = "BOOLEAN" /\ result = "BOOLEAN"
SetRelation(op, s, t, c, result) ==
    op \in {"=", "#", "<=", ">="} /\ s = "SET" /\ t = "SET" /\ c = "SET" /\ result = "BOOLEAN"
SetOperation(op, s, t, c, result) == op \in {"+", "-", "*", "/"} /\ s = "SET" /\ t = "SET" /\ c = "SET" /\ result = "SET"
Membership(op, s, t, c, result) == op = "IN" /\ s \in Integers /\ t = "SET" /\ c = None /\ result = "BOOLEAN"
CharRelation(op, s, t, c, result) == op \in Relations /\ s = "CHAR" /\ t = "CHAR" /\ c = "CHAR" /\ result = "BOOLEAN"
Relation(op, s, t, c, result) ==
    op \in Relations /\ s \in Numeric /\ t \in Numeric /\ c = Larger(s, t) /\ result = "BOOLEAN"
Operation(op, s, t, c, result) ==
    op \in {"+", "-", "*"} /\ s \in Numeric /\ t \in Numeric /\ c = Larger(s, t) /\ result = c
WholeDivision(op, s, t, c, result) ==
    /\ op \in {"DIV", "MOD"} /\ s \in Integers \cup {"BYTE"} /\ t \in Integers \cup {"BYTE"}
    /\ c = Larger(s, t) /\ result = c
Division(op, s, t, c, result) ==
    /\ op = "/" /\ s \in Numeric /\ t \in Numeric
    /\ c = (IF Larger(s, t) \in Integers THEN "REAL" ELSE Larger(s, t)) /\ result = c

OfBooleans(op, s, t, c, result) == Equality(op, s, t, c, result) \/ Logic(op, s, t, c, result)
OfSets(op, s, t, c, result) ==
    SetRelation(op, s, t, c, result) \/ SetOperation(op, s, t, c, result) \/ Membership(op, s, t, c, result)
OfNumbers(op, s, t, c, result) ==
    \/ Relation(op, s, t, c, result) \/ Operation(op, s, t, c, result)
    \/ WholeDivision(op, s, t, c, result) \/ Division(op, s, t, c, result)

(* The common type of booleans, of sets and of characters *)
LEMMA CommonOfEquals ==
    ASSUME NEW t
    PROVE  commonType(t, t) = t
  BY DEF commonType

(* There is an error for operands other than these. *)
LEMMA TypingCases ==
    ASSUME NEW op, NEW s \in Types, NEW t \in Types,
           NEW typing, typing = Typing(op, s, t), typing.result # None
    PROVE  \/ OfBooleans(op, s, t, typing.common, typing.result)
           \/ OfSets(op, s, t, typing.common, typing.result)
           \/ OfNumbers(op, s, t, typing.common, typing.result)
           \/ CharRelation(op, s, t, typing.common, typing.result)
  <1>. DEFINE Typed(c, result) == [common |-> c, result |-> result]
              c0 == commonType(s, t)
  <1>1. CASE op \in {"=", "#"} /\ {s, t} = {"BOOLEAN"}
    <2>1. typing = Typed(None, "BOOLEAN")
      BY <1>1 DEF Typing, Numeric, Integers, RealTypes, Relations
    <2>. QED  BY <1>1, <2>1 DEF OfBooleans, Equality
  <1>2. CASE op \in {"=", "#", "<=", ">="} /\ {s, t} = {"SET"}
    <2>1. typing = Typed(c0, "BOOLEAN")
      BY <1>2 DEF Typing, Numeric, Integers, RealTypes, Relations
    <2>. QED  BY <1>2, <2>1, CommonOfEquals DEF OfSets, SetRelation
  <1>3. CASE op \in Relations /\ {s, t} = {"CHAR"}
    <2>1. typing = Typed(c0, "BOOLEAN")
      BY <1>3 DEF Typing, Numeric, Integers, RealTypes, Relations
    <2>. QED  BY <1>3, <2>1, CommonOfEquals DEF CharRelation
  <1>4. CASE op \in Relations /\ {s, t} \subseteq Numeric
    <2>1. typing = Typed(c0, "BOOLEAN")
      BY <1>4 DEF Typing, Numeric, Integers, RealTypes, Relations
    <2>. QED  BY <1>4, <2>1, CommonIsLarger DEF OfNumbers, Relation
  <1>5. CASE op = "IN" /\ s \in Integers /\ t = "SET"
    <2>1. typing = Typed(None, "BOOLEAN")
      BY <1>5 DEF Typing, Numeric, Integers, RealTypes, Relations
    <2>. QED  BY <1>5, <2>1 DEF OfSets, Membership
  <1>6. CASE op \in {"+", "-", "*"} /\ {s, t} \subseteq Numeric
    <2>1. typing = Typed(c0, c0)
      BY <1>6 DEF Typing, Numeric, Integers, RealTypes, Relations
    <2>. QED  BY <1>6, <2>1, CommonIsLarger DEF OfNumbers, Operation
  <1>7. CASE op \in {"+", "-", "*", "/"} /\ {s, t} = {"SET"}
    <2>1. c0 = "SET"
      BY <1>7, CommonOfEquals
    <2>. HIDE DEF c0
    <2>2. typing = Typed(c0, c0)
      BY <1>7, <2>1 DEF Typing, Numeric, Integers, RealTypes, Relations, c0
    <2>. QED  BY <1>7, <2>1, <2>2 DEF OfSets, SetOperation
  <1>8. CASE op \in {"DIV", "MOD"} /\ {s, t} \subseteq Integers \cup {"BYTE"}
    <2>1. typing = Typed(c0, c0)
      BY <1>8 DEF Typing, Numeric, Integers, RealTypes, Relations
    <2>2. s \in Numeric /\ t \in Numeric
      BY <1>8 DEF Numeric
    <2>. QED  BY <1>8, <2>1, <2>2, CommonIsLarger DEF OfNumbers, WholeDivision
  <1>9. CASE op = "/" /\ {s, t} \subseteq Numeric
    <2>. DEFINE c1 == IF c0 \in Integers THEN "REAL" ELSE c0
    <2>1. typing = Typed(c1, c1)
      BY <1>9 DEF Typing, Numeric, Integers, RealTypes, Relations
    <2>. QED  BY <1>9, <2>1, CommonIsLarger DEF OfNumbers, Division
  <1>10. CASE op \in {"OR", "&"} /\ {s, t} = {"BOOLEAN"}
    <2>1. typing = Typed("BOOLEAN", "BOOLEAN")
      BY <1>10 DEF Typing, Numeric, Integers, RealTypes, Relations
    <2>. QED  BY <1>10, <2>1 DEF OfBooleans, Logic
  <1>11. CASE /\ ~(op \in {"=", "#"} /\ {s, t} = {"BOOLEAN"})
              /\ ~(op \in {"=", "#", "<=", ">="} /\ {s, t} = {"SET"})
              /\ ~(op \in Relations /\ ({s, t} \subseteq Numeric \/ {s, t} = {"CHAR"}))
              /\ ~(op = "IN" /\ s \in Integers /\ t = "SET")
              /\ ~(op \in {"+", "-", "*"} /\ ({s, t} \subseteq Numeric \/ {s, t} = {"SET"}))
              /\ ~(op \in {"DIV", "MOD"} /\ {s, t} \subseteq Integers \cup {"BYTE"})
              /\ ~(op = "/" /\ ({s, t} \subseteq Numeric \/ {s, t} = {"SET"}))
              /\ ~(op \in {"OR", "&"} /\ {s, t} = {"BOOLEAN"})
    <2>1. typing = Typed(None, None)
      BY <1>11 DEF Typing
    <2>. QED  BY <2>1
  <1>. QED  BY <1>1, <1>2, <1>3, <1>4, <1>5, <1>6, <1>7, <1>8, <1>9, <1>10, <1>11

-----------------------------------------------------------------------------
(* The LLVM types of instructions *)

(* Jumps *)
LEMMA LogicInstruction ==
    ASSUME NEW op \in {"&", "OR"}, NEW l, NEW r
    PROVE  BinaryCode(op, l, r).ll = "i1"
  <1>1. BinaryCode(op, l, r) = ShortCircuit(op, Operand(l), Operand(r))
    BY DEF BinaryCode
  <1>. QED  BY <1>1 DEF ShortCircuit, Code

(* Instructions on sets, the element of a membership apart *)
LEMMA SetInstruction ==
    ASSUME NEW op, op \notin {"&", "OR", "IN"}, NEW l, NEW r, "SET" \in {l.type, r.type},
           Operand(l).ll = "i32", Operand(r).ll = "i32"
    PROVE  BinaryCode(op, l, r).ll = IF op \in Relations THEN "i1" ELSE "i32"
  BY DEF BinaryCode, Apply, Code

(* A membership: the element is shifted, in its own width if it is no literal. *)
LEMMA MembershipInstruction ==
    ASSUME NEW l, NEW r, "SET" \in {l.type, r.type}, l.code = [ll |-> l.code.ll, at |-> l.code.at],
           ~isLiteral(l) => Operand(l).ll = "i32", Operand(r).ll = "i32"
    PROVE  BinaryCode("IN", l, r).ll = "i1"
  <1>. DEFINE x == IF isLiteral(l) THEN [l.code EXCEPT !.ll = "i32"] ELSE Operand(l)
  <1>1. x.ll = "i32"
    OBVIOUS
  <1>. HIDE DEF x
  <1>. QED  BY <1>1 DEF BinaryCode, Apply, Code, x

(* Instructions on numbers: integer or floating point ones *)
LEMMA NumberInstruction ==
    ASSUME NEW op, op \notin {"&", "OR", "IN"}, NEW l, NEW r, l.type \in Numeric, r.type \in Numeric,
           Operand(l).ll = Operand(r).ll,
           Operand(l).ll \in IF {l.type, r.type} \cap RealTypes # {} \/ op = "/" THEN Floats ELSE Ints
    PROVE  BinaryCode(op, l, r).ll = IF op \in Relations THEN "i1" ELSE Operand(l).ll
  <1>1. "SET" \notin {l.type, r.type} /\ {l.type, r.type} \subseteq Numeric
    BY DEF Numeric, Integers, RealTypes
  <1>. QED  BY <1>1 DEF BinaryCode, Apply, Code

(* Comparisons of characters *)
LEMMA CharInstruction ==
    ASSUME NEW op \in Relations, NEW l, NEW r, l.type = "CHAR", r.type = "CHAR",
           Operand(l).ll = "i8", Operand(r).ll = "i8"
    PROVE  BinaryCode(op, l, r).ll = "i1"
  <1>1. "SET" \notin {l.type, r.type} /\ {l.type, r.type} = {"CHAR"} /\ ~({l.type, r.type} \subseteq Numeric)
    BY DEF Numeric, Integers, RealTypes
  <1>. QED  BY <1>1 DEF BinaryCode, Apply, Code, Relations

(* Any other operands: the code of the left-hand side *)
LEMMA BooleanInstruction ==
    ASSUME NEW op \in {"=", "#"}, NEW l, NEW r, l.type = "BOOLEAN", r.type = "BOOLEAN"
    PROVE  BinaryCode(op, l, r) = Operand(l)
  <1>1. "SET" \notin {l.type, r.type} /\ {l.type, r.type} # {"CHAR"} /\ ~({l.type, r.type} \subseteq Numeric)
    BY DEF Numeric, Integers, RealTypes
  <1>. QED  BY <1>1 DEF BinaryCode

(* One of the operands is this literal, the other is none. *)
WithLiteral(l, r, val) == (IsLiteral(l, val) /\ ~isLiteral(r)) \/ (IsLiteral(r, val) /\ ~isLiteral(l))

(* Folding leaves an operand, which is not of the common type. *)
IsLost(l, r, common) ==
    LET rest == IF isLiteral(l) THEN r ELSE l
    IN  rest.type # common \/ rest.cast # None

OnNumbers(op, l, r) == op \in {"+", "-", "*", "/", "DIV", "MOD"} /\ "SET" \notin {l.type, r.type}

(* What is the case where the compiler does not depart from the language *)
LEMMA NoDepartures ==
    ASSUME NEW op, NEW l, NEW r, NEW common, Departures(op, l, r, common) = {}
    PROVE  /\ ~(op = "MOD" /\ IsLiteral(r, 1))
           /\ ~(OnNumbers(op, l, r) /\ op = "*" /\ WithLiteral(l, r, 0))
           /\ OnNumbers(op, l, r) /\ IsLost(l, r, common) =>
                /\ ~(op \in {"+", "-"} /\ WithLiteral(l, r, 0))
                /\ ~(op = "*" /\ WithLiteral(l, r, 1))
                /\ ~(op \in {"/", "DIV"} /\ ~isLiteral(l) /\ IsLiteral(r, 1))
           /\ "BYTE" \in {l.type, r.type} =>
                /\ common \notin RealTypes
                /\ {l.type, r.type} = {"BYTE"} => op \in {"+", "-", "*", "=", "#"}
           /\ op = "IN" /\ ~isLiteral(l) => l.type = "INTEGER"
  <1>1. /\ "modulo one" \notin Departures(op, l, r, common)
        /\ "lost call" \notin Departures(op, l, r, common)
        /\ "lost type" \notin Departures(op, l, r, common)
        /\ "byte sign" \notin Departures(op, l, r, common)
        /\ "set width" \notin Departures(op, l, r, common)
    OBVIOUS
  <1>2. ~(op = "MOD" /\ IsLiteral(r, 1))
    BY <1>1 DEF Departures
  <1>3. ~(OnNumbers(op, l, r) /\ op = "*" /\ WithLiteral(l, r, 0))
    BY <1>1 DEF Departures, OnNumbers, WithLiteral
  <1>4. OnNumbers(op, l, r) /\ IsLost(l, r, common) =>
                /\ ~(op \in {"+", "-"} /\ WithLiteral(l, r, 0))
                /\ ~(op = "*" /\ WithLiteral(l, r, 1))
                /\ ~(op \in {"/", "DIV"} /\ ~isLiteral(l) /\ IsLiteral(r, 1))
    BY <1>1 DEF Departures, OnNumbers, WithLiteral, IsLost
  <1>5. "BYTE" \in {l.type, r.type} =>
                /\ common \notin RealTypes
                /\ {l.type, r.type} = {"BYTE"} => op \in {"+", "-", "*", "=", "#"}
    BY <1>1 DEF Departures
  <1>6. ~(op = "IN" /\ ~isLiteral(l) /\ l.type # "INTEGER")
    BY <1>1 DEF Departures
  <1>. QED  BY <1>2, <1>3, <1>4, <1>5, <1>6

(* The LLVM types of numbers *)
LEMMA NumberTypes ==
    ASSUME NEW t \in Numeric
    PROVE  IF t \in RealTypes THEN getLLVMType[t] \in Floats ELSE getLLVMType[t] \in Ints
  BY LLVMTypes DEF Numeric, Integers, RealTypes, Floats, Ints

(* An operand that is cast, if there is a common type *)
CastTo(common, n) == IF common = None THEN n ELSE cast(n, common)

(* The code of a binary expression has the type of its result. *)
LEMMA OperatorIsTyped ==
    ASSUME NEW op, NEW l, NEW r, IsExpression(l), IsExpression(r), l.mean.limits = {}, r.mean.limits = {},
           NEW typing, typing = Typing(op, l.type, r.type), typing.result # None,
           Departures(op, l, r, typing.common) = {}
    PROVE  BinaryCode(op, CastTo(typing.common, l), CastTo(typing.common, r)).ll = getLLVMType[typing.result]
  <1>. DEFINE s == l.type  t == r.type  c == typing.common  result == typing.result
              Cast(n) == CastTo(c, n)
  <1>1. /\ s \in Types /\ l.code.ll = getLLVMType[s] /\ l.cast \in {None, s} /\ l.code = [ll |-> l.code.ll, at |-> l.code.at]
        /\ t \in Types /\ r.code.ll = getLLVMType[t] /\ r.cast \in {None, t}
    BY DEF IsExpression, IsTyped, IsNode
  <1>2. Operand(l).ll = getLLVMType[s] /\ Operand(r).ll = getLLVMType[t]
    BY <1>1, NoCast DEF Operand
  <1>3. \A u \in Types : u # None
    BY ExpressionsAssumption
  <1>4. CASE OfBooleans(op, s, t, c, result)
    <2>1. CASE Equality(op, s, t, c, result)
      BY <1>2, <2>1, BooleanInstruction DEF Equality, CastTo
    <2>2. CASE Logic(op, s, t, c, result)
      BY <2>2, LogicInstruction, LLVMTypes DEF Logic
    <2>. QED  BY <1>4, <2>1, <2>2 DEF OfBooleans
  <1>5. CASE OfSets(op, s, t, c, result)
    <2>1. CASE SetRelation(op, s, t, c, result) \/ SetOperation(op, s, t, c, result)
      <3>1. s = "SET" /\ t = "SET" /\ c = "SET" /\ op \notin {"&", "OR", "IN"}
        BY <2>1 DEF SetRelation, SetOperation
      <3>2. Cast(l) = l /\ Cast(r) = r
        BY <3>1 DEF cast, CastTo
      <3>3. BinaryCode(op, l, r).ll = IF op \in Relations THEN "i1" ELSE "i32"
        BY <1>2, <3>1, SetInstruction, LLVMTypes
      <3>. QED  BY <2>1, <3>2, <3>3, LLVMTypes DEF SetRelation, SetOperation, Relations
    <2>2. CASE Membership(op, s, t, c, result)
      <3>1. Cast(l) = l /\ Cast(r) = r
        BY <2>2 DEF Membership, CastTo
      <3>2. ~isLiteral(l) => s = "INTEGER"
        BY <2>2, NoDepartures DEF Membership
      <3>. QED  BY <1>1, <1>2, <2>2, <3>1, <3>2, MembershipInstruction, LLVMTypes DEF Membership
    <2>. QED  BY <1>5, <2>1, <2>2 DEF OfSets
  <1>6. CASE CharRelation(op, s, t, c, result)
    <2>1. Cast(l) = l /\ Cast(r) = r
      BY <1>6 DEF CharRelation, cast, CastTo
    <2>. QED  BY <1>2, <1>6, <2>1, CharInstruction, LLVMTypes DEF CharRelation
  <1>7. CASE OfNumbers(op, s, t, c, result)
    <2>1. s \in Numeric /\ t \in Numeric /\ op \notin {"&", "OR", "IN"}
      BY <1>7 DEF OfNumbers, Relation, Operation, WholeDivision, Division, Numeric, Relations
    <2>2. c = Larger(s, t) \/ (op = "/" /\ Larger(s, t) \in Integers /\ c = "REAL")
      BY <1>7 DEF OfNumbers, Relation, Operation, WholeDivision, Division
    <2>3. result = IF op \in Relations THEN "BOOLEAN" ELSE c
      BY <1>7 DEF OfNumbers, Relation, Operation, WholeDivision, Division, Relations
    <2>4. c \in Numeric /\ c \in Types /\ c # None
      BY <1>3, <2>1, <2>2, CommonIsLarger DEF Types, Numeric, RealTypes
    <2>5. (s \in RealTypes => c \in RealTypes) /\ (t \in RealTypes => c \in RealTypes)
      BY <2>1, <2>2, CommonIsLarger DEF RealTypes
    <2>6. c \in RealTypes => s \in RealTypes \/ t \in RealTypes \/ op = "/"
      BY <2>1, <2>2, CommonIsLarger
    <2>7. op = "/" => c \in RealTypes
      <3>1. ASSUME op = "/", c \notin RealTypes PROVE FALSE
        <4>1. c = Larger(s, t) /\ c = "BYTE"
          BY <1>7, <2>1, <2>4, <3>1, CommonIsLarger DEF OfNumbers, Relation, Operation, WholeDivision, Division, Relations, Numeric, RealTypes
        <4>2. Rank(s) <= 1 /\ Rank(t) <= 1
          <5>1. Rank(s) <= Rank(Larger(s, t)) /\ Rank(t) <= Rank(Larger(s, t))
            BY <2>1, CommonIsLarger
          <5>2. Rank(Larger(s, t)) = 1
            BY <4>1, Ranks
          <5>. HIDE DEF s, t, c
          <5>. QED  BY <5>1, <5>2
        <4>3. s = "BYTE" /\ t = "BYTE"
          BY <2>1, <4>2, Ranks DEF Numeric, Integers, RealTypes
        <4>. QED  BY <3>1, <4>3, NoDepartures
      <3>. QED  BY <3>1
    <2>. DEFINE x == cast(l, c)  y == cast(r, c)
    <2>8. Operand(x).ll = getLLVMType[c] /\ x.type \in {s, "REAL"} /\ (x.type # s => c \in RealTypes)
      BY <2>1, <2>4, <2>5, CastOperand
    <2>9. Operand(y).ll = getLLVMType[c] /\ y.type \in {t, "REAL"} /\ (y.type # t => c \in RealTypes)
      BY <2>1, <2>4, <2>5, CastOperand
    <2>10. ({x.type, y.type} \cap RealTypes # {} \/ op = "/") <=> c \in RealTypes
      <3>1. ASSUME c \in RealTypes, op # "/" PROVE x.type \in RealTypes \/ y.type \in RealTypes
        BY <2>6, <2>8, <2>9, <3>1 DEF RealTypes
      <3>2. ASSUME x.type \in RealTypes \/ y.type \in RealTypes PROVE c \in RealTypes
        BY <2>5, <2>8, <2>9, <3>2
      <3>. QED  BY <2>7, <3>1, <3>2
    <2>11. x.type \in Numeric /\ y.type \in Numeric
      BY <2>1, <2>8, <2>9 DEF Numeric, RealTypes
    <2>. HIDE DEF x, y
    <2>12. Operand(x).ll \in IF {x.type, y.type} \cap RealTypes # {} \/ op = "/" THEN Floats ELSE Ints
      BY <2>4, <2>8, <2>10, NumberTypes
    <2>13. BinaryCode(op, x, y).ll = IF op \in Relations THEN "i1" ELSE Operand(x).ll
      BY <2>1, <2>8, <2>9, <2>11, <2>12, NumberInstruction
    <2>14. Cast(l) = x /\ Cast(r) = y
      BY <2>4 DEF x, y, CastTo
    <2>. QED  BY <2>3, <2>8, <2>13, <2>14, LLVMTypes
  <1>. HIDE DEF s, t, c, result
  <1>. QED  BY <1>1, <1>4, <1>5, <1>6, <1>7, TypingCases DEF s, t, c, result

-----------------------------------------------------------------------------
(* What binary expressions mean *)

(* Departures are kept, those of the operands too. *)
LEMMA BinaryLimits ==
    ASSUME NEW op, NEW l, NEW r, NEW typing, BinaryMean(op, l, r, typing).limits = {}
    PROVE  l.mean.limits = {} /\ r.mean.limits = {} /\ Departures(op, l, r, typing.common) = {}
  <1>1. l.mean.limits \cup r.mean.limits \cup Departures(op, l, r, typing.common)
          \subseteq BinaryMean(op, l, r, typing).limits
    BY DEF BinaryMean, Mean
  <1>. QED  BY <1>1

(* An expression of constants is constant. *)
LEMMA BinaryConst ==
    ASSUME NEW op, NEW l, NEW r, NEW typing
    PROVE  BinaryMean(op, l, r, typing).const <=> l.mean.const /\ r.mean.const
  BY DEF BinaryMean, Mean

(* The type of an expression, unless it is an integer constant *)
LEMMA BinaryType ==
    ASSUME NEW op, NEW l, NEW r, NEW typing,
           typing.result = "BOOLEAN" \/ ~(l.mean.const /\ r.mean.const)
             \/ OperandType(op, l.mean.type, r.mean.type) \notin Integers
    PROVE  BinaryMean(op, l, r, typing).type =
             IF typing.result = "BOOLEAN" THEN "BOOLEAN" ELSE OperandType(op, l.mean.type, r.mean.type)
  BY DEF BinaryMean, Mean

(* An operand as an operator takes it, unless both are constants: numbers in *)
(* the type of the operator.                                                 *)
Given(op, type, n, m) ==
    IF type \in Numeric /\ op # "IN" THEN Fit(Fit(n.at[m].v, n.type), type) ELSE Fit(n.at[m].v, n.type)

(* The right-hand side of a logical operator is skipped. *)
Skipped(op, a) == op \in {"&", "OR"} /\ a = (op = "OR")

Applied(op, type, a, b) == Meaning(op, IF op = "IN" THEN "IN" ELSE type, a, b)

(* Constants are numbers of the largest type. *)
Largest(type) == IF type \in Integers THEN "LONGINT" ELSE IF type \in RealTypes THEN "LONGREAL" ELSE type

(* What a binary expression means in a memory *)
LEMMA BinaryAt ==
    ASSUME NEW op, NEW l, NEW r, NEW typing, NEW mean, mean = BinaryMean(op, l, r, typing), NEW m \in DOMAIN Memories,
           NEW type, type = OperandType(op, l.mean.type, r.mean.type),
           NEW a, a = (IF l.mean.const /\ r.mean.const THEN l.mean.at[m].v ELSE Given(op, type, l.mean, m)),
           NEW b, b = (IF l.mean.const /\ r.mean.const THEN r.mean.at[m].v ELSE Given(op, type, r.mean, m))
    PROVE  /\ Skipped(op, a) => mean.at[m] = l.mean.at[m]
           /\ ~Skipped(op, a) =>
                /\ mean.at[m].v = Fit(Applied(op, type, a, b), IF l.mean.const /\ r.mean.const /\ mean.type # "BOOLEAN"
                                                              THEN Largest(type) ELSE mean.type)
                /\ mean.at[m].calls = l.mean.at[m].calls + r.mean.at[m].calls
  <1>. DEFINE x == l.mean
              y == r.mean
              const == x.const /\ y.const
              type0 == OperandType(op, x.type, y.type)
              given(n, i) == IF const THEN n.at[i].v ELSE Given(op, type0, n, i)
              value(i) == Applied(op, type0, given(x, i), given(y, i))
              result == IF typing.result = "BOOLEAN" THEN "BOOLEAN"
                        ELSE IF const /\ type0 \in Integers THEN SmallestInteger(value(1))
                        ELSE type0
              at == [i \in DOMAIN Memories |->
                       IF Skipped(op, given(x, i)) THEN x.at[i]
                       ELSE [v |-> Fit(value(i), IF const /\ result # "BOOLEAN" THEN Largest(type0) ELSE result),
                             calls |-> x.at[i].calls + y.at[i].calls]]
  <1>1. mean.type = result /\ mean.at = at
    BY ZenonT(40) DEF BinaryMean, Mean, Given, Skipped, Applied, Largest
  <1>. HIDE DEF type0
  <1>2. type0 = type
    BY DEF type0
  <1>3. given(x, m) = a /\ value(m) = Applied(op, type, a, b)
    BY <1>2
  <1>. HIDE DEF value, result, given
  <1>4. at[m] = IF Skipped(op, a) THEN l.mean.at[m]
                ELSE [v |-> Fit(Applied(op, type, a, b), IF const /\ result # "BOOLEAN" THEN Largest(type) ELSE result),
                      calls |-> x.at[m].calls + y.at[m].calls]
    BY <1>2, <1>3
  <1>. HIDE DEF at
  <1>. QED  BY <1>1, <1>4

(* Integer constants have the smallest type. *)
LEMMA BinarySmallest ==
    ASSUME NEW op, NEW l, NEW r, NEW typing, NEW mean, mean = BinaryMean(op, l, r, typing),
           NEW type, type = OperandType(op, l.mean.type, r.mean.type), type \in Integers,
           typing.result # "BOOLEAN", l.mean.const, r.mean.const
    PROVE  mean.type = SmallestInteger(Applied(op, type, l.mean.at[1].v, r.mean.at[1].v))
  <1>. DEFINE x == l.mean
              y == r.mean
              const == x.const /\ y.const
              type0 == OperandType(op, x.type, y.type)
              given(n, i) == IF const THEN n.at[i].v ELSE Given(op, type0, n, i)
              value(i) == Applied(op, type0, given(x, i), given(y, i))
              result == IF typing.result = "BOOLEAN" THEN "BOOLEAN"
                        ELSE IF const /\ type0 \in Integers THEN SmallestInteger(value(1))
                        ELSE type0
  <1>1. mean.type = result
    BY ZenonT(40) DEF BinaryMean, Mean, Given, Applied
  <1>. HIDE DEF type0
  <1>2. type0 = type
    BY DEF type0
  <1>3. value(1) = Applied(op, type, x.at[1].v, y.at[1].v)
    BY <1>2
  <1>. HIDE DEF value
  <1>. QED  BY <1>1, <1>2, <1>3

(* Constants that do not fit in 64 bits are departures. *)
LEMMA BinaryOverflow ==
    ASSUME NEW op, NEW l, NEW r, NEW typing, NEW mean, mean = BinaryMean(op, l, r, typing)
    PROVE  Overflow(mean.type, l.mean.const /\ r.mean.const, mean.at[1].v) \subseteq mean.limits
  BY ZenonT(40) DEF BinaryMean, Mean

(* So integer constants without a departure have the type of their value. *)
LEMMA BinaryConstant ==
    ASSUME NEW op \in {"+", "-", "*", "DIV", "MOD"}, NEW l, NEW r, NEW typing, typing.result # "BOOLEAN",
           l.mean.const, r.mean.const, OperandType(op, l.mean.type, r.mean.type) \in Integers,
           \A m \in DOMAIN Memories : l.mean.at[m].v = l.val /\ r.mean.at[m].v = r.val,
           NEW mean, mean = BinaryMean(op, l, r, typing), mean.limits = {}
    PROVE  LET e == Meaning(op, OperandType(op, l.mean.type, r.mean.type), l.val, r.val)
           IN  /\ mean.type = intType(e)
               /\ e \in Values("LONGINT")
               /\ \A m \in DOMAIN Memories : mean.at[m].v = e
  <1>. DEFINE type == OperandType(op, l.mean.type, r.mean.type)
              e == Meaning(op, type, l.val, r.val)
  <1>1. 1 \in DOMAIN Memories
    BY ExpressionsAssumption
  <1>2. type \in Integers
    OBVIOUS
  <1>. HIDE DEF type
  <1>3. \A a, b : Applied(op, type, a, b) = Meaning(op, type, a, b)
    BY DEF Applied
  <1>4. mean.type = intType(e) /\ mean.type \in Integers /\ mean.type # "BOOLEAN"
    <2>1. mean.type = SmallestInteger(Applied(op, type, l.mean.at[1].v, r.mean.at[1].v))
      BY <1>2, BinarySmallest DEF type
    <2>2. mean.type = SmallestInteger(e)
      BY <1>1, <1>3, <2>1
    <2>. QED  BY <2>2, SmallestIsIntType DEF Integers
  <1>5. ASSUME NEW m \in DOMAIN Memories PROVE mean.at[m].v = Fit(e, "LONGINT")
    <2>. DEFINE a == l.mean.at[m].v
                b == r.mean.at[m].v
    <2>1. ~Skipped(op, a)
      BY DEF Skipped
    <2>2. mean.at[m].v = Fit(Applied(op, type, a, b), Largest(type))
      BY <1>4, <1>5, <2>1, BinaryAt DEF type
    <2>3. a = l.val /\ b = r.val
      BY <1>5
    <2>. QED  BY <1>2, <1>3, <2>2, <2>3 DEF Largest
  <1>6. Fit(Fit(e, "LONGINT"), "LONGINT") # Undef
    BY <1>1, <1>4, <1>5, BinaryOverflow DEF Overflow
  <1>7. "LONGINT" \notin RealTypes
    BY DEF RealTypes
  <1>8. e \in Values("LONGINT") /\ Fit(e, "LONGINT") = e
    BY <1>6, <1>7 DEF Fit
  <1>. QED  BY <1>4, <1>5, <1>8 DEF type

(* The result of an operator includes what its meaning has as type. *)
LEMMA ResultIncludes ==
    ASSUME NEW op, NEW l, NEW r, l.type \in Types, r.type \in Types,
           Includes(l.type, l.mean.type), Includes(r.type, r.mean.type),
           NEW typing, typing = Typing(op, l.type, r.type), typing.result # None,
           Departures(op, l, r, typing.common) = {}
    PROVE  IF typing.result = "BOOLEAN" THEN TRUE
           ELSE Includes(typing.result, OperandType(op, l.mean.type, r.mean.type))
  <1>. DEFINE s == l.type  t == r.type  u == l.mean.type  v == r.mean.type
              c == typing.common  result == typing.result
  <1>1. CASE OfBooleans(op, s, t, c, result) \/ CharRelation(op, s, t, c, result) \/ Relation(op, s, t, c, result)
               \/ SetRelation(op, s, t, c, result) \/ Membership(op, s, t, c, result)
    BY <1>1 DEF OfBooleans, Equality, Logic, CharRelation, Relation, SetRelation, Membership
  <1>2. CASE SetOperation(op, s, t, c, result)
    <2>1. s = "SET" /\ t = "SET" /\ result = "SET" /\ "SET" \notin Numeric
      BY <1>2 DEF SetOperation, Numeric, Integers, RealTypes
    <2>2. u = "SET" /\ v = "SET"
      BY <2>1 DEF Includes
    <2>3. Larger(u, v) = "SET"
      BY <2>1, <2>2 DEF Larger
    <2>4. OperandType(op, u, v) = "SET"
      BY <2>3 DEF OperandType, Integers
    <2>. QED  BY <2>1, <2>4 DEF Includes
  <1>3. CASE Operation(op, s, t, c, result) \/ WholeDivision(op, s, t, c, result)
    <2>1. s \in Numeric /\ t \in Numeric /\ op # "/" /\ result = Larger(s, t)
      BY <1>3 DEF Operation, WholeDivision, Numeric
    <2>2. Includes(result, Larger(u, v))
      BY <2>1, LargerIsIncluded
    <2>. QED  BY <2>1, <2>2 DEF OperandType
  <1>4. CASE Division(op, s, t, c, result)
    <2>1. s \in Numeric /\ t \in Numeric /\ op = "/" /\ c = result
          /\ result = IF Larger(s, t) \in Integers THEN "REAL" ELSE Larger(s, t)
      BY <1>4 DEF Division
    <2>2. {u, v} \subseteq Numeric /\ Includes(Larger(s, t), Larger(u, v))
      BY <2>1, LargerIsIncluded
    <2>3. Larger(s, t) \in Numeric /\ Larger(u, v) \in Numeric
      BY <2>1, <2>2, CommonIsLarger
    <2>4. Larger(s, t) # "BYTE"
      <3>1. ASSUME Larger(s, t) = "BYTE" PROVE FALSE
        <4>1. Rank(s) <= Rank(Larger(s, t)) /\ Rank(t) <= Rank(Larger(s, t))
          BY <2>1, CommonIsLarger
        <4>2. Rank(Larger(s, t)) = 1
          BY <3>1, Ranks
        <4>3. s = "BYTE" /\ t = "BYTE"
          <5>. HIDE DEF s, t
          <5>. QED  BY <2>1, <4>1, <4>2, Ranks DEF Numeric, Integers, RealTypes
        <4>. QED  BY <2>1, <4>3, NoDepartures
      <3>. QED  BY <3>1
    <2>5. CASE Larger(s, t) \in RealTypes
      <3>1. Larger(u, v) \in RealTypes /\ Larger(s, t) \notin Integers
        BY <2>2, <2>5 DEF Includes, RealTypes, Integers
      <3>2. OperandType(op, u, v) = Larger(u, v)
        BY <3>1 DEF OperandType, RealTypes, Integers
      <3>. QED  BY <2>1, <2>2, <3>1, <3>2
    <2>6. CASE Larger(s, t) \in Integers
      <3>1. Larger(u, v) \notin RealTypes
        BY <2>2, <2>6 DEF Includes, RealTypes, Integers
      <3>2. OperandType(op, u, v) = "REAL"
        BY <2>1, <2>3, <3>1 DEF OperandType, Numeric
      <3>. QED  BY <2>1, <2>6, <3>2 DEF Includes
    <2>. QED  BY <2>3, <2>4, <2>5, <2>6 DEF Numeric
  <1>. QED  BY <1>1, <1>2, <1>3, <1>4, TypingCases DEF OfSets, OfNumbers

-----------------------------------------------------------------------------
(* Nodes *)

(* A new node, as the semantic analysis makes it *)
LEMMA NewNode ==
    ASSUME NEW type \in Types, NEW code, NEW mean, code = [ll |-> code.ll, at |-> code.at]
    PROVE  LET n == Node(type, code, mean)
           IN  /\ IsNode(n) /\ ~isLiteral(n) /\ n.kind # "range"
               /\ n.type = type /\ n.cast = None /\ n.code = code /\ n.mean = mean
  BY DEF Node, IsNode, isLiteral

(* A new literal: its code has its type. *)
LEMMA NewLiteral ==
    ASSUME NEW type \in Types \ {"BYTE"}, NEW val, NEW mean
    PROVE  LET n == Literal(val, type, mean)
           IN  /\ IsNode(n) /\ isLiteral(n) /\ n.kind # "range"
               /\ n.type = type /\ n.cast = None /\ n.val = val /\ n.mean = mean
               /\ n.code.ll = getLLVMType[type]
  <1>. DEFINE code == LiteralCode(val, type)
              n == Literal(val, type, mean)
  <1>1. code = [ll |-> code.ll, at |-> code.at] /\ code.ll = getLLVMType[type]
    BY DEF LiteralCode, IntegerLiteral, RealLiteral, Code
  <1>2. n = [kind |-> "literal", type |-> type, cast |-> None, val |-> val, code |-> code, mean |-> mean]
    BY DEF Literal
  <1>. HIDE DEF code, n
  <1>. QED  BY <1>1, <1>2 DEF IsNode, isLiteral, n

(* A node with another meaning, as folding keeps an operand *)
Kept(n, mean) == [n EXCEPT !.mean = mean]

(* All that changes is the meaning. *)
LEMMA KeptNode ==
    ASSUME NEW n, IsNode(n), NEW mean
    PROVE  LET k == Kept(n, mean)
           IN  /\ IsNode(k) /\ (isLiteral(k) <=> isLiteral(n)) /\ k.kind # "range"
               /\ k.type = n.type /\ k.cast = n.cast /\ k.val = n.val /\ k.code = n.code /\ k.mean = mean
  <1>. DEFINE k == Kept(n, mean)
  <1>1. k = [kind |-> n.kind, type |-> n.type, cast |-> n.cast, val |-> n.val, code |-> n.code, mean |-> mean]
    BY DEF IsNode, Kept
  <1>. HIDE DEF k
  <1>2. /\ k.kind = n.kind /\ k.type = n.type /\ k.cast = n.cast /\ k.val = n.val /\ k.code = n.code /\ k.mean = mean
    BY <1>1
  <1>3. (isLiteral(k) <=> isLiteral(n)) /\ k.kind # "range" /\ IsNode(k)
    BY <1>1, <1>2 DEF IsNode, isLiteral
  <1>. QED  BY <1>2, <1>3 DEF k

(* A node with another cast *)
LEMMA CastNode ==
    ASSUME NEW n, IsNode(n), NEW t
    PROVE  LET k == [n EXCEPT !.cast = t]
           IN  /\ IsNode(k) /\ (isLiteral(k) <=> isLiteral(n)) /\ k.kind # "range"
               /\ k.type = n.type /\ k.cast = t /\ k.val = n.val /\ k.code = n.code /\ k.mean = n.mean
  <1>. DEFINE k == [n EXCEPT !.cast = t]
  <1>1. k = [kind |-> n.kind, type |-> n.type, cast |-> t, val |-> n.val, code |-> n.code, mean |-> n.mean]
    BY DEF IsNode
  <1>. HIDE DEF k
  <1>2. /\ k.kind = n.kind /\ k.type = n.type /\ k.cast = t /\ k.val = n.val /\ k.code = n.code /\ k.mean = n.mean
    BY <1>1
  <1>3. (isLiteral(k) <=> isLiteral(n)) /\ k.kind # "range" /\ IsNode(k)
    BY <1>1, <1>2 DEF IsNode, isLiteral
  <1>. QED  BY <1>2, <1>3 DEF k

(* Code of operators has the form of code. *)
LEMMA CodeIsMade ==
    ASSUME NEW op, NEW type, NEW n, n.code = [ll |-> n.code.ll, at |-> n.code.at]
    PROVE  LET code == UnaryCode(op, type, n) IN code = [ll |-> code.ll, at |-> code.at]
  <1>1. Operand(n) = [ll |-> Operand(n).ll, at |-> Operand(n).at]
    BY DEF Operand, CastCode, Code, Invalid
  <1>. DEFINE x == Operand(n)
              code == UnaryCode(op, type, n)
  <1>2. \/ code = Invalid
        \/ \E at : code = [x EXCEPT !.at = at]
    BY DEF UnaryCode
  <1>. HIDE DEF x, code
  <1>3. CASE code = Invalid
    <2>1. Invalid = [ll |-> Invalid.ll, at |-> Invalid.at]
      BY DEF Invalid, Code
    <2>. QED  BY <1>3, <2>1 DEF code
  <1>4. ASSUME NEW at, code = [x EXCEPT !.at = at]
        PROVE  code = [ll |-> code.ll, at |-> code.at]
    <2>1. code = [ll |-> x.ll, at |-> at]
      BY <1>1, <1>4 DEF x
    <2>. QED  BY <2>1
  <1>. QED  BY <1>2, <1>3, <1>4 DEF code

(* Code of binary operators has it, too. *)
LEMMA BinaryCodeIsMade ==
    ASSUME NEW op, NEW l, NEW r, l.code = [ll |-> l.code.ll, at |-> l.code.at]
    PROVE  LET code == BinaryCode(op, l, r) IN code = [ll |-> code.ll, at |-> code.at]
  <1>1. Operand(l) = [ll |-> Operand(l).ll, at |-> Operand(l).at]
    BY DEF Operand, CastCode, Code, Invalid
  <1>2. IF op = "IN" /\ isLiteral(l)
        THEN [l.code EXCEPT !.ll = "i32"] = [ll |-> "i32", at |-> l.code.at] ELSE TRUE
    OBVIOUS
  <1>. DEFINE code == BinaryCode(op, l, r)
              x == IF op = "IN" /\ isLiteral(l) THEN [l.code EXCEPT !.ll = "i32"] ELSE Operand(l)
  <1>3. x = [ll |-> x.ll, at |-> x.at]
    BY <1>1, <1>2
  <1>4. \/ code = Invalid
        \/ \E ll, at : code = Code(ll, at)
        \/ code = x
    BY DEF BinaryCode, Apply, ShortCircuit
  <1>. HIDE DEF x, code
  <1>5. \A ll, at : Code(ll, at) = [ll |-> Code(ll, at).ll, at |-> Code(ll, at).at]
    BY DEF Code
  <1>6. Invalid = [ll |-> Invalid.ll, at |-> Invalid.at]
    BY DEF Invalid, Code
  <1>. QED  BY <1>3, <1>4, <1>5, <1>6 DEF code

-----------------------------------------------------------------------------
(* Integer constants *)

(* Quotients by a positive number do not grow. *)
LEMMA QuotientIsBounded ==
    ASSUME NEW a \in Int, NEW b \in Int, b > 0
    PROVE  /\ a \div b \in Int
           /\ a >= 0 => 0 <= a \div b /\ a \div b <= a
           /\ a < 0 => a <= a \div b /\ a \div b <= 0
  <1>. DEFINE q == a \div b
              m == a % b
  <1>1. q \in Int /\ m \in Int /\ 0 <= m /\ m < b /\ a = b * q + m
    OBVIOUS
  <1>. HIDE DEF q, m
  <1>2. ASSUME a >= 0, q < 0 PROVE FALSE
    <2>1. b * q <= -b
      BY <1>1, <1>2
    <2>. QED  BY <1>1, <1>2, <2>1
  <1>3. ASSUME a >= 0, q > a PROVE FALSE
    <2>1. b * q >= q
      BY <1>1, <1>3
    <2>. QED  BY <1>1, <1>3, <2>1
  <1>4. ASSUME a < 0, q > 0 PROVE FALSE
    <2>1. b * q >= b
      BY <1>1, <1>4
    <2>. QED  BY <1>1, <1>4, <2>1
  <1>5. ASSUME a < 0, q < a PROVE FALSE
    <2>1. b * q <= b * (a - 1)
      BY <1>1, <1>5
    <2>2. b * (a - 1) = b * a - b
      OBVIOUS
    <2>3. b * a <= a
      BY <1>5
    <2>. QED  BY <1>1, <1>5, <2>1, <2>2, <2>3
  <1>. QED  BY <1>1, <1>2, <1>3, <1>4, <1>5 DEF q

(* What DIV and MOD of constants yield fits in the type of the operands. *)
LEMMA DivisionFits ==
    ASSUME NEW t \in Integers, NEW a \in Values(t), NEW b \in Values(t), b > 0
    PROVE  /\ floor_div(a, b) = a \div b /\ a \div b \in Values(t)
           /\ euclidean_mod(a, b) = a % b /\ a % b \in Values(t)
  <1>. DEFINE w == Bits[t]
              H == 2 ^ (w - 1)
  <1>1. w \in Nat \ {0}
    BY Widths DEF Types, Numeric
  <1>2. H \in Nat \ {0} /\ Values(t) = -H .. H - 1
    BY <1>1, SignedRange, IntegerValues
  <1>. HIDE DEF H
  <1>3. a \in Int /\ b \in Int /\ -H <= a /\ a <= H - 1 /\ b <= H - 1
    BY <1>2
  <1>4. a \div b \in Int /\ -H <= a \div b /\ a \div b <= H - 1
    BY <1>2, <1>3, QuotientIsBounded
  <1>5. a % b \in Int /\ 0 <= a % b /\ a % b < b
    BY <1>3
  <1>6. floor_div(a, b) = a \div b /\ euclidean_mod(a, b) = a % b
    BY <1>3, ConstantDivision
  <1>. QED  BY <1>2, <1>3, <1>4, <1>5, <1>6

(* Integers that fit in 64 bits are folded to themselves. *)
LEMMA Int64Fits ==
    ASSUME NEW e \in Values("LONGINT")
    PROVE  Int64(e) = e /\ e \in Values(intType(e))
  <1>1. "LONGINT" \in Integers
    BY DEF Integers
  <1>2. e \in Signed(Bits["LONGINT"]) /\ e \in Int
    BY <1>1, IntegerValues
  <1>3. Int64(e) = e
    BY <1>2, Widths, WrapFits DEF Int64
  <1>. QED  BY <1>1, <1>3, SmallestIsIncluded

(* What is to be shown of a new node *)
LEMMA MadeExpression ==
    ASSUME NEW n, IsNode(n), isLiteral(n) => n.cast = None, n.mean.limits = {} => n.cast \in {None, n.type},
           n.mean.limits = {} => n.code.ll = getLLVMType[n.type] /\ Includes(n.type, n.mean.type) /\ Folded(n)
    PROVE  IsExpression(n)
  BY DEF IsExpression, IsTyped

-----------------------------------------------------------------------------
(* Unary operators *)

(* The type of what the operator applies to *)
IsTypedUnary(op, type) == IF op = "~" THEN type = "BOOLEAN" ELSE type \in Numeric \cup {"SET"}

(* Departures are kept, and operands of the wrong type are departures. *)
LEMMA UnaryLimits ==
    ASSUME NEW op, NEW n, UnaryMean(op, n).limits = {}
    PROVE  n.mean.limits = {} /\ IsTypedUnary(op, n.mean.type)
  <1>1. n.mean.limits \cup (IF IsTypedUnary(op, n.mean.type) THEN {} ELSE {"unary type"}) \subseteq UnaryMean(op, n).limits
    BY DEF UnaryMean, Mean, IsTypedUnary
  <1>. QED  BY <1>1

(* The operand and the result are constants, or neither is. *)
LEMMA UnaryConst ==
    ASSUME NEW op, NEW n
    PROVE  UnaryMean(op, n).const <=> n.mean.const
  BY DEF UnaryMean, Mean

(* Only the type of an integer constant changes. *)
LEMMA UnaryType ==
    ASSUME NEW op, NEW n, ~n.mean.const \/ n.mean.type \notin Integers
    PROVE  UnaryMean(op, n).type = n.mean.type
  BY DEF UnaryMean, Mean

(* A negative constant has the smallest type, and one that exists. *)
LEMMA UnaryConstant ==
    ASSUME NEW n, n.mean.const, n.mean.type \in Integers,
           NEW a \in Int, \A m \in DOMAIN Memories : n.mean.at[m].v = a,
           NEW mean, mean = UnaryMean("-", n), mean.limits = {}
    PROVE  /\ mean.type = intType(-a)
           /\ -a \in Values("LONGINT")
           /\ \A m \in DOMAIN Memories : mean.at[m].v = -a
  <1>. DEFINE x == n.mean
              value(v) == IF v = Undef \/ ~(x.type \in Numeric \cup {"SET"}) THEN Undef
                          ELSE IF x.type = "SET" THEN Word \ v ELSE -v
              at == [m \in DOMAIN Memories |->
                       [v |-> LET v == value(x.at[m].v)
                              IN  IF x.const \/ ~(x.type \in Numeric \cup {"SET"}) THEN v ELSE Fit(v, x.type),
                        calls |-> x.at[m].calls]]
              type == SmallestInteger(at[1].v)
              over == Overflow(type, x.const, at[1].v)
  <1>1. x.type \in Numeric /\ x.type # "SET" /\ a # Undef
    BY UndefAssumption DEF Numeric, Integers
  <1>2. 1 \in DOMAIN Memories
    BY ExpressionsAssumption
  <1>3. mean = Mean(type, x.const, at, x.limits \cup {} \cup over)
    <2>1. mean = UnaryMean("-", n)
      OBVIOUS
    <2>. QED  BY <1>1, <2>1 DEF UnaryMean
  <1>4. value(a) = -a
    BY <1>1
  <1>5. \A m \in DOMAIN Memories : at[m].v = -a
    BY <1>4
  <1>6. at[1].v = -a
    BY <1>2, <1>5
  <1>. HIDE DEF at, value
  <1>7. mean.type = type /\ mean.at = at /\ over = {}
    <2>. HIDE DEF over, type
    <2>. QED  BY <1>3 DEF Mean
  <1>8. type = intType(-a) /\ type \in Integers
    BY <1>6, SmallestIsIntType
  <1>9. Fit(-a, "LONGINT") # Undef
    <2>. HIDE DEF type
    <2>. QED  BY <1>6, <1>7, <1>8 DEF Overflow, over
  <1>10. "LONGINT" \notin RealTypes
    BY DEF RealTypes
  <1>11. -a \in Values("LONGINT")
    BY <1>9, <1>10 DEF Fit
  <1>. QED  BY <1>5, <1>7, <1>8, <1>11

(* Negation and complement do not change the type of code. *)
LEMMA UnaryInstruction ==
    ASSUME NEW op \in {"-", "~"}, NEW n, n.type \in Types, n.code = [ll |-> n.code.ll, at |-> n.code.at],
           n.code.ll = getLLVMType[n.type], n.cast \in {None, n.type}, IsTypedUnary(op, n.type)
    PROVE  UnaryCode(op, n.type, n).ll = getLLVMType[n.type]
  <1>. DEFINE lls == IF n.type = "SET" THEN {"i32"}
                     ELSE IF op = "-" /\ n.type \in RealTypes THEN Floats ELSE Ints \cup {"i1"}
              x == Operand(n)
  <1>1. x = n.code
    BY NoCast DEF Operand
  <1>2. x.ll \in lls
    BY <1>1, LLVMTypes DEF IsTypedUnary, Floats, Ints, Numeric, Integers, RealTypes
  <1>3. \E at : UnaryCode(op, n.type, n) = [x EXCEPT !.at = at]
    <2>. HIDE DEF x
    <2>. QED  BY <1>2 DEF UnaryCode, x
  <1>4. PICK at : UnaryCode(op, n.type, n) = [x EXCEPT !.at = at]
    BY <1>3
  <1>5. [x EXCEPT !.at = at] = [ll |-> x.ll, at |-> at]
    BY <1>1
  <1>. QED  BY <1>1, <1>4, <1>5

(* A literal that a unary operator is folded to *)
LEMMA UnaryFolded ==
    ASSUME NEW op \in {"-", "~"}, NEW n, IsExpression(n), ~FoldUnaryError(op, n),
           NEW mean, mean = UnaryMean(op, n), NEW k \in foldUnary(op, n, mean)
    PROVE  IsExpression(k) /\ k.kind # "range"
  <1>1. isLiteral(n) /\ n.cast = None /\ n.type \in Types \ {"BYTE"} /\ IsNode(n)
    BY DEF foldUnary, IsExpression, IsTyped, IsNode
  <1>2. ASSUME mean.limits = {}
        PROVE  /\ n.mean.limits = {} /\ IsTypedUnary(op, n.mean.type) /\ Includes(n.type, n.mean.type)
               /\ Folded(n) /\ n.mean.const /\ mean.const
    <2>1. n.mean.limits = {} /\ IsTypedUnary(op, n.mean.type)
      BY <1>2, UnaryLimits
    <2>2. Includes(n.type, n.mean.type) /\ Folded(n)
      BY <2>1 DEF IsExpression, IsTyped
    <2>3. n.mean.const
      BY <1>1, <2>2 DEF Folded
    <2>4. mean.const
      BY <2>3, UnaryConst
    <2>. QED  BY <2>1, <2>2, <2>3, <2>4
  <1>3. ASSUME NEW type \in Types \ {"BYTE"}, type \notin Integers, type = n.type, NEW val,
               k = [Literal(val, type, mean) EXCEPT !.cast = n.cast]
        PROVE  IsExpression(k) /\ k.kind # "range"
    <2>. DEFINE new == Literal(val, type, mean)
    <2>1. /\ IsNode(new) /\ isLiteral(new) /\ new.type = type /\ new.mean = mean
          /\ new.code.ll = getLLVMType[type]
      BY NewLiteral
    <2>. HIDE DEF new
    <2>2. k = [new EXCEPT !.cast = None]
      BY <1>1, <1>3 DEF new
    <2>3. /\ IsNode(k) /\ isLiteral(k) /\ k.kind # "range" /\ k.type = type /\ k.cast = None
          /\ k.code.ll = getLLVMType[type] /\ k.mean = mean
      BY <2>1, <2>2, CastNode
    <2>4. ASSUME mean.limits = {} PROVE Includes(type, mean.type)
      <3>1. n.mean.type \notin Integers
        BY <1>2, <1>3, <2>4, <1>1 DEF Includes, Numeric, Integers, RealTypes
      <3>2. mean.type = n.mean.type
        BY <3>1, UnaryType
      <3>. QED  BY <1>2, <1>3, <2>4, <3>2
    <2>5. mean.limits = {} => mean.const
      BY <1>2
    <2>6. mean.limits = {} => Folded(k)
      BY <1>3, <2>3, <2>5 DEF Folded
    <2>. QED  BY <2>3, <2>4, <2>6, MadeExpression
  <1>4. CASE n.type \in Integers
    <2>. DEFINE e == Int64(-n.val)
                new == Literal(e, intType(e), mean)
    <2>1. op = "-"
      BY <1>1, <1>4 DEF FoldUnaryError
    <2>2. k = [new EXCEPT !.cast = None]
      BY <1>1, <1>4 DEF foldUnary, NewInteger, Integers, RealTypes
    <2>3. intType(e) \in Types \ {"BYTE"}
      <3>. HIDE DEF e
      <3>. QED  BY SmallestIsIntType DEF Types, Numeric, Integers
    <2>4. /\ IsNode(new) /\ isLiteral(new) /\ new.type = intType(e) /\ new.mean = mean
          /\ new.val = e /\ new.code.ll = getLLVMType[intType(e)]
      <3>. HIDE DEF e
      <3>. QED  BY <2>3, NewLiteral
    <2>. HIDE DEF new
    <2>5. /\ IsNode(k) /\ isLiteral(k) /\ k.kind # "range" /\ k.type = intType(e) /\ k.cast = None
          /\ k.val = e /\ k.code.ll = getLLVMType[intType(e)] /\ k.mean = mean
      <3>. HIDE DEF e
      <3>. QED  BY <2>2, <2>4, CastNode
    <2>6. ASSUME mean.limits = {} PROVE Includes(k.type, mean.type) /\ Folded(k)
      <3>. DEFINE a == n.val
      <3>1. n.mean.type \in Integers /\ a \in Values(n.type) /\ \A m \in DOMAIN Memories : n.mean.at[m].v = a
        BY <1>1, <1>2, <1>4, <2>6 DEF Folded
      <3>2. a \in Int
        BY <1>4, <3>1, IntegerValues
      <3>3. n.mean.const
        BY <1>2, <2>6
      <3>. HIDE DEF a
      <3>4. /\ mean.type = intType(-a) /\ -a \in Values("LONGINT")
            /\ \A m \in DOMAIN Memories : mean.at[m].v = -a
        BY <2>1, <2>6, <3>1, <3>2, <3>3, UnaryConstant
      <3>5. Int64(-a) = -a /\ -a \in Values(intType(-a))
        BY <3>4, Int64Fits
      <3>6. e = -a
        BY <3>5 DEF a
      <3>7. Includes(k.type, mean.type)
        BY <2>5, <3>4, <3>6 DEF Includes
      <3>8. mean.const
        BY <1>2, <2>6
      <3>9. mean.type \in Integers
        BY <3>4, SmallestIsIntType
      <3>. HIDE DEF e
      <3>10. Folded(k)
        BY <2>5, <3>4, <3>5, <3>6, <3>8, <3>9 DEF Folded
      <3>. QED  BY <3>7, <3>10
    <2>. QED  BY <2>5, <2>6, MadeExpression
  <1>5. CASE n.type \notin Integers
    <2>1. n.type # "CHAR"
      BY <1>5 DEF foldUnary, Integers, RealTypes
    <2>2. n.type = "BOOLEAN" \/ n.type \in RealTypes \/ n.type = "SET"
      BY <1>1, <1>5, <2>1 DEF Types, Numeric
    <2>3. \E val : k = [Literal(val, n.type, mean) EXCEPT !.cast = n.cast]
      BY <1>1, <1>5, <2>2 DEF foldUnary, Integers, RealTypes
    <2>. QED  BY <1>1, <1>3, <1>5, <2>3
  <1>. QED  BY <1>4, <1>5

(* A node of a unary operator that is not folded *)
LEMMA UnaryNode ==
    ASSUME NEW op \in {"-", "~"}, NEW n, IsExpression(n),
           NEW mean, mean = UnaryMean(op, n), foldUnary(op, n, mean) = {}
    PROVE  LET k == Node(n.type, UnaryCode(op, n.type, n), mean)
           IN  IsExpression(k) /\ k.kind # "range"
  <1>. DEFINE code == UnaryCode(op, n.type, n)
              k == Node(n.type, code, mean)
  <1>1. n.type \in Types /\ n.code = [ll |-> n.code.ll, at |-> n.code.at]
    BY DEF IsExpression, IsTyped, IsNode
  <1>2. code = [ll |-> code.ll, at |-> code.at]
    BY <1>1, CodeIsMade
  <1>3. /\ IsNode(k) /\ ~isLiteral(k) /\ k.kind # "range"
        /\ k.type = n.type /\ k.cast = None /\ k.code = code /\ k.mean = mean
    <2>. HIDE DEF code
    <2>. QED  BY <1>1, <1>2, NewNode
  <1>4. ASSUME mean.limits = {}
        PROVE  code.ll = getLLVMType[n.type] /\ Includes(n.type, mean.type) /\ ~mean.const
    <2>1. n.mean.limits = {} /\ IsTypedUnary(op, n.mean.type)
      BY <1>4, UnaryLimits
    <2>2. /\ n.code.ll = getLLVMType[n.type] /\ Includes(n.type, n.mean.type) /\ Folded(n)
          /\ n.cast \in {None, n.type}
      BY <2>1 DEF IsExpression, IsTyped
    <2>3. IsTypedUnary(op, n.type)
      BY <1>1, <2>1, <2>2 DEF IsTypedUnary, Includes, Numeric, Integers, RealTypes
    <2>4. code.ll = getLLVMType[n.type]
      BY <1>1, <2>2, <2>3, UnaryInstruction
    <2>5. ~isLiteral(n)
      <3>1. ASSUME isLiteral(n) PROVE FALSE
        <4>1. n.type \in Types \ {"BYTE"}
          BY <3>1 DEF IsExpression, IsTyped, IsNode
        <4>2. n.type = "BOOLEAN" \/ n.type \in Integers \/ n.type \in RealTypes \/ n.type = "SET"
          BY <2>3, <4>1 DEF IsTypedUnary, Types, Numeric
        <4>. QED  BY <3>1, <4>2 DEF foldUnary, Integers, RealTypes
      <3>. QED  BY <3>1
    <2>6. ~n.mean.const
      BY <2>2, <2>5 DEF Folded
    <2>7. mean.type = n.mean.type /\ ~mean.const
      BY <2>6, UnaryType, UnaryConst
    <2>. QED  BY <2>2, <2>4, <2>7
  <1>. HIDE DEF k
  <1>5. mean.limits = {} => Folded(k)
    BY <1>3, <1>4 DEF Folded
  <1>6. IsExpression(k)
    <2>. HIDE DEF code
    <2>. QED  BY <1>3, <1>4, <1>5, MadeExpression
  <1>. QED  BY <1>3, <1>6 DEF k

-----------------------------------------------------------------------------
(* Binary operators *)

(* An operator and operands that Sema accepts *)
Accepted(op, l, r, typing) ==
    IsExpression(l) /\ IsExpression(r) /\ typing = Typing(op, l.type, r.type) /\ typing.result # None

(* Every result is a type. *)
LEMMA ResultIsType ==
    ASSUME NEW op, NEW l, NEW r, NEW typing, Accepted(op, l, r, typing)
    PROVE  typing.result \in Types
  <1>. DEFINE s == l.type  t == r.type  c == typing.common  result == typing.result
  <1>1. s \in Types /\ t \in Types
    BY DEF Accepted, IsExpression, IsTyped, IsNode
  <1>2. CASE OfBooleans(op, s, t, c, result) \/ OfSets(op, s, t, c, result) \/ CharRelation(op, s, t, c, result)
               \/ Relation(op, s, t, c, result)
    BY <1>2 DEF OfBooleans, Equality, Logic, OfSets, SetRelation, SetOperation, Membership, CharRelation, Relation, Types
  <1>3. CASE Operation(op, s, t, c, result) \/ WholeDivision(op, s, t, c, result) \/ Division(op, s, t, c, result)
    <2>1. s \in Numeric /\ t \in Numeric /\ (result = Larger(s, t) \/ result = "REAL")
      BY <1>3 DEF Operation, WholeDivision, Division, Numeric
    <2>. QED  BY <2>1, CommonIsLarger DEF Types, Numeric, RealTypes
  <1>. QED  BY <1>1, <1>2, <1>3, TypingCases DEF Accepted, OfNumbers

(* What holds of the operands and of the meaning without a departure *)
LEMMA BinaryFacts ==
    ASSUME NEW op, NEW l, NEW r, NEW typing, Accepted(op, l, r, typing),
           NEW mean, mean = BinaryMean(op, l, r, typing), mean.limits = {}
    PROVE  /\ l.mean.limits = {} /\ r.mean.limits = {} /\ Departures(op, l, r, typing.common) = {}
           /\ \A n \in {l, r} : /\ n.code.ll = getLLVMType[n.type] /\ n.cast \in {None, n.type}
                              /\ Includes(n.type, n.mean.type) /\ Folded(n)
           /\ mean.const <=> isLiteral(l) /\ isLiteral(r)
           /\ typing.result \notin Integers \/ ~isLiteral(l) \/ ~isLiteral(r) => Includes(typing.result, mean.type)
  <1>. DEFINE result == typing.result
              type == OperandType(op, l.mean.type, r.mean.type)
  <1>1. l.mean.limits = {} /\ r.mean.limits = {} /\ Departures(op, l, r, typing.common) = {}
    BY BinaryLimits
  <1>2. \A n \in {l, r} : /\ n.code.ll = getLLVMType[n.type] /\ n.cast \in {None, n.type}
                        /\ Includes(n.type, n.mean.type) /\ Folded(n)
    BY <1>1 DEF Accepted, IsExpression, IsTyped
  <1>3. (isLiteral(l) <=> l.mean.const) /\ (isLiteral(r) <=> r.mean.const)
    BY <1>2 DEF Folded
  <1>4. mean.const <=> isLiteral(l) /\ isLiteral(r)
    BY <1>3, BinaryConst
  <1>5. ASSUME result \notin Integers \/ ~isLiteral(l) \/ ~isLiteral(r) PROVE Includes(result, mean.type)
    <2>1. l.type \in Types /\ r.type \in Types /\ typing = Typing(op, l.type, r.type) /\ result # None
      BY DEF Accepted, IsExpression, IsTyped, IsNode
    <2>2. IF result = "BOOLEAN" THEN TRUE ELSE Includes(result, type)
      <3>. HIDE DEF type, result
      <3>. QED  BY <1>1, <1>2, <2>1, ResultIncludes DEF type, result
    <2>3. result = "BOOLEAN" \/ ~(l.mean.const /\ r.mean.const) \/ type \notin Integers
      <3>1. result \notin Integers /\ result # "BOOLEAN" => type \notin Integers
        <4>. HIDE DEF type, result
        <4>. QED  BY <2>2, Ranks DEF Includes, Numeric, Integers, RealTypes
      <3>. HIDE DEF type, result
      <3>. QED  BY <1>3, <1>5, <3>1
    <2>4. mean.type = IF result = "BOOLEAN" THEN "BOOLEAN" ELSE type
      BY <2>3, BinaryType
    <2>. HIDE DEF type, result
    <2>. QED  BY <2>2, <2>4 DEF Includes
  <1>. QED  BY <1>1, <1>2, <1>4, <1>5

(* Constants that are no integers are folded to a literal of the result. *)
LEMMA FoldedLiteral ==
    ASSUME NEW op, NEW l, NEW r, NEW typing, Accepted(op, l, r, typing), isLiteral(l), isLiteral(r),
           NEW mean, mean = BinaryMean(op, l, r, typing), typing.result \notin Integers \cup {"BYTE"}, NEW val
    PROVE  LET k == Literal(val, typing.result, mean) IN IsExpression(k) /\ k.kind # "range"
  <1>. DEFINE result == typing.result
              k == Literal(val, result, mean)
  <1>1. result \in Types \ {"BYTE"}
    BY ResultIsType
  <1>2. /\ IsNode(k) /\ isLiteral(k) /\ k.kind # "range" /\ k.type = result /\ k.cast = None
        /\ k.val = val /\ k.mean = mean /\ k.code.ll = getLLVMType[result]
    <2>. HIDE DEF result
    <2>. QED  BY <1>1, NewLiteral
  <1>. HIDE DEF k
  <1>3. mean.limits = {} => mean.const /\ Includes(result, mean.type)
    BY BinaryFacts
  <1>4. mean.limits = {} => Folded(k)
    BY <1>2, <1>3 DEF Folded
  <1>. QED  BY <1>2, <1>3, <1>4, MadeExpression DEF k

(* An operand is kept if it is of the type of the result. *)
LEMMA FoldedOperand ==
    ASSUME NEW op, NEW l, NEW r, NEW typing, Accepted(op, l, r, typing),
           NEW mean, mean = BinaryMean(op, l, r, typing), NEW n \in {l, r}, ~isLiteral(n),
           mean.limits = {} => n.type = typing.result, NEW k, k = Kept(n, mean)
    PROVE  IsExpression(k) /\ k.kind # "range"
  <1>1. IsNode(n)
    BY DEF Accepted, IsExpression, IsTyped
  <1>2. /\ IsNode(k) /\ ~isLiteral(k) /\ k.kind # "range" /\ k.type = n.type /\ k.cast = n.cast
        /\ k.code = n.code /\ k.mean = mean
    BY <1>1, KeptNode
  <1>3. mean.limits = {} => /\ ~mean.const /\ Includes(n.type, mean.type)
                            /\ n.code.ll = getLLVMType[n.type] /\ n.cast \in {None, n.type}
    BY BinaryFacts
  <1>4. mean.limits = {} => Folded(k)
    BY <1>2, <1>3 DEF Folded
  <1>. QED  BY <1>2, <1>3, <1>4, MadeExpression

(* The exact value of an operator on integers *)
LEMMA MeaningOfIntegers ==
    ASSUME NEW type \in Integers, NEW a \in Int, NEW b \in Int
    PROVE  /\ Meaning("+", type, a, b) = a + b
           /\ Meaning("-", type, a, b) = a - b
           /\ Meaning("*", type, a, b) = a * b
           /\ b > 0 => Meaning("DIV", type, a, b) = a \div b /\ Meaning("MOD", type, a, b) = a % b
  <1>1. a # Undef /\ b # Undef /\ type # "SET"
    BY UndefAssumption DEF Integers
  <1>. QED  BY <1>1 DEF Meaning, Relations

(* Types that include each other have their values. *)
LEMMA ValuesAreIncluded ==
    ASSUME NEW s \in Integers, NEW t \in Integers, Rank(s) <= Rank(t)
    PROVE  Values(s) \subseteq Values(t)
  BY IntegerValues, Ranks DEF Integers

(* Constant operands of an operator with an integer result *)
LEMMA IntegerOperands ==
    ASSUME NEW op, NEW l, NEW r, NEW typing, Accepted(op, l, r, typing), isLiteral(l), isLiteral(r),
           NEW mean, mean = BinaryMean(op, l, r, typing), mean.limits = {}, typing.result \in Integers
    PROVE  /\ op \in {"+", "-", "*", "DIV", "MOD"} /\ typing.result # "BOOLEAN"
           /\ l.val \in Values(typing.result) /\ r.val \in Values(typing.result)
           /\ l.mean.const /\ r.mean.const /\ OperandType(op, l.mean.type, r.mean.type) \in Integers
           /\ \A m \in DOMAIN Memories : l.mean.at[m].v = l.val /\ r.mean.at[m].v = r.val
  <1>. DEFINE s == l.type  t == r.type  c == typing.common  result == typing.result
  <1>1. s \in Types \ {"BYTE"} /\ t \in Types \ {"BYTE"}
    BY DEF Accepted, IsExpression, IsTyped, IsNode
  <1>2. ~OfBooleans(op, s, t, c, result) /\ ~OfSets(op, s, t, c, result) /\ ~CharRelation(op, s, t, c, result)
        /\ ~Relation(op, s, t, c, result)
    BY DEF OfBooleans, Equality, Logic, OfSets, SetRelation, SetOperation, Membership, CharRelation, Relation, Integers
  <1>3. ~Division(op, s, t, c, result)
    BY DEF Division, Integers
  <1>4. Operation(op, s, t, c, result) \/ WholeDivision(op, s, t, c, result)
    BY <1>1, <1>2, <1>3, TypingCases DEF Accepted, OfNumbers
  <1>5. /\ op \in {"+", "-", "*", "DIV", "MOD"} /\ result # "BOOLEAN"
        /\ s \in Numeric /\ t \in Numeric /\ result = Larger(s, t)
    BY <1>4 DEF Operation, WholeDivision, Numeric, Integers
  <1>6. s \in Integers /\ t \in Integers
    <2>1. result \notin RealTypes
      BY DEF Integers, RealTypes
    <2>2. s \notin RealTypes /\ t \notin RealTypes
      BY <1>5, <2>1, CommonIsLarger
    <2>. QED  BY <1>1, <1>5, <2>2 DEF Numeric
  <1>7. Rank(s) <= Rank(result) /\ Rank(t) <= Rank(result)
    BY <1>5, CommonIsLarger
  <1>8. Folded(l) /\ Folded(r)
    BY BinaryFacts
  <1>9. /\ l.val \in Values(s) /\ r.val \in Values(t)
        /\ l.mean.type \in Integers /\ r.mean.type \in Integers
        /\ \A m \in DOMAIN Memories : l.mean.at[m].v = l.val /\ r.mean.at[m].v = r.val
    BY <1>6, <1>8 DEF Folded
  <1>10. l.mean.const /\ r.mean.const
    BY <1>8 DEF Folded
  <1>11. l.val \in Values(result) /\ r.val \in Values(result)
    BY <1>6, <1>7, <1>9, ValuesAreIncluded
  <1>12. OperandType(op, l.mean.type, r.mean.type) \in Integers
    <2>1. op # "/"
      BY <1>5
    <2>2. Larger(l.mean.type, r.mean.type) \in {l.mean.type, r.mean.type}
      BY <1>9, CommonIsLarger DEF Numeric
    <2>. QED  BY <1>9, <2>1, <2>2 DEF OperandType
  <1>. QED  BY <1>5, <1>9, <1>10, <1>11, <1>12

(* A sum, difference or product of integer constants has the smallest type. *)
LEMMA FoldedInteger ==
    ASSUME NEW op, NEW l, NEW r, NEW typing, Accepted(op, l, r, typing), isLiteral(l), isLiteral(r),
           NEW mean, mean = BinaryMean(op, l, r, typing), typing.result \in Integers, NEW value,
           mean.limits = {} => value = Meaning(op, OperandType(op, l.mean.type, r.mean.type), l.val, r.val)
    PROVE  LET k == NewInteger(value, mean) IN IsExpression(k) /\ k.kind # "range"
  <1>. DEFINE e == Int64(value)
              k == NewInteger(value, mean)
  <1>1. intType(e) \in Types \ {"BYTE"}
    <2>. HIDE DEF e
    <2>. QED  BY SmallestIsIntType DEF Types, Numeric, Integers
  <1>2. /\ IsNode(k) /\ isLiteral(k) /\ k.kind # "range" /\ k.type = intType(e) /\ k.cast = None
        /\ k.val = e /\ k.mean = mean /\ k.code.ll = getLLVMType[intType(e)]
    <2>1. k = Literal(e, intType(e), mean)
      BY DEF NewInteger
    <2>. HIDE DEF e, k
    <2>. QED  BY <1>1, <2>1, NewLiteral
  <1>. HIDE DEF k
  <1>3. ASSUME mean.limits = {} PROVE Includes(k.type, mean.type) /\ Folded(k)
    <2>. DEFINE type == OperandType(op, l.mean.type, r.mean.type)
                a == l.val
                b == r.val
    <2>1. /\ op \in {"+", "-", "*", "DIV", "MOD"} /\ typing.result # "BOOLEAN"
          /\ l.mean.const /\ r.mean.const /\ type \in Integers
          /\ \A m \in DOMAIN Memories : l.mean.at[m].v = a /\ r.mean.at[m].v = b
      BY <1>3, IntegerOperands
    <2>2. value = Meaning(op, type, a, b) /\ type = OperandType(op, l.mean.type, r.mean.type)
      BY <1>3
    <2>. HIDE DEF type, a, b
    <2>3. /\ mean.type = intType(value) /\ value \in Values("LONGINT")
          /\ \A m \in DOMAIN Memories : mean.at[m].v = value
      BY <1>3, <2>1, <2>2, BinaryConstant DEF type, a, b
    <2>4. e = value /\ e \in Values(intType(e))
      BY <2>3, Int64Fits
    <2>5. mean.const
      BY <1>3, BinaryFacts
    <2>6. mean.type = intType(e) /\ mean.type \in Integers
      BY <2>3, <2>4, SmallestIsIntType
    <2>. HIDE DEF e
    <2>. QED  BY <1>2, <2>3, <2>4, <2>5, <2>6 DEF Folded, Includes
  <1>4. mean.limits = {} => k.cast \in {None, k.type} /\ k.code.ll = getLLVMType[k.type]
    BY <1>2
  <1>5. IsExpression(k)
    <2>. HIDE DEF e
    <2>. QED  BY <1>2, <1>3, <1>4, MadeExpression
  <1>. QED  BY <1>2, <1>5 DEF k

(* A quotient or remainder of integer constants is of the common type. *)
LEMMA FoldedQuotient ==
    ASSUME NEW op \in {"DIV", "MOD"}, NEW l, NEW r, NEW typing, Accepted(op, l, r, typing), isLiteral(l), isLiteral(r),
           NEW mean, mean = BinaryMean(op, l, r, typing), typing.result \in Integers, ~FoldError(op, l, r)
    PROVE  LET val == IF r.val = 1 THEN l.val
                      ELSE IF op = "DIV" THEN floor_div(l.val, r.val) ELSE euclidean_mod(l.val, r.val)
               k == Literal(val, typing.result, mean)
           IN  IsExpression(k) /\ k.kind # "range"
  <1>. DEFINE a == l.val
              b == r.val
              result == typing.result
              val == IF b = 1 THEN a ELSE IF op = "DIV" THEN floor_div(a, b) ELSE euclidean_mod(a, b)
              k == Literal(val, result, mean)
  <1>1. result \in Types \ {"BYTE"}
    BY DEF Types, Numeric, Integers
  <1>2. /\ IsNode(k) /\ isLiteral(k) /\ k.kind # "range" /\ k.type = result /\ k.cast = None
        /\ k.val = val /\ k.mean = mean /\ k.code.ll = getLLVMType[result]
    <2>. HIDE DEF val, result
    <2>. QED  BY <1>1, NewLiteral
  <1>. HIDE DEF k
  <1>3. ASSUME mean.limits = {} PROVE Includes(result, mean.type) /\ Folded(k)
    <2>. DEFINE type == OperandType(op, l.mean.type, r.mean.type)
                e == Meaning(op, type, a, b)
    <2>1. /\ result # "BOOLEAN" /\ a \in Values(result) /\ b \in Values(result)
          /\ l.mean.const /\ r.mean.const /\ type \in Integers
          /\ \A m \in DOMAIN Memories : l.mean.at[m].v = a /\ r.mean.at[m].v = b
      BY <1>3, IntegerOperands
    <2>2. a \in Int /\ b \in Int
      BY <2>1, IntegerValues
    <2>3. b > 0 /\ type = OperandType(op, l.mean.type, r.mean.type)
      BY <2>2 DEF FoldError
    <2>. HIDE DEF type, a, b
    <2>4. e = IF op = "DIV" THEN a \div b ELSE a % b
      BY <2>1, <2>2, <2>3, MeaningOfIntegers
    <2>5. ~(op = "MOD" /\ b = 1)
      <3>1. ~(op = "MOD" /\ IsLiteral(r, 1))
        BY <1>3, BinaryFacts, NoDepartures
      <3>. QED  BY <3>1 DEF IsLiteral, b
    <2>6. /\ floor_div(a, b) = a \div b /\ a \div b \in Values(result)
          /\ euclidean_mod(a, b) = a % b /\ a % b \in Values(result)
      BY <2>1, <2>3, DivisionFits
    <2>7. b = 1 => a \div b = a
      BY <2>2
    <2>8. val = e /\ e \in Values(result)
      BY <2>4, <2>5, <2>6, <2>7
    <2>. HIDE DEF e, val
    <2>9. /\ mean.type = intType(e) /\ \A m \in DOMAIN Memories : mean.at[m].v = e
      BY <1>3, <2>1, <2>3, BinaryConstant DEF e, type, a, b
    <2>10. Includes(result, intType(e)) /\ intType(e) \in Integers
      BY <2>8, SmallestIsIncluded, SmallestIsIntType
    <2>11. mean.const
      BY <1>3, BinaryFacts
    <2>. HIDE DEF result
    <2>. QED  BY <1>2, <2>8, <2>9, <2>10, <2>11 DEF Folded
  <1>4. IsExpression(k)
    <2>. HIDE DEF val, result
    <2>. QED  BY <1>2, <1>3, MadeExpression
  <1>. QED  BY <1>2, <1>4 DEF k

(* Operators that yield numbers *)
LEMMA NumberResult ==
    ASSUME NEW op, NEW l, NEW r, NEW typing, Accepted(op, l, r, typing), typing.result \in Numeric
    PROVE  /\ typing.common = typing.result /\ OnNumbers(op, l, r) /\ op \notin Relations
           /\ {l.type, r.type} # {"BOOLEAN"}
           /\ op \in {"DIV", "MOD"} \/ op = "/" \/ op \in {"+", "-", "*"}
           /\ op = "/" => typing.result \notin Integers
  <1>. DEFINE s == l.type  t == r.type  c == typing.common  result == typing.result
  <1>1. s \in Types /\ t \in Types
    BY DEF Accepted, IsExpression, IsTyped, IsNode
  <1>2. ~OfBooleans(op, s, t, c, result) /\ ~OfSets(op, s, t, c, result) /\ ~CharRelation(op, s, t, c, result)
        /\ ~Relation(op, s, t, c, result)
    BY DEF OfBooleans, Equality, Logic, OfSets, SetRelation, SetOperation, Membership, CharRelation, Relation,
           Numeric, Integers, RealTypes
  <1>3. Operation(op, s, t, c, result) \/ WholeDivision(op, s, t, c, result) \/ Division(op, s, t, c, result)
    BY <1>1, <1>2, TypingCases DEF Accepted, OfNumbers
  <1>4. /\ s \in Numeric /\ t \in Numeric /\ c = result
        /\ op \in {"DIV", "MOD"} \/ op = "/" \/ op \in {"+", "-", "*"}
    BY <1>3 DEF Operation, WholeDivision, Division, Numeric
  <1>5. "SET" \notin {s, t} /\ {s, t} # {"BOOLEAN"}
    BY <1>4 DEF Numeric, Integers, RealTypes
  <1>6. op = "/" => result \notin Integers
    BY <1>3 DEF Operation, WholeDivision, Division, Integers
  <1>. QED  BY <1>4, <1>5, <1>6 DEF OnNumbers, Relations

(* Zero minus an operand of the type of the result *)
LEMMA FoldedNegation ==
    ASSUME NEW l, NEW r, NEW typing, Accepted("-", l, r, typing), typing.result \in Numeric,
           IsLiteral(l, 0), ~isLiteral(r), NEW mean, mean = BinaryMean("-", l, r, typing)
    PROVE  LET k == Node(typing.result, UnaryCode("-", typing.result, r), mean)
           IN  IsExpression(k) /\ k.kind # "range"
  <1>. DEFINE result == typing.result
              code == UnaryCode("-", result, r)
              k == Node(result, code, mean)
  <1>1. r.type \in Types /\ r.code = [ll |-> r.code.ll, at |-> r.code.at]
    BY DEF Accepted, IsExpression, IsTyped, IsNode
  <1>2. code = [ll |-> code.ll, at |-> code.at] /\ result \in Types
    BY <1>1, CodeIsMade DEF Types
  <1>3. /\ IsNode(k) /\ ~isLiteral(k) /\ k.kind # "range"
        /\ k.type = result /\ k.cast = None /\ k.code = code /\ k.mean = mean
    <2>. HIDE DEF code, result
    <2>. QED  BY <1>1, <1>2, NewNode
  <1>. HIDE DEF k
  <1>4. ASSUME mean.limits = {}
        PROVE  code.ll = getLLVMType[result] /\ Includes(result, mean.type) /\ ~mean.const
    <2>1. ~IsLost(l, r, typing.common)
      <3>1. WithLiteral(l, r, 0) /\ OnNumbers("-", l, r)
        BY NumberResult DEF WithLiteral
      <3>2. Departures("-", l, r, typing.common) = {}
        BY <1>4, BinaryFacts
      <3>. QED  BY <3>1, <3>2, NoDepartures
    <2>2. r.type = result
      BY <2>1, NumberResult DEF IsLost, IsLiteral
    <2>3. r.code.ll = getLLVMType[r.type] /\ r.cast \in {None, r.type} /\ Includes(result, mean.type) /\ ~mean.const
      BY <1>4, BinaryFacts
    <2>4. IsTypedUnary("-", r.type)
      BY <2>2 DEF IsTypedUnary
    <2>5. UnaryCode("-", r.type, r).ll = getLLVMType[r.type]
      BY <1>1, <2>3, <2>4, UnaryInstruction
    <2>. QED  BY <2>2, <2>3, <2>5
  <1>5. mean.limits = {} => Folded(k)
    BY <1>3, <1>4 DEF Folded
  <1>6. IsExpression(k)
    <2>. HIDE DEF code, result
    <2>. QED  BY <1>3, <1>4, <1>5, MadeExpression
  <1>. QED  BY <1>3, <1>6 DEF k

(* An operand that is divided by one *)
LEMMA FoldedDivision ==
    ASSUME NEW l, NEW r, NEW typing, Accepted("/", l, r, typing), typing.result \in Numeric,
           IsLiteral(r, 1), ~isLiteral(l), NEW mean, mean = BinaryMean("/", l, r, typing)
    PROVE  LET k == [l EXCEPT !.cast = typing.result, !.mean = mean] IN IsExpression(k) /\ k.kind # "range"
  <1>. DEFINE result == typing.result
              k == [l EXCEPT !.cast = result, !.mean = mean]
  <1>1. IsNode(l)
    BY DEF Accepted, IsExpression, IsTyped
  <1>. DEFINE new == [l EXCEPT !.cast = result]
  <1>2. /\ IsNode(new) /\ ~isLiteral(new) /\ new.type = l.type /\ new.cast = result /\ new.code = l.code
    <2>. HIDE DEF result
    <2>. QED  BY <1>1, CastNode
  <1>3. /\ IsNode(k) /\ ~isLiteral(k) /\ k.kind # "range" /\ k.type = l.type /\ k.cast = result
        /\ k.code = l.code /\ k.mean = mean
    <2>1. k = Kept(new, mean)
      BY Zenon DEF Kept
    <2>. HIDE DEF new, k, result
    <2>. QED  BY <1>2, <2>1, KeptNode
  <1>. HIDE DEF k, new
  <1>4. ASSUME mean.limits = {}
        PROVE  l.type = result /\ l.code.ll = getLLVMType[l.type] /\ Includes(result, mean.type) /\ ~mean.const
    <2>1. ~IsLost(l, r, typing.common)
      <3>1. OnNumbers("/", l, r)
        BY NumberResult
      <3>2. Departures("/", l, r, typing.common) = {}
        BY <1>4, BinaryFacts
      <3>. QED  BY <3>1, <3>2, NoDepartures
    <2>2. l.type = result
      BY <2>1, NumberResult DEF IsLost
    <2>3. l.code.ll = getLLVMType[l.type] /\ Includes(result, mean.type) /\ ~mean.const
      BY <1>4, BinaryFacts
    <2>. QED  BY <2>2, <2>3
  <1>5. mean.limits = {} => Folded(k)
    BY <1>3, <1>4 DEF Folded
  <1>6. IsExpression(k)
    <2>. HIDE DEF result
    <2>. QED  BY <1>3, <1>4, <1>5, MadeExpression
  <1>. QED  BY <1>3, <1>6 DEF k

(* The operand that remains beside a literal is of the type of the result. *)
LEMMA OperandRemains ==
    ASSUME NEW op, NEW l, NEW r, NEW typing, Accepted(op, l, r, typing), typing.result \in Numeric,
           NEW mean, mean = BinaryMean(op, l, r, typing), mean.limits = {},
           \/ op \in {"+", "-"} /\ WithLiteral(l, r, 0)
           \/ op = "*" /\ WithLiteral(l, r, 1)
           \/ op \in {"DIV", "MOD"} /\ ~isLiteral(l) /\ IsLiteral(r, 1)
    PROVE  (IF isLiteral(l) THEN r ELSE l).type = typing.result
  <1>1. OnNumbers(op, l, r) /\ typing.common = typing.result
    BY NumberResult
  <1>2. Departures(op, l, r, typing.common) = {}
    BY BinaryFacts
  <1>3. ~IsLost(l, r, typing.common)
    BY <1>1, <1>2, NoDepartures
  <1>. QED  BY <1>1, <1>3 DEF IsLost

(* Sums and products *)
LEMMA FoldedBinaryOp ==
    ASSUME NEW op, NEW l, NEW r, NEW typing, Accepted(op, l, r, typing), typing.result \in Integers \cup RealTypes,
           NEW mean, mean = BinaryMean(op, l, r, typing), NEW neutral, NEW zeros,
           op \in {"+", "*"}, neutral = (IF op = "+" THEN 0 ELSE 1), \A zero \in zeros : op = "*" /\ zero = 0,
           NEW k \in foldBinaryOp(op, l, r, neutral, zeros, typing.result, mean)
    PROVE  IsExpression(k) /\ k.kind # "range"
  <1>. DEFINE result == typing.result
  <1>1. result \in Numeric /\ result # "BYTE"
    BY DEF Numeric, Integers, RealTypes
  <1>2. CASE isLiteral(l) /\ isLiteral(r)
    <2>. DEFINE value == CASE Undef \in {l.val, r.val} -> Undef
                           [] OTHER -> IF op = "+" THEN l.val + r.val ELSE l.val * r.val
    <2>1. k = NewNumber(value, result, mean)
      <3>. HIDE DEF result
      <3>. QED  BY <1>2 DEF foldBinaryOp, result
    <2>2. CASE result \in Integers
      <3>. DEFINE type == OperandType(op, l.mean.type, r.mean.type)
      <3>1. ASSUME mean.limits = {} PROVE value = Meaning(op, type, l.val, r.val)
        <4>1. l.val \in Int /\ r.val \in Int /\ type \in Integers
          BY <1>2, <2>2, <3>1, IntegerOperands, IntegerValues
        <4>2. ~(Undef \in {l.val, r.val})
          BY <4>1, UndefAssumption
        <4>. HIDE DEF type
        <4>. QED  BY <4>1, <4>2, MeaningOfIntegers
      <3>2. k = NewInteger(value, mean)
        BY <2>1, <2>2 DEF NewNumber
      <3>. HIDE DEF value
      <3>. QED  BY <1>2, <2>2, <3>1, <3>2, FoldedInteger
    <2>3. CASE result \notin Integers
      <3>1. k = Literal(Double(value), result, mean)
        BY <2>1, <2>3 DEF NewNumber
      <3>. HIDE DEF value
      <3>. QED  BY <1>1, <1>2, <2>3, <3>1, FoldedLiteral
    <2>. QED  BY <2>2, <2>3
  <1>3. CASE ~(isLiteral(l) /\ isLiteral(r)) /\ (IsLiteral(l, neutral) \/ IsLiteral(r, neutral))
    <2>. DEFINE n == IF isLiteral(l) THEN r ELSE l
    <2>1. WithLiteral(l, r, neutral) /\ n \in {l, r} /\ ~isLiteral(n)
      BY <1>3 DEF WithLiteral, IsLiteral
    <2>2. k = Kept(n, mean)
      BY <1>3 DEF Kept, foldBinaryOp, IsLiteral
    <2>3. mean.limits = {} => n.type = result
      BY <1>1, <2>1, OperandRemains
    <2>. HIDE DEF n
    <2>. QED  BY <2>1, <2>2, <2>3, FoldedOperand
  <1>4. CASE ~(isLiteral(l) /\ isLiteral(r)) /\ ~(IsLiteral(l, neutral) \/ IsLiteral(r, neutral))
    <2>. DEFINE type == IF result \in Integers THEN "SHORTINT" ELSE result
    <2>1. (\E zero \in zeros : IsLiteral(l, zero) \/ IsLiteral(r, zero)) /\ k = Literal(0, type, mean)
      BY <1>4 DEF foldBinaryOp
    <2>2. op = "*" /\ WithLiteral(l, r, 0)
      BY <1>4, <2>1 DEF WithLiteral, IsLiteral
    <2>3. mean.limits # {}
      <3>1. ASSUME mean.limits = {} PROVE FALSE
        <4>1. OnNumbers(op, l, r) /\ Departures(op, l, r, typing.common) = {}
          BY <1>1, <3>1, NumberResult, BinaryFacts
        <4>. QED  BY <2>2, <4>1, NoDepartures
      <3>. QED  BY <3>1
    <2>4. type \in Types \ {"BYTE"}
      BY DEF Types, Numeric, Integers, RealTypes
    <2>. HIDE DEF type
    <2>5. IsNode(k) /\ k.cast = None /\ k.mean = mean /\ k.kind # "range"
      BY <2>1, <2>4, NewLiteral
    <2>. QED  BY <2>3, <2>5, MadeExpression
  <1>. QED  BY <1>2, <1>3, <1>4

(* Differences *)
LEMMA FoldedSubOp ==
    ASSUME NEW l, NEW r, NEW typing, Accepted("-", l, r, typing), typing.result \in Integers \cup RealTypes,
           NEW mean, mean = BinaryMean("-", l, r, typing), NEW k \in foldSubOp(l, r, typing.result, mean)
    PROVE  IsExpression(k) /\ k.kind # "range"
  <1>. DEFINE result == typing.result
  <1>1. result \in Numeric /\ result # "BYTE"
    BY DEF Numeric, Integers, RealTypes
  <1>2. CASE isLiteral(l) /\ isLiteral(r)
    <2>. DEFINE value == IF Undef \in {l.val, r.val} THEN Undef ELSE l.val - r.val
    <2>1. k = NewNumber(value, result, mean)
      <3>. HIDE DEF result
      <3>. QED  BY <1>2 DEF foldSubOp, result
    <2>2. CASE result \in Integers
      <3>. DEFINE type == OperandType("-", l.mean.type, r.mean.type)
      <3>1. ASSUME mean.limits = {} PROVE value = Meaning("-", type, l.val, r.val)
        <4>1. l.val \in Int /\ r.val \in Int /\ type \in Integers
          BY <1>2, <2>2, <3>1, IntegerOperands, IntegerValues
        <4>2. ~(Undef \in {l.val, r.val})
          BY <4>1, UndefAssumption
        <4>. HIDE DEF type
        <4>. QED  BY <4>1, <4>2, MeaningOfIntegers
      <3>2. k = NewInteger(value, mean)
        BY <2>1, <2>2 DEF NewNumber
      <3>. HIDE DEF value
      <3>. QED  BY <1>2, <2>2, <3>1, <3>2, FoldedInteger
    <2>3. CASE result \notin Integers
      <3>1. k = Literal(Double(value), result, mean)
        BY <2>1, <2>3 DEF NewNumber
      <3>. HIDE DEF value
      <3>. QED  BY <1>1, <1>2, <2>3, <3>1, FoldedLiteral
    <2>. QED  BY <2>2, <2>3
  <1>3. CASE ~(isLiteral(l) /\ isLiteral(r)) /\ IsLiteral(l, 0)
    <2>1. ~isLiteral(r) /\ k = Node(result, UnaryCode("-", result, r), mean)
      BY <1>3 DEF foldSubOp, IsLiteral
    <2>. QED  BY <1>1, <1>3, <2>1, FoldedNegation
  <1>4. CASE ~(isLiteral(l) /\ isLiteral(r)) /\ ~IsLiteral(l, 0)
    <2>1. IsLiteral(r, 0) /\ k = Kept(l, mean)
      BY <1>4 DEF Kept, foldSubOp
    <2>2. ~isLiteral(l) /\ WithLiteral(l, r, 0)
      BY <1>4, <2>1 DEF WithLiteral, IsLiteral
    <2>3. mean.limits = {} => l.type = result
      BY <1>1, <2>2, OperandRemains
    <2>. QED  BY <2>1, <2>2, <2>3, FoldedOperand
  <1>. QED  BY <1>2, <1>3, <1>4

(* Quotients and remainders *)
LEMMA FoldedDivModOp ==
    ASSUME NEW op \in {"DIV", "MOD"}, NEW l, NEW r, NEW typing, Accepted(op, l, r, typing), typing.result \in Integers,
           ~FoldError(op, l, r),
           NEW mean, mean = BinaryMean(op, l, r, typing), NEW k \in foldDivModOp(op, l, r, typing.result, mean)
    PROVE  IsExpression(k) /\ k.kind # "range"
  <1>1. isLiteral(r)
    BY DEF foldDivModOp
  <1>2. CASE isLiteral(l)
    BY <1>1, <1>2, FoldedQuotient DEF foldDivModOp
  <1>3. CASE ~isLiteral(l)
    <2>1. IsLiteral(r, 1) /\ k = Kept(l, mean)
      BY <1>1, <1>3 DEF Kept, foldDivModOp, IsLiteral
    <2>2. mean.limits = {} => l.type = typing.result
      BY <1>3, <2>1, OperandRemains DEF Numeric
    <2>. QED  BY <1>3, <2>1, <2>2, FoldedOperand
  <1>. QED  BY <1>2, <1>3

(* A node that folding makes *)
LEMMA FoldIsExpression ==
    ASSUME NEW op, NEW l, NEW r, NEW typing, Accepted(op, l, r, typing), ~FoldError(op, l, r),
           NEW mean, mean = BinaryMean(op, l, r, typing), NEW k \in fold(op, l, r, typing.result, mean)
    PROVE  IsExpression(k) /\ k.kind # "range"
  <1>. DEFINE s == l.type  t == r.type  c == typing.common  result == typing.result
  <1>1. s \in Types /\ t \in Types
    BY DEF Accepted, IsExpression, IsTyped, IsNode
  <1>2. CASE OfBooleans(op, s, t, c, result)
    <2>1. {s, t} = {"BOOLEAN"} /\ "SET" \notin {s, t} /\ s = "BOOLEAN" /\ t = "BOOLEAN" /\ result = "BOOLEAN"
      BY <1>2 DEF OfBooleans, Equality, Logic
    <2>2. result \notin Numeric
      BY <2>1 DEF Numeric, Integers, RealTypes
    <2>3. k \in foldBooleanOp(op, l, r, mean)
      BY <2>1, <2>2 DEF fold, Numeric
    <2>4. CASE isLiteral(l) /\ isLiteral(r)
      <3>1. \E val : k = Literal(val, result, mean)
        BY <2>1, <2>3, <2>4 DEF foldBooleanOp
      <3>. QED  BY <2>2, <2>4, <3>1, FoldedLiteral DEF Numeric
    <2>5. CASE ~(isLiteral(l) /\ isLiteral(r))
      <3>1. \E n \in {l, r} : ~isLiteral(n) /\ k = Kept(n, mean)
        BY <2>3, <2>5 DEF Kept, foldBooleanOp, IsLiteral
      <3>. QED  BY <2>1, <3>1, FoldedOperand
    <2>. QED  BY <2>4, <2>5
  <1>3. CASE OfSets(op, s, t, c, result)
    <2>1. {s, t} # {"BOOLEAN"} /\ "SET" \in {s, t} /\ result \notin Numeric
      BY <1>3 DEF OfSets, SetRelation, SetOperation, Membership, Numeric, Integers, RealTypes
    <2>2. k \in foldSetOp(op, l, r, result, mean)
      BY <2>1 DEF fold, Numeric
    <2>3. isLiteral(l) /\ isLiteral(r) /\ \E val : k = Literal(val, result, mean)
      BY <2>2 DEF foldSetOp
    <2>. QED  BY <2>1, <2>3, FoldedLiteral DEF Numeric
  <1>4. CASE CharRelation(op, s, t, c, result) \/ Relation(op, s, t, c, result)
    <2>1. {s, t} # {"BOOLEAN"} /\ "SET" \notin {s, t} /\ result = "BOOLEAN" /\ op \in Relations
      BY <1>4 DEF CharRelation, Relation, Numeric, Integers, RealTypes
    <2>2. result \notin Numeric
      BY <2>1 DEF Numeric, Integers, RealTypes
    <2>3. k \in foldRelationOp(op, l, r, mean)
      BY <2>1, <2>2 DEF fold, Numeric
    <2>4. isLiteral(l) /\ isLiteral(r) /\ \E val : k = Literal(val, result, mean)
      BY <2>1, <2>3 DEF foldRelationOp
    <2>. QED  BY <2>2, <2>4, FoldedLiteral DEF Numeric
  <1>5. CASE Operation(op, s, t, c, result) \/ WholeDivision(op, s, t, c, result) \/ Division(op, s, t, c, result)
    <2>1. s \in Numeric /\ t \in Numeric /\ (result = Larger(s, t) \/ result = "REAL")
      BY <1>5 DEF Operation, WholeDivision, Division, Numeric
    <2>2. result \in Numeric
      BY <2>1, CommonIsLarger DEF Numeric, RealTypes
    <2>3. /\ "SET" \notin {s, t} /\ op \notin Relations /\ {s, t} # {"BOOLEAN"}
          /\ op \in {"DIV", "MOD"} \/ op = "/" \/ op \in {"+", "-", "*"}
          /\ op = "/" => result \notin Integers
      BY <2>2, NumberResult DEF OnNumbers
    <2>4. CASE op = "+"
      <3>1. k \in foldBinaryOp("+", l, r, 0, {}, result, mean) /\ result \in Integers \cup RealTypes
        BY <2>3, <2>4 DEF fold
      <3>. QED  BY <2>4, <3>1, FoldedBinaryOp
    <2>5. CASE op = "*"
      <3>1. k \in foldBinaryOp("*", l, r, 1, {0}, result, mean) /\ result \in Integers \cup RealTypes
        BY <2>3, <2>5 DEF fold
      <3>. QED  BY <2>5, <3>1, FoldedBinaryOp
    <2>6. CASE op = "-"
      <3>1. k \in foldSubOp(l, r, result, mean) /\ result \in Integers \cup RealTypes
        BY <2>3, <2>6 DEF fold
      <3>. QED  BY <2>6, <3>1, FoldedSubOp
    <2>7. CASE op \in {"DIV", "MOD"}
      <3>1. k \in foldDivModOp(op, l, r, result, mean) /\ result \in Integers
        BY <2>3, <2>7 DEF fold
      <3>. QED  BY <2>7, <3>1, FoldedDivModOp
    <2>8. CASE op = "/"
      <3>1. k \in foldFDivOp(l, r, result, mean) /\ result \in RealTypes
        BY <2>3, <2>8 DEF fold
      <3>2. isLiteral(r)
        BY <3>1 DEF foldFDivOp
      <3>3. CASE isLiteral(l)
        <4>1. \E val : k = Literal(val, result, mean)
          BY <3>1, <3>2, <3>3 DEF foldFDivOp
        <4>2. result \notin Integers \cup {"BYTE"}
          BY <3>1 DEF Integers, RealTypes
        <4>. QED  BY <3>2, <3>3, <4>1, <4>2, FoldedLiteral
      <3>4. CASE ~isLiteral(l)
        <4>1. IsLiteral(r, 1) /\ k = [l EXCEPT !.cast = result, !.mean = mean]
          BY <3>1, <3>2, <3>4 DEF foldFDivOp, IsLiteral
        <4>. QED  BY <2>2, <2>8, <3>4, <4>1, FoldedDivision
      <3>. QED  BY <3>3, <3>4
    <2>. QED  BY <2>3, <2>4, <2>5, <2>6, <2>7, <2>8
  <1>. QED  BY <1>1, <1>2, <1>3, <1>4, <1>5, TypingCases DEF Accepted, OfNumbers

(* Literals are always folded. *)
LEMMA ConstantsAreFolded ==
    ASSUME NEW op, NEW l, NEW r, NEW typing, Accepted(op, l, r, typing), isLiteral(l), isLiteral(r), NEW mean
    PROVE  fold(op, l, r, typing.result, mean) # {}
  <1>. DEFINE s == l.type  t == r.type  c == typing.common  result == typing.result
  <1>1. s \in Types \ {"BYTE"} /\ t \in Types \ {"BYTE"}
    BY DEF Accepted, IsExpression, IsTyped, IsNode
  <1>2. CASE OfBooleans(op, s, t, c, result)
    <2>1. {s, t} = {"BOOLEAN"} /\ "SET" \notin {s, t} /\ result = "BOOLEAN" /\ result \notin Numeric
      BY <1>2 DEF OfBooleans, Equality, Logic, Numeric, Integers, RealTypes
    <2>2. fold(op, l, r, result, mean) = foldBooleanOp(op, l, r, mean)
      BY <2>1 DEF fold, Numeric
    <2>3. foldBooleanOp(op, l, r, mean) # {}
      BY DEF foldBooleanOp
    <2>. QED  BY <2>2, <2>3
  <1>3. CASE OfSets(op, s, t, c, result)
    <2>1. {s, t} # {"BOOLEAN"} /\ "SET" \in {s, t} /\ result \notin Numeric
      BY <1>3 DEF OfSets, SetRelation, SetOperation, Membership, Numeric, Integers, RealTypes
    <2>2. fold(op, l, r, result, mean) = foldSetOp(op, l, r, result, mean)
      BY <2>1 DEF fold, Numeric
    <2>. QED  BY <2>2 DEF foldSetOp
  <1>4. CASE CharRelation(op, s, t, c, result) \/ Relation(op, s, t, c, result)
    <2>1. {s, t} # {"BOOLEAN"} /\ "SET" \notin {s, t} /\ result = "BOOLEAN" /\ op \in Relations /\ result \notin Numeric
      BY <1>4 DEF CharRelation, Relation, Numeric, Integers, RealTypes
    <2>2. fold(op, l, r, result, mean) = foldRelationOp(op, l, r, mean)
      BY <2>1 DEF fold, Numeric
    <2>. QED  BY <2>2 DEF foldRelationOp
  <1>5. CASE Operation(op, s, t, c, result) \/ WholeDivision(op, s, t, c, result) \/ Division(op, s, t, c, result)
    <2>1. s \in Numeric /\ t \in Numeric /\ (result = Larger(s, t) \/ result = "REAL")
      BY <1>5 DEF Operation, WholeDivision, Division, Numeric
    <2>2. result \in Numeric /\ result # "BYTE"
      BY <1>1, <2>1, CommonIsLarger DEF Numeric, RealTypes
    <2>3. /\ "SET" \notin {s, t} /\ op \notin Relations /\ {s, t} # {"BOOLEAN"}
          /\ op \in {"DIV", "MOD"} \/ op = "/" \/ op \in {"+", "-", "*"}
          /\ op = "/" => result \notin Integers
      BY <2>2, NumberResult DEF OnNumbers
    <2>4. op \in {"DIV", "MOD"} => result \in Integers
      <3>1. ASSUME op \in {"DIV", "MOD"} PROVE result \in Integers
        <4>1. WholeDivision(op, s, t, c, result)
          BY <1>5, <3>1 DEF Operation, Division
        <4>2. s \in Integers /\ t \in Integers /\ result = Larger(s, t)
          BY <1>1, <4>1 DEF WholeDivision
        <4>. QED  BY <2>1, <4>2, CommonIsLarger
      <3>. QED  BY <3>1
    <2>5. result \in Integers \cup RealTypes
      BY <2>2 DEF Numeric
    <2>6. CASE op = "+"
      <3>1. fold(op, l, r, result, mean) = foldBinaryOp("+", l, r, 0, {}, result, mean)
        BY <2>3, <2>5, <2>6 DEF fold
      <3>. QED  BY <3>1 DEF foldBinaryOp
    <2>7. CASE op = "*"
      <3>1. fold(op, l, r, result, mean) = foldBinaryOp("*", l, r, 1, {0}, result, mean)
        BY <2>3, <2>5, <2>7 DEF fold
      <3>. QED  BY <3>1 DEF foldBinaryOp
    <2>8. CASE op = "-"
      <3>1. fold(op, l, r, result, mean) = foldSubOp(l, r, result, mean)
        BY <2>3, <2>5, <2>8 DEF fold
      <3>. QED  BY <3>1 DEF foldSubOp
    <2>9. CASE op \in {"DIV", "MOD"}
      <3>1. fold(op, l, r, result, mean) = foldDivModOp(op, l, r, result, mean)
        BY <2>3, <2>4, <2>9 DEF fold
      <3>. QED  BY <3>1 DEF foldDivModOp
    <2>10. CASE op = "/"
      <3>1. fold(op, l, r, result, mean) = foldFDivOp(l, r, result, mean)
        BY <2>3, <2>5, <2>10 DEF fold
      <3>. QED  BY <3>1 DEF foldFDivOp
    <2>. QED  BY <2>3, <2>6, <2>7, <2>8, <2>9, <2>10
  <1>. QED  BY <1>1, <1>2, <1>3, <1>4, <1>5, TypingCases DEF Accepted, OfNumbers

(* A node of a binary operator that is not folded *)
LEMMA BinaryNode ==
    ASSUME NEW op, NEW l, NEW r, NEW typing, Accepted(op, l, r, typing),
           NEW mean, mean = BinaryMean(op, l, r, typing), fold(op, l, r, typing.result, mean) = {}
    PROVE  LET k == Node(typing.result, BinaryCode(op, CastTo(typing.common, l), CastTo(typing.common, r)), mean)
           IN  IsExpression(k) /\ k.kind # "range"
  <1>. DEFINE Cast(n) == CastTo(typing.common, n)
              code == BinaryCode(op, Cast(l), Cast(r))
              result == typing.result
              k == Node(result, code, mean)
  <1>1. IsNode(l) /\ typing = Typing(op, l.type, r.type) /\ result # None /\ IsExpression(l) /\ IsExpression(r)
    BY DEF Accepted, IsExpression, IsTyped
  <1>2. Cast(l).code = [ll |-> Cast(l).code.ll, at |-> Cast(l).code.at]
    <2>1. l.code = [ll |-> l.code.ll, at |-> l.code.at]
      BY <1>1 DEF IsNode
    <2>2. ASSUME NEW t PROVE cast(l, t).code \in {l.code, RealLiteral(l.val, "REAL")}
      <3>. DEFINE real == RealLiteral(l.val, "REAL")
      <3>. HIDE DEF real
      <3>1. cast(l, t) = l \/ cast(l, t) = [l EXCEPT !.cast = t]
              \/ cast(l, t) = [l EXCEPT !.type = "REAL", !.cast = t, !.code = real]
        BY DEF cast, real
      <3>. QED  BY <1>1, <3>1 DEF IsNode, real
    <2>3. RealLiteral(l.val, "REAL") = [ll |-> RealLiteral(l.val, "REAL").ll, at |-> RealLiteral(l.val, "REAL").at]
      BY DEF RealLiteral, Code
    <2>. QED  BY <2>1, <2>2, <2>3 DEF CastTo
  <1>3. code = [ll |-> code.ll, at |-> code.at]
    <2>. HIDE DEF Cast
    <2>. QED  BY <1>2, BinaryCodeIsMade
  <1>4. result \in Types
    BY ResultIsType
  <1>5. /\ IsNode(k) /\ ~isLiteral(k) /\ k.kind # "range"
        /\ k.type = result /\ k.cast = None /\ k.code = code /\ k.mean = mean
    <2>. HIDE DEF code, result
    <2>. QED  BY <1>3, <1>4, NewNode
  <1>6. ~(isLiteral(l) /\ isLiteral(r))
    BY ConstantsAreFolded
  <1>7. ASSUME mean.limits = {}
        PROVE  code.ll = getLLVMType[result] /\ Includes(result, mean.type) /\ ~mean.const
    <2>1. /\ l.mean.limits = {} /\ r.mean.limits = {} /\ Departures(op, l, r, typing.common) = {}
          /\ Includes(result, mean.type) /\ ~mean.const
      BY <1>6, <1>7, BinaryFacts
    <2>2. code.ll = getLLVMType[result]
      BY <1>1, <2>1, OperatorIsTyped
    <2>. QED  BY <2>1, <2>2
  <1>. HIDE DEF k
  <1>8. mean.limits = {} => Folded(k)
    BY <1>5, <1>7 DEF Folded
  <1>9. IsExpression(k)
    <2>. HIDE DEF code, result
    <2>. QED  BY <1>5, <1>7, <1>8, MadeExpression
  <1>. QED  BY <1>5, <1>9 DEF k

-----------------------------------------------------------------------------
(* The stack of the parser *)

(* A sequence is one of its own elements. *)
LEMMA SequenceOfElements ==
    ASSUME NEW S, NEW s \in Seq(S)
    PROVE  s \in Seq({s[k] : k \in DOMAIN s})
  <1>. DEFINE R == {s[k] : k \in DOMAIN s}
  <1>1. Len(s) \in Nat /\ s \in [1 .. Len(s) -> S] /\ DOMAIN s = 1 .. Len(s)
    BY LenProperties
  <1>2. s \in [1 .. Len(s) -> R]
    BY <1>1
  <1>. HIDE DEF R
  <1>. QED  BY <1>1, <1>2

(* Nodes are popped and one is pushed. *)
LEMMA PushedNodes ==
    ASSUME IInv, NEW n \in 0 .. Len(stack), NEW node, stack' = Append(Pop(n), node)
    PROVE  /\ stack' \in Seq({stack'[k] : k \in DOMAIN stack'})
           /\ \A k \in DOMAIN stack' : (k \in DOMAIN stack /\ stack'[k] = stack[k]) \/ stack'[k] = node
  <1>. DEFINE S == {stack[k] : k \in DOMAIN stack}
              T == S \cup {node}
              rest == Pop(n)
  <1>1. stack \in Seq(S)
    BY DEF IInv
  <1>. HIDE DEF S
  <1>2. Len(stack) \in Nat /\ DOMAIN stack = 1 .. Len(stack) /\ \A k \in 1 .. Len(stack) : stack[k] \in S
    BY <1>1, LenProperties, ElementOfSeq
  <1>3. Len(stack) - n \in Nat /\ Len(stack) - n <= Len(stack)
    BY <1>2
  <1>4. /\ rest \in Seq(T) /\ Len(rest) = Len(stack) - n
        /\ \A k \in 1 .. Len(stack) - n : rest[k] = stack[k]
    <2>1. \A k \in 1 .. Len(stack) - n : stack[k] \in T
      BY <1>2, <1>3
    <2>2. /\ SubSeq(stack, 1, Len(stack) - n) \in Seq(T)
          /\ Len(SubSeq(stack, 1, Len(stack) - n)) = IF 1 <= Len(stack) - n THEN Len(stack) - n - 1 + 1 ELSE 0
          /\ \A k \in 1 .. Len(stack) - n - 1 + 1 : SubSeq(stack, 1, Len(stack) - n)[k] = stack[1 + k - 1]
      <3>. HIDE DEF T
      <3>. QED  BY <1>3, <2>1, SubSeqProperties
    <2>. HIDE DEF T
    <2>. QED  BY <1>3, <2>2 DEF Pop
  <1>. HIDE DEF rest
  <1>5. node \in T
    OBVIOUS
  <1>. HIDE DEF T
  <1>6. /\ stack' \in Seq(T) /\ Len(stack') = Len(rest) + 1
        /\ \A k \in 1 .. Len(rest) : stack'[k] = rest[k]
        /\ stack'[Len(rest) + 1] = node
    BY <1>4, <1>5, AppendProperties DEF rest
  <1>7. DOMAIN stack' = 1 .. Len(stack')
    BY <1>6, LenProperties
  <1>8. stack' \in Seq({stack'[k] : k \in DOMAIN stack'})
    BY <1>6, SequenceOfElements
  <1>9. ASSUME NEW k \in DOMAIN stack' PROVE (k \in DOMAIN stack /\ stack'[k] = stack[k]) \/ stack'[k] = node
    <2>1. k \in 1 .. Len(rest) \/ k = Len(rest) + 1
      BY <1>3, <1>4, <1>6, <1>7
    <2>2. CASE k \in 1 .. Len(rest)
      <3>1. stack'[k] = rest[k] /\ k \in 1 .. Len(stack) - n
        BY <1>4, <1>6, <2>2
      <3>2. stack'[k] = stack[k]
        BY <1>4, <3>1
      <3>3. k \in DOMAIN stack
        BY <1>2, <1>3, <3>1
      <3>. QED  BY <3>2, <3>3
    <2>. QED  BY <1>6, <2>1, <2>2
  <1>. QED  BY <1>8, <1>9

LEMMA PushKeeps ==
    ASSUME IInv, NEW n \in 0 .. Len(stack), NEW node, IsElement(node), stack' = Append(Pop(n), node)
    PROVE  IInv'
  BY PushedNodes DEF IInv

(* An error empties the stack. *)
LEMMA EmptyKeeps ==
    ASSUME stack' = <<>>
    PROVE  IInv'
  <1>1. stack' \in Seq({stack'[k] : k \in DOMAIN stack'}) /\ DOMAIN stack' = {}
    BY EmptySeq
  <1>. QED  BY <1>1 DEF IInv

(* The nodes on top of the stack *)
LEMMA TopNodes ==
    ASSUME IInv, NEW n \in Nat \ {0}, AreExpressions(n), NEW k \in 1 .. n
    PROVE  n \in 0 .. Len(stack) /\ IsExpression(Top(k))
  <1>1. Len(stack) \in Nat /\ DOMAIN stack = 1 .. Len(stack)
    BY LenProperties DEF IInv
  <1>2. Len(stack) >= n /\ Top(k).kind # "range"
    BY DEF AreExpressions
  <1>3. Len(stack) + 1 - k \in DOMAIN stack
    BY <1>1, <1>2
  <1>4. IsElement(stack[Len(stack) + 1 - k])
    BY <1>3 DEF IInv
  <1>. QED  BY <1>1, <1>2, <1>4 DEF IsElement, Top

-----------------------------------------------------------------------------
(* Ranges and sets *)

(* A bound of a range keeps its types where it is cast to another integer.   *)
LEMMA BoundIsTyped ==
    ASSUME NEW n, IsExpression(n), NEW t, t \notin RealTypes \/ t = n.type
    PROVE  IsTyped(cast(n, t)) /\ IsTyped(n)
  <1>1. IsTyped(n) /\ IsNode(n)
    BY DEF IsExpression, IsTyped
  <1>2. CASE n.type = t
    BY <1>1, <1>2 DEF cast
  <1>3. CASE n.type # t
    <2>. DEFINE k == [n EXCEPT !.cast = t]
    <2>1. cast(n, t) = k
      BY <1>3 DEF cast
    <2>2. /\ IsNode(k) /\ (isLiteral(k) <=> isLiteral(n))
          /\ k.type = n.type /\ k.val = n.val /\ k.code = n.code /\ k.mean = n.mean
      BY <1>1, CastNode
    <2>. HIDE DEF k
    <2>3. Folded(n) => Folded(k)
      BY <2>2 DEF Folded
    <2>4. IsTyped(k)
      BY <1>1, <2>2, <2>3 DEF IsTyped
    <2>. QED  BY <1>1, <2>1, <2>4
  <1>. QED  BY <1>2, <1>3

(* The expressions of an element *)
LEMMA BoundsAreTyped ==
    ASSUME NEW e, IsElement(e), NEW i \in DOMAIN Bounds(e)
    PROVE  IsTyped(Bounds(e)[i])
  <1>1. CASE e.kind = "range"
    <2>1. Bounds(e) = <<e.lower, e.upper>> /\ IsTyped(e.lower) /\ IsTyped(e.upper)
      BY <1>1 DEF Bounds, IsElement
    <2>2. i \in {1, 2}
      BY <2>1
    <2>. QED  BY <2>1, <2>2
  <1>2. CASE e.kind # "range"
    <2>1. Bounds(e) = <<e>> /\ IsTyped(e)
      BY <1>2 DEF Bounds, IsElement, IsExpression
    <2>2. i = 1
      BY <2>1
    <2>. QED  BY <2>1, <2>2
  <1>. QED  BY <1>1, <1>2

(* The expressions of all elements *)
SetNodes(elements) ==
    UNION {{Bounds(elements[k])[n] : n \in DOMAIN Bounds(elements[k])} : k \in DOMAIN elements}

(* What a set means *)
LEMMA SetMeanParts ==
    ASSUME NEW elements
    PROVE  /\ SetMean(elements).type = "SET"
           /\ SetMean(elements).const <=> \A n \in SetNodes(elements) : n.mean.const
           /\ \A n \in SetNodes(elements) :
                /\ n.mean.limits \subseteq SetMean(elements).limits
                /\ ~isLiteral(n) /\ n.type # "INTEGER" => "set width" \in SetMean(elements).limits
  <1>1. SetMean(elements).type = "SET" /\ (SetMean(elements).const <=> \A n \in SetNodes(elements) : n.mean.const)
    BY Zenon DEF SetMean, SetNodes, Mean
  <1>2. SetMean(elements).limits =
          (UNION {n.mean.limits : n \in SetNodes(elements)})
            \cup {d \in {"set width"} : \E n \in SetNodes(elements) : ~isLiteral(n) /\ n.type # "INTEGER"}
    BY Zenon DEF SetMean, SetNodes, Mean
  <1>3. ASSUME NEW n \in SetNodes(elements)
        PROVE  /\ n.mean.limits \subseteq SetMean(elements).limits
               /\ ~isLiteral(n) /\ n.type # "INTEGER" => "set width" \in SetMean(elements).limits
    <2>. DEFINE name == "set width"
                kept == {m.mean.limits : m \in SetNodes(elements)}
                wide == {d \in {"set width"} : \E m \in SetNodes(elements) : ~isLiteral(m) /\ m.type # "INTEGER"}
    <2>1. SetMean(elements).limits = (UNION kept) \cup wide
      BY <1>2, Zenon
    <2>2. n.mean.limits \in kept
      OBVIOUS
    <2>3. ~isLiteral(n) /\ n.type # "INTEGER" => name \in wide
      OBVIOUS
    <2>. DEFINE limits == SetMean(elements).limits
    <2>. HIDE DEF kept, wide, limits, name
    <2>4. limits = (UNION kept) \cup wide
      BY <2>1 DEF limits
    <2>5. wide \subseteq limits
      BY <2>4
    <2>6. n.mean.limits \subseteq limits
      BY <2>2, <2>4
    <2>7. ~isLiteral(n) /\ n.type # "INTEGER" => name \in limits
      BY <2>3, <2>5, Zenon
    <2>. QED  BY <2>6, <2>7 DEF limits, name
  <1>. QED  BY <1>1, <1>3

(* Without a departure the elements are typed, and a constant set is one of  *)
(* literals.                                                                 *)
LEMMA SetFacts ==
    ASSUME NEW elements, \A k \in DOMAIN elements : IsElement(elements[k]), SetMean(elements).limits = {}
    PROVE  /\ \A n \in SetNodes(elements) : /\ IsTyped(n) /\ n.mean.limits = {} /\ Folded(n)
                                            /\ n.code.ll = getLLVMType[n.type]
                                            /\ isLiteral(n) \/ n.type = "INTEGER"
           /\ SetMean(elements).const <=> \A k \in DOMAIN elements : IsConstant(elements[k])
  <1>. DEFINE nodes == SetNodes(elements)
  <1>1. ASSUME NEW n \in nodes
        PROVE  /\ IsTyped(n) /\ n.mean.limits = {} /\ Folded(n) /\ n.code.ll = getLLVMType[n.type]
               /\ isLiteral(n) \/ n.type = "INTEGER"
    <2>1. PICK k \in DOMAIN elements : \E i \in DOMAIN Bounds(elements[k]) : n = Bounds(elements[k])[i]
      BY DEF SetNodes
    <2>2. IsTyped(n)
      BY <2>1, BoundsAreTyped
    <2>. HIDE DEF nodes
    <2>3. n.mean.limits \subseteq SetMean(elements).limits
      BY SetMeanParts DEF nodes
    <2>4. n.mean.limits = {}
      BY <2>3
    <2>5. isLiteral(n) \/ n.type = "INTEGER"
      BY SetMeanParts DEF nodes
    <2>. QED  BY <2>2, <2>4, <2>5 DEF IsTyped
  <1>2. SetMean(elements).const <=> \A n \in nodes : isLiteral(n)
    <2>1. \A n \in nodes : n.mean.const <=> isLiteral(n)
      <3>. HIDE DEF nodes
      <3>. QED  BY <1>1 DEF Folded
    <2>2. SetMean(elements).const <=> \A n \in nodes : n.mean.const
      BY SetMeanParts
    <2>. HIDE DEF nodes
    <2>. QED  BY <2>1, <2>2, Zenon
  <1>3. (\A n \in nodes : isLiteral(n)) <=> \A k \in DOMAIN elements : IsConstant(elements[k])
    BY DEF SetNodes, IsConstant
  <1>. QED  BY <1>1, <1>2, <1>3

(* The code of a set shifts integers of its own width. *)
LEMMA SetCode ==
    ASSUME NEW elements
    PROVE  /\ \/ SetExpressionCode(elements) = Invalid
              \/ \E at : SetExpressionCode(elements) = Code("i32", at)
           /\ (\A n \in SetNodes(elements) : isLiteral(n) \/ Visited(n).ll = "i32")
                => \E at : SetExpressionCode(elements) = Code("i32", at)
  <1>. DEFINE fits(n) == isLiteral(n) \/ Visited(n).ll = "i32"
  <1>1. (\A n \in SetNodes(elements) : fits(n))
          <=> \A k \in DOMAIN elements : \A n \in DOMAIN Bounds(elements[k]) : fits(Bounds(elements[k])[n])
    BY DEF SetNodes
  <1>2. \E at : SetExpressionCode(elements) =
          IF \A k \in DOMAIN elements : \A n \in DOMAIN Bounds(elements[k]) : fits(Bounds(elements[k])[n])
          THEN Code("i32", at) ELSE Invalid
    BY DEF SetExpressionCode, United, Calls
  <1>. QED  BY <1>1, <1>2

(* The node of a set, a literal if all its elements are constant *)
LEMMA SetIsExpression ==
    ASSUME NEW elements, \A k \in DOMAIN elements : IsElement(elements[k]),
           NEW mean, mean = SetMean(elements), NEW bits, NEW node,
           node = IF \A k \in DOMAIN elements : IsConstant(elements[k]) THEN Literal(bits, "SET", mean)
                  ELSE Node("SET", SetExpressionCode(elements), mean)
    PROVE  IsExpression(node) /\ node.kind # "range"
  <1>1. "SET" \in Types \ {"BYTE"} /\ "SET" \notin Integers
    BY DEF Types, Integers
  <1>2. Includes("SET", mean.type)
    BY SetMeanParts DEF Includes
  <1>3. CASE \A k \in DOMAIN elements : IsConstant(elements[k])
    <2>1. /\ IsNode(node) /\ isLiteral(node) /\ node.kind # "range" /\ node.type = "SET" /\ node.cast = None
          /\ node.mean = mean /\ node.code.ll = getLLVMType["SET"]
      BY <1>1, <1>3, NewLiteral
    <2>2. mean.limits = {} => mean.const
      BY <1>3, SetFacts
    <2>3. mean.limits = {} => Folded(node)
      BY <1>1, <2>1, <2>2 DEF Folded
    <2>. QED  BY <1>2, <2>1, <2>3, MadeExpression
  <1>4. CASE ~(\A k \in DOMAIN elements : IsConstant(elements[k]))
    <2>. DEFINE code == SetExpressionCode(elements)
    <2>1. code = [ll |-> code.ll, at |-> code.at]
      <3>1. Invalid = [ll |-> Invalid.ll, at |-> Invalid.at]
        BY DEF Invalid, Code
      <3>2. \A at : Code("i32", at) = [ll |-> Code("i32", at).ll, at |-> Code("i32", at).at]
        BY DEF Code
      <3>3. code = Invalid \/ \E at : code = Code("i32", at)
        BY SetCode
      <3>. HIDE DEF code
      <3>. QED  BY <3>1, <3>2, <3>3
    <2>2. /\ IsNode(node) /\ ~isLiteral(node) /\ node.kind # "range" /\ node.type = "SET" /\ node.cast = None
          /\ node.mean = mean /\ node.code = code
      <3>. HIDE DEF code
      <3>. QED  BY <1>1, <1>4, <2>1, NewNode DEF code
    <2>3. ASSUME mean.limits = {} PROVE ~mean.const /\ code.ll = "i32"
      <3>1. ~mean.const
        BY <1>4, <2>3, SetFacts
      <3>2. ASSUME NEW n \in SetNodes(elements), ~isLiteral(n) PROVE Visited(n).ll = "i32"
        BY <2>3, <3>2, SetFacts, LLVMTypes DEF Visited
      <3>3. \E at : code = Code("i32", at)
        BY <3>2, SetCode
      <3>. QED  BY <3>1, <3>3 DEF Code
    <2>4. mean.limits = {} => Folded(node)
      BY <2>2, <2>3 DEF Folded
    <2>. HIDE DEF code
    <2>. QED  BY <1>2, <2>2, <2>3, <2>4, MadeExpression, LLVMTypes
  <1>. QED  BY <1>3, <1>4

-----------------------------------------------------------------------------
(* The calls of the parser *)

(* The stack has a length. *)
LEMMA StackIsSequence ==
    ASSUME IInv
    PROVE  Len(stack) \in Nat /\ DOMAIN stack = 1 .. Len(stack) /\ 0 \in 0 .. Len(stack)
  BY LenProperties DEF IInv

(* Expressions are elements. *)
LEMMA ExpressionIsElement ==
    ASSUME NEW n, IsExpression(n), n.kind # "range"
    PROVE  IsElement(n)
  BY DEF IsElement

(* A literal means its value. *)
LEMMA LiteralStep ==
    ASSUME IInv, NEW type \in DOMAIN Literals, NEW value \in Literals[type], onLiteral(type, value)
    PROVE  IInv'
  <1>. DEFINE mean == Constant(value, type)
              node == Literal(value, type, mean)
  <1>1. type \in Types \ {"BYTE"} /\ (type \in Integers => value \in Values(type))
    BY ExpressionsAssumption DEF ValuesOf, Integers, RealTypes
  <1>2. /\ mean.type = type /\ mean.const = TRUE
        /\ \A m \in DOMAIN Memories : mean.at[m].v = value
    BY DEF Constant, Mean
  <1>. HIDE DEF mean
  <1>3. /\ IsNode(node) /\ isLiteral(node) /\ node.kind # "range" /\ node.type = type /\ node.cast = None
        /\ node.val = value /\ node.mean = mean /\ node.code.ll = getLLVMType[type]
    BY <1>1, NewLiteral
  <1>4. stack' = Append(Pop(0), node)
    BY DEF onLiteral, Push, mean
  <1>. HIDE DEF node
  <1>5. Folded(node) /\ Includes(type, mean.type)
    BY <1>1, <1>2, <1>3 DEF Folded, Includes
  <1>6. IsExpression(node)
    BY <1>3, <1>5, MadeExpression
  <1>. QED  BY <1>3, <1>4, <1>6, ExpressionIsElement, StackIsSequence, PushKeeps

(* A variable, or a call, is of the type of the variable. *)
LEMMA ReferenceIsExpression ==
    ASSUME NEW x \in DOMAIN VarType, NEW calls
    PROVE  IsExpression(Reference(x, calls)) /\ Reference(x, calls).kind # "range"
  <1>. DEFINE t == VarType[x]
              code == Code(getLLVMType[t], [m \in DOMAIN Memories |-> [v |-> Stored(Memories[m][x], t), calls |-> calls]])
              mean == Mean(t, FALSE, [m \in DOMAIN Memories |-> [v |-> Memories[m][x], calls |-> calls]], {})
              node == Node(t, code, mean)
  <1>1. t \in Types
    BY ExpressionsAssumption
  <1>2. code = [ll |-> code.ll, at |-> code.at] /\ code.ll = getLLVMType[t]
    BY DEF Code
  <1>3. mean.type = t /\ mean.const = FALSE
    BY DEF Mean
  <1>4. Reference(x, calls) = node
    BY DEF Reference
  <1>. HIDE DEF t, code, mean
  <1>5. /\ IsNode(node) /\ ~isLiteral(node) /\ node.kind # "range"
        /\ node.type = t /\ node.cast = None /\ node.code = code /\ node.mean = mean
    BY <1>1, <1>2, NewNode
  <1>. HIDE DEF node
  <1>6. Folded(node) /\ Includes(t, mean.type)
    BY <1>3, <1>5 DEF Folded, Includes
  <1>7. IsExpression(node)
    BY <1>2, <1>5, <1>6, MadeExpression
  <1>. QED  BY <1>4, <1>5, <1>7

(* A unary operator: rejected, folded, or a node *)
LEMMA UnaryStep ==
    ASSUME IInv, NEW op \in {"-", "~"}, onUnaryExpression(op)
    PROVE  IInv'
  <1>. DEFINE n == Top(1)
              mean == UnaryMean(op, n)
              folded == foldUnary(op, n, mean)
              new == Node(n.type, UnaryCode(op, n.type, n), mean)
  <1>1. AreExpressions(1) /\ 1 \in 0 .. Len(stack) /\ IsExpression(n)
    BY TopNodes DEF onUnaryExpression
  <1>2. \/ FoldUnaryError(op, n) /\ stack' = <<>>
        \/ ~FoldUnaryError(op, n) /\ \E node \in folded : stack' = Append(Pop(1), node)
        \/ folded = {} /\ stack' = Append(Pop(1), new)
    BY DEF onUnaryExpression, Push
  <1>3. mean = UnaryMean(op, n)
    OBVIOUS
  <1>. HIDE DEF n, mean
  <1>4. CASE stack' = <<>>
    BY <1>4, EmptyKeeps
  <1>5. ASSUME ~FoldUnaryError(op, n), NEW node \in folded, stack' = Append(Pop(1), node) PROVE IInv'
    <2>1. IsExpression(node) /\ node.kind # "range"
      BY <1>1, <1>3, <1>5, UnaryFolded
    <2>. QED  BY <1>1, <1>5, <2>1, ExpressionIsElement, PushKeeps
  <1>6. CASE folded = {} /\ stack' = Append(Pop(1), new)
    <2>1. IsExpression(new) /\ new.kind # "range"
      BY <1>1, <1>3, <1>6, UnaryNode
    <2>. HIDE DEF new
    <2>. QED  BY <1>1, <1>6, <2>1, ExpressionIsElement, PushKeeps
  <1>. QED  BY <1>2, <1>4, <1>5, <1>6

(* A binary operator: rejected, a crash, folded, or a node *)
LEMMA BinaryStep ==
    ASSUME IInv, NEW op, onBinaryExpression(op)
    PROVE  IInv'
  <1>. DEFINE l == Top(2)
              r == Top(1)
              typing == Typing(op, l.type, r.type)
              mean == BinaryMean(op, l, r, typing)
              folded == fold(op, l, r, typing.result, mean)
              new == Node(typing.result, BinaryCode(op, CastTo(typing.common, l), CastTo(typing.common, r)), mean)
  <1>1. AreExpressions(2) /\ 2 \in 0 .. Len(stack) /\ IsExpression(l) /\ IsExpression(r)
    BY TopNodes DEF onBinaryExpression
  <1>2. \/ stack' = <<>>
        \/ /\ typing.result # None /\ ~FoldError(op, l, r)
           /\ \/ \E node \in folded : stack' = Append(Pop(2), node)
              \/ folded = {} /\ stack' = Append(Pop(2), new)
    BY DEF onBinaryExpression, Push, Stop, CastTo
  <1>3. mean = BinaryMean(op, l, r, typing) /\ typing = Typing(op, l.type, r.type)
    OBVIOUS
  <1>. HIDE DEF l, r, typing, mean
  <1>4. CASE stack' = <<>>
    BY <1>4, EmptyKeeps
  <1>5. CASE typing.result # None /\ ~FoldError(op, l, r)
    <2>1. Accepted(op, l, r, typing)
      BY <1>1, <1>3, <1>5 DEF Accepted
    <2>2. ASSUME NEW node \in folded, stack' = Append(Pop(2), node) PROVE IInv'
      <3>1. IsExpression(node) /\ node.kind # "range"
        BY <1>3, <1>5, <2>1, <2>2, FoldIsExpression
      <3>. QED  BY <1>1, <2>2, <3>1, ExpressionIsElement, PushKeeps
    <2>3. ASSUME folded = {}, stack' = Append(Pop(2), new) PROVE IInv'
      <3>1. IsExpression(new) /\ new.kind # "range"
        BY <1>3, <2>1, <2>3, BinaryNode
      <3>. HIDE DEF new
      <3>. QED  BY <1>1, <2>3, <3>1, ExpressionIsElement, PushKeeps
    <2>. QED  BY <1>2, <1>4, <2>2, <2>3
  <1>. QED  BY <1>2, <1>4, <1>5

(* A range has typed bounds, one of them cast if the other is wider. *)
LEMMA RangeStep ==
    ASSUME IInv, onRangeExpression
    PROVE  IInv'
  <1>. DEFINE l == Top(2)
              r == Top(1)
              lower == IF Size[l.type] < Size[r.type] THEN cast(l, r.type) ELSE l
              upper == IF Size[l.type] > Size[r.type] THEN cast(r, l.type) ELSE r
              type == IF Size[l.type] < Size[r.type] THEN r.type ELSE l.type
              element == [kind |-> "range", lower |-> lower, upper |-> upper, type |-> type]
  <1>1. AreExpressions(2) /\ 2 \in 0 .. Len(stack) /\ IsExpression(l) /\ IsExpression(r)
    BY TopNodes DEF onRangeExpression
  <1>2. \/ stack' = <<>>
        \/ /\ {l.type, r.type} \subseteq Integers \/ {l.type, r.type} = {"CHAR"}
           /\ stack' = Append(Pop(2), element)
    BY DEF onRangeExpression, Push, Stop
  <1>. HIDE DEF l, r
  <1>3. CASE stack' = <<>>
    BY <1>3, EmptyKeeps
  <1>4. ASSUME {l.type, r.type} \subseteq Integers \/ {l.type, r.type} = {"CHAR"}, stack' = Append(Pop(2), element)
        PROVE  IInv'
    <2>1. l.type \notin RealTypes /\ r.type \notin RealTypes
      BY <1>4 DEF Integers, RealTypes
    <2>2. IsTyped(lower) /\ IsTyped(upper)
      BY <1>1, <2>1, BoundIsTyped
    <2>. HIDE DEF lower, upper, type
    <2>3. IsElement(element)
      BY <2>2 DEF IsElement
    <2>. QED  BY <1>1, <1>4, <2>3, PushKeeps
  <1>. QED  BY <1>2, <1>3, <1>4

(* The nodes on top of the stack, as the elements of a set *)
LEMMA ElementsOfSet ==
    ASSUME IInv, NEW n \in 0 .. Len(stack)
    PROVE  LET elements == SubSeq(stack, Len(stack) - n + 1, Len(stack))
           IN  /\ DOMAIN elements = 1 .. Len(elements) /\ Len(elements) \in Nat
               /\ \A k \in DOMAIN elements : \E i \in DOMAIN stack : elements[k] = stack[i]
  <1>. DEFINE elements == SubSeq(stack, Len(stack) - n + 1, Len(stack))
              S == {stack[i] : i \in DOMAIN stack}
              first == Len(stack) - n + 1
  <1>1. stack \in Seq(S)
    BY DEF IInv
  <1>2. Len(stack) \in Nat /\ DOMAIN stack = 1 .. Len(stack) /\ first \in 1 .. Len(stack) + 1
    BY StackIsSequence
  <1>3. \A i \in first .. Len(stack) : stack[i] \in S
    BY <1>2
  <1>. HIDE DEF S
  <1>4. /\ Len(elements) = IF first <= Len(stack) THEN Len(stack) - first + 1 ELSE 0
        /\ \A i \in 1 .. Len(stack) - first + 1 : elements[i] = stack[first + i - 1]
        /\ elements \in Seq(S)
    <2>1. elements = SubSeq(stack, first, Len(stack)) /\ first \in Int /\ Len(stack) \in Int
      BY <1>2
    <2>. HIDE DEF first, elements
    <2>. QED  BY <1>3, <2>1, SubSeqProperties
  <1>5. DOMAIN elements = 1 .. Len(elements) /\ Len(elements) \in Nat
    BY <1>4, LenProperties
  <1>. HIDE DEF elements
  <1>6. ASSUME NEW k \in DOMAIN elements PROVE \E i \in DOMAIN stack : elements[k] = stack[i]
    <2>1. k \in 1 .. Len(stack) - first + 1 /\ first + k - 1 \in DOMAIN stack
      BY <1>2, <1>4, <1>5, SMTT(30)
    <2>. QED  BY <1>4, <2>1
  <1>. QED  BY <1>5, <1>6 DEF elements

(* A set of the elements on top of the stack *)
LEMMA SetStep ==
    ASSUME IInv, NEW n \in 0 .. 2, onSetExpression(n)
    PROVE  IInv'
  <1>. DEFINE elements == SubSeq(stack, Len(stack) - n + 1, Len(stack))
              mean == SetMean(elements)
              bits == UNION {ElementBits(elements[k]) : k \in DOMAIN elements}
              node == IF \A k \in DOMAIN elements : IsConstant(elements[k]) THEN Literal(bits, "SET", mean)
                      ELSE Node("SET", SetExpressionCode(elements), mean)
  <1>1. n \in 0 .. Len(stack)
    BY StackIsSequence DEF onSetExpression
  <1>2. stack' = <<>> \/ stack' = Append(Pop(n), node)
    BY DEF onSetExpression, Push
  <1>3. \A k \in DOMAIN elements : IsElement(elements[k])
    BY <1>1, ElementsOfSet DEF IInv
  <1>4. CASE stack' = <<>>
    BY <1>4, EmptyKeeps
  <1>5. CASE stack' = Append(Pop(n), node)
    <2>1. mean = SetMean(elements)
      OBVIOUS
    <2>. HIDE DEF elements, mean, bits
    <2>2. IsExpression(node) /\ node.kind # "range"
      BY <1>3, <2>1, SetIsExpression
    <2>. HIDE DEF node
    <2>. QED  BY <1>1, <1>5, <2>2, ExpressionIsElement, PushKeeps
  <1>. QED  BY <1>2, <1>4, <1>5

(* An assignment leaves the stack as it is, or empties it. *)
LEMMA AssignmentStep ==
    ASSUME IInv, NEW type, onAssignment(type)
    PROVE  IInv'
  <1>1. stack' = stack \/ stack' = <<>>
    BY DEF onAssignment, Stop
  <1>2. CASE stack' = stack
    BY <1>2 DEF IInv
  <1>. QED  BY <1>1, <1>2, EmptyKeeps

-----------------------------------------------------------------------------
(* The invariants *)

(* The inductive invariant: the expressions that the parser holds are well   *)
(* formed, and those without a departure are typed and folded as they are    *)
(* meant, and are cast to no other type than their own.                      *)
THEOREM ExpressionInvariant == Spec => []IInv
  <1>1. Init => IInv
    BY EmptySeq DEF Init, IInv
  <1>2. IInv /\ [Next]_vars => IInv'
    <2>. SUFFICES ASSUME IInv, [Next]_vars PROVE IInv'
      OBVIOUS
    <2>1. ASSUME NEW type \in DOMAIN Literals, NEW value \in Literals[type], onLiteral(type, value) PROVE IInv'
      BY <2>1, LiteralStep
    <2>2. ASSUME NEW x \in DOMAIN VarType \ Functions, onQualifiedExpression(x) PROVE IInv'
      <3>1. IsExpression(Reference(x, 0)) /\ Reference(x, 0).kind # "range"
        BY ReferenceIsExpression
      <3>2. stack' = Append(Pop(0), Reference(x, 0))
        BY <2>2 DEF onQualifiedExpression, Push
      <3>. QED  BY <3>1, <3>2, ExpressionIsElement, StackIsSequence, PushKeeps
    <2>3. ASSUME NEW f \in Functions, onCall(f) PROVE IInv'
      <3>1. IsExpression(Reference(f, 1)) /\ Reference(f, 1).kind # "range"
        BY ReferenceIsExpression, ExpressionsAssumption
      <3>2. stack' = Append(Pop(0), Reference(f, 1))
        BY <2>3 DEF onCall, Push
      <3>. QED  BY <3>1, <3>2, ExpressionIsElement, StackIsSequence, PushKeeps
    <2>4. ASSUME NEW op \in {"-", "~"}, onUnaryExpression(op) PROVE IInv'
      BY <2>4, UnaryStep
    <2>5. ASSUME NEW op \in Relations \cup {"IN", "+", "-", "*", "/", "DIV", "MOD", "&", "OR"}, onBinaryExpression(op)
          PROVE IInv'
      BY <2>5, BinaryStep
    <2>6. ASSUME onRangeExpression PROVE IInv'
      BY <2>6, RangeStep
    <2>7. ASSUME NEW n \in 0 .. 2, onSetExpression(n) PROVE IInv'
      BY <2>7, SetStep
    <2>8. ASSUME NEW type \in Targets, onAssignment(type) PROVE IInv'
      BY <2>8, AssignmentStep
    <2>9. CASE UNCHANGED vars
      BY <2>9 DEF vars, IInv
    <2>. QED  BY <2>1, <2>2, <2>3, <2>4, <2>5, <2>6, <2>7, <2>8, <2>9 DEF Next
  <1>. QED  BY <1>1, <1>2, PTL DEF Spec

(* The operands of every instruction have its type: for any widths of the    *)
(* types, variables, literals and expressions, of any size.                  *)
THEOREM CodeIsAlwaysTyped == Spec => []CodeIsTyped
  <1>1. IInv => CodeIsTyped
    <2>. SUFFICES ASSUME IInv, NEW k \in DOMAIN stack, stack[k].kind # "range" PROVE HasType(stack[k])
      BY DEF CodeIsTyped, AllExpressions
    <2>1. IsTyped(stack[k])
      BY DEF IInv, IsElement, IsExpression
    <2>. QED  BY <2>1 DEF IsTyped, HasType
  <1>. QED  BY <1>1, ExpressionInvariant, PTL

(* The compiler gives an expression a type that includes the one it has in   *)
(* the language, and one that is real only if that is.                       *)
THEOREM TypesAreAlwaysMeant == Spec => []TypesAreMeant
  <1>1. IInv => TypesAreMeant
    <2>. SUFFICES ASSUME IInv, NEW k \in DOMAIN stack, stack[k].kind # "range" PROVE IncludesType(stack[k])
      BY DEF TypesAreMeant, AllExpressions
    <2>. DEFINE n == stack[k]
    <2>1. IsTyped(n)
      BY DEF IInv, IsElement, IsExpression
    <2>2. ASSUME n.mean.limits = {}
          PROVE  Larger(n.type, n.mean.type) = n.type /\ (n.type \in RealTypes <=> n.mean.type \in RealTypes)
      <3>1. Includes(n.type, n.mean.type)
        BY <2>1, <2>2 DEF IsTyped
      <3>. QED  BY <3>1, RanksOfNumbers DEF Includes, Larger
    <2>. QED  BY <2>2 DEF IncludesType
  <1>. QED  BY <1>1, ExpressionInvariant, PTL

-----------------------------------------------------------------------------
(* Values *)

(* The kinds of values of the basic types *)
LEMMA KindsOfValues ==
    /\ \A t \in RealTypes : ValuesOf(t) = Int
    /\ \A t \in Integers : ValuesOf(t) = Signed(Bits[t]) /\ ValuesOf(t) \subseteq Int
    /\ ValuesOf("BYTE") = 0 .. 2 ^ Bits["BYTE"] - 1 /\ ValuesOf("CHAR") = 0 .. 2 ^ Bits["CHAR"] - 1
    /\ ValuesOf("BOOLEAN") = BOOLEAN /\ ValuesOf("SET") = SUBSET Word
    /\ \A t \in Numeric : ValuesOf(t) \subseteq Int
  <1>1. \A t \in RealTypes : ValuesOf(t) = Int
    BY DEF ValuesOf
  <1>2. \A t \in Integers : ValuesOf(t) = Signed(Bits[t]) /\ ValuesOf(t) \subseteq Int
    BY IntegerValues DEF ValuesOf, Integers, RealTypes
  <1>3. /\ ValuesOf("BYTE") = 0 .. 2 ^ Bits["BYTE"] - 1 /\ ValuesOf("CHAR") = 0 .. 2 ^ Bits["CHAR"] - 1
        /\ ValuesOf("BOOLEAN") = BOOLEAN /\ ValuesOf("SET") = SUBSET Word
    BY DEF ValuesOf, Values, Integers, RealTypes
  <1>4. 0 .. 2 ^ Bits["BYTE"] - 1 \subseteq Int
    OBVIOUS
  <1>5. ASSUME NEW t \in Numeric PROVE ValuesOf(t) \subseteq Int
    BY <1>1, <1>2, <1>3, <1>4 DEF Numeric
  <1>. QED  BY <1>1, <1>2, <1>3, <1>5

(* None of them is the undefined one. *)
LEMMA ValuesAreDefined ==
    ASSUME NEW t \in Types, NEW v \in ValuesOf(t)
    PROVE  v # Undef
  <1>1. CASE t \in Numeric \/ t = "CHAR"
    <2>1. 0 .. 2 ^ Bits["CHAR"] - 1 \subseteq Int
      OBVIOUS
    <2>2. v \in Int
      BY <1>1, <2>1, KindsOfValues
    <2>. QED  BY <2>2, UndefAssumption
  <1>2. CASE t = "BOOLEAN"
    BY <1>2, KindsOfValues, UndefAssumption
  <1>3. CASE t = "SET"
    BY <1>3, KindsOfValues, UndefAssumption
  <1>. QED  BY <1>1, <1>2, <1>3 DEF Types

(* A value that fits a type is the same in this type. *)
LEMMA FitIsSame ==
    ASSUME NEW v, NEW t, Fit(v, t) # Undef
    PROVE  /\ Fit(v, t) = v /\ v # Undef
           /\ t \notin RealTypes => v \in Values(t)
           /\ t \in RealTypes => Real(v, Bits[t]) = v
  BY DEF Fit, Real

(* Values of a type other than a real one fit it. *)
LEMMA ValueFits ==
    ASSUME NEW t \in Types \ RealTypes, NEW v \in ValuesOf(t)
    PROVE  Fit(v, t) = v
  BY ValuesAreDefined DEF Fit, ValuesOf

(* Bits of real numbers *)
LEMMA BitsOfReals ==
    /\ \A t \in Types : Bits[t] \in Nat \ {0}
    /\ "REAL" \in Types /\ "LONGREAL" \in Types /\ "BYTE" \in Types
    /\ Bits["REAL"] < Bits["LONGREAL"] /\ Bits["BYTE"] < Bits["SHORTINT"]
    /\ 2 * Bits["LONGINT"] \in Nat
  <1>1. "REAL" \in Types /\ "LONGREAL" \in Types /\ "BYTE" \in Types
    BY DEF Types, Numeric, RealTypes
  <1>. QED  BY <1>1, BitsAssumption, Widths

(* A number that has few enough bits has few enough for a longer type. *)
LEMMA RealIsMonotone ==
    ASSUME NEW b \in Nat, NEW c \in Nat, b <= c, NEW n \in Int, Real(n, b) # Undef
    PROVE  Real(n, c) = n
  <1>1. PICK e \in 0 .. 2 * Bits["LONGINT"] : Abs(n) % 2 ^ e = 0 /\ Abs(n) \div 2 ^ e < 2 ^ b
    BY DEF Real
  <1>2. e \in Nat
    BY <1>1, BitsOfReals
  <1>3. 2 ^ e \in Nat \ {0} /\ 2 ^ b \in Nat /\ 2 ^ c \in Nat /\ 2 ^ b <= 2 ^ c
    BY <1>2, PowerIsPositive, PowerIsMonotone
  <1>4. Abs(n) \in Int
    BY DEF Abs
  <1>5. Abs(n) \div 2 ^ e \in Int
    BY <1>3, <1>4
  <1>6. Abs(n) \div 2 ^ e < 2 ^ c
    BY <1>1, <1>3, <1>5
  <1>7. n # Undef
    BY UndefAssumption
  <1>. QED  BY <1>1, <1>6, <1>7 DEF Real

(* The bits of a number do not depend on its sign. *)
LEMMA RealNegates ==
    ASSUME NEW b, NEW n \in Int
    PROVE  Real(-n, b) # Undef => Real(n, b) = n /\ Real(-n, b) = -n
  <1>1. Abs(-n) = Abs(n) /\ n # Undef /\ -n # Undef /\ -n \in Int
    BY UndefAssumption DEF Abs
  <1>. QED  BY <1>1 DEF Real

(* What fits a number type fits the types that include it. *)
LEMMA FitsLarger ==
    ASSUME NEW t, NEW u \in Types, Includes(t, u), NEW v, v \in ValuesOf(u), Fit(v, u) # Undef
    PROVE  Fit(v, t) = v
  <1>1. CASE t = u
    BY <1>1, FitIsSame
  <1>2. CASE t # u
    <2>1. /\ t \in Numeric /\ u \in Numeric /\ Rank(u) <= Rank(t) /\ (t \in RealTypes <=> u \in RealTypes)
      BY <1>2 DEF Includes
    <2>2. v \in Int /\ v # Undef
      BY <2>1, KindsOfValues, ValuesAreDefined
    <2>3. CASE t \in RealTypes
      <3>1. u = "REAL" /\ t = "LONGREAL"
        BY <1>2, <2>1, <2>3, Ranks DEF RealTypes
      <3>2. Real(v, Bits["REAL"]) # Undef
        BY <2>2, <3>1, FitIsSame DEF RealTypes
      <3>3. Real(v, Bits["LONGREAL"]) = v
        BY <2>2, <3>2, BitsOfReals, RealIsMonotone
      <3>. QED  BY <2>2, <3>1, <3>3 DEF Fit, RealTypes
    <2>4. CASE t \notin RealTypes /\ u \in Integers
      <3>1. t \in Integers
        BY <2>1, <2>4, Ranks DEF Numeric, Integers, RealTypes
      <3>2. v \in Values(t)
        BY <2>1, <2>4, <3>1, FitIsSame, ValuesAreIncluded
      <3>. QED  BY <2>2, <2>4, <3>2 DEF Fit
    <2>5. CASE t \notin RealTypes /\ u = "BYTE"
      <3>1. t \in Integers
        BY <1>2, <2>1, <2>5 DEF Numeric
      <3>. DEFINE B == Bits["BYTE"]
                  S == Bits["SHORTINT"]
      <3>2. B \in Nat /\ S \in Nat \ {0} /\ B <= S - 1 /\ S - 1 \in Nat
        BY BitsOfReals, Widths
      <3>. HIDE DEF B, S
      <3>3. 2 ^ B <= 2 ^ (S - 1) /\ 2 ^ B \in Nat /\ 2 ^ (S - 1) \in Nat
        BY <3>2, PowerIsMonotone, PowerIsPositive
      <3>4. v \in 0 .. 2 ^ B - 1
        BY <2>5, KindsOfValues DEF B
      <3>5. v \in Signed(S)
        BY <3>2, <3>3, <3>4, SignedRange
      <3>6. v \in Values("SHORTINT")
        BY <3>5, IntegerValues DEF Integers, S
      <3>7. v \in Values(t)
        BY <3>1, <3>6, IntegerValues DEF Integers
      <3>. QED  BY <2>2, <2>5, <3>7 DEF Fit
    <2>. QED  BY <2>1, <2>3, <2>4, <2>5 DEF Numeric
  <1>. QED  BY <1>1, <1>2

-----------------------------------------------------------------------------
(* Bytes: unsigned numbers that instructions take for signed ones *)

(* What is wrapped stays the same modulo the power of the width. *)
LEMMA WrapIsModular ==
    ASSUME NEW w \in Nat \ {0}, NEW n \in Int
    PROVE  Wrap(n, w) % 2 ^ w = n % 2 ^ w
  <1>. DEFINE H == 2 ^ (w - 1)
              M == 2 ^ w
              q == (n + H) \div M
              r == (n + H) % M
              p == n \div M
              k == n % M
  <1>1. H \in Nat \ {0} /\ M = 2 * H
    BY SignedRange
  <1>2. Wrap(n, w) = r - H
    BY DEF Wrap
  <1>. HIDE DEF H, M
  <1>3. M \in Nat /\ M > 0 /\ n + H \in Int
    BY <1>1
  <1>4. q \in Int /\ r \in Int /\ n + H = M * q + r
    BY <1>3
  <1>5. p \in Int /\ k \in Int /\ 0 <= k /\ k < M /\ n = M * p + k
    BY <1>3
  <1>. HIDE DEF p, q, r, k
  <1>6. r - H = M * (p - q) + k
    BY <1>1, <1>3, <1>4, <1>5
  <1>. DEFINE d == p - q
              e == r - H
  <1>7. d \in Int /\ e \in Int /\ e = M * d + k
    BY <1>1, <1>4, <1>5, <1>6
  <1>. HIDE DEF d, e
  <1>8. k = e % M
    BY <1>3, <1>5, <1>7, QuotientIsUnique
  <1>. QED  BY <1>2, <1>8 DEF k, M, e

(* Sums, differences and products that fit are the same modulo M. *)
LEMMA ModularArithmetic ==
    ASSUME NEW M \in Nat \ {0}, NEW x \in Int, NEW y \in Int, NEW a, NEW b, a = x % M, b = y % M
    PROVE  /\ a + b \in 0 .. M - 1 => (x + y) % M = a + b
           /\ a - b \in 0 .. M - 1 => (x - y) % M = a - b
           /\ a * b \in 0 .. M - 1 => (x * y) % M = a * b
  <1>. DEFINE p == x \div M
              q == y \div M
  <1>1. p \in Int /\ q \in Int /\ a \in Int /\ b \in Int /\ x = M * p + a /\ y = M * q + b /\ M > 0
    OBVIOUS
  <1>. HIDE DEF p, q
  <1>2. ASSUME a + b \in 0 .. M - 1 PROVE (x + y) % M = a + b
    <2>1. x + y = M * (p + q) + (a + b)
      BY <1>1
    <2>. QED  BY <1>1, <1>2, <2>1, QuotientIsUnique
  <1>3. ASSUME a - b \in 0 .. M - 1 PROVE (x - y) % M = a - b
    <2>1. x - y = M * (p - q) + (a - b)
      BY <1>1
    <2>. QED  BY <1>1, <1>3, <2>1, QuotientIsUnique
  <1>4. ASSUME a * b \in 0 .. M - 1 PROVE (x * y) % M = a * b
    <2>. DEFINE m == M * p * q + p * b + a * q
    <2>1. x * y = M * m + a * b
      BY <1>1
    <2>2. m \in Int /\ a * b \in Int /\ x * y \in Int
      BY <1>1
    <2>. DEFINE e == x * y
                c == a * b
    <2>3. e = M * m + c /\ m \in Int /\ c \in 0 .. M - 1 /\ e \in Int
      BY <1>4, <2>1, <2>2
    <2>. HIDE DEF m, e, c
    <2>4. c = e % M
      BY <1>1, <2>3, QuotientIsUnique
    <2>. QED  BY <2>4 DEF e, c
  <1>. QED  BY <1>2, <1>3, <1>4

(* A negative number that fits is the same modulo M. *)
LEMMA ModularNegation ==
    ASSUME NEW M \in Nat \ {0}, NEW x \in Int, -(x % M) \in 0 .. M - 1
    PROVE  (-x) % M = -(x % M)
  <1>. DEFINE p == x \div M
              d == x % M
              e == -x
              q == -p
              z == -d
  <1>1. p \in Int /\ x = M * p + d /\ d \in 0 .. M - 1 /\ M > 0
    OBVIOUS
  <1>2. z \in 0 .. M - 1
    OBVIOUS
  <1>. HIDE DEF p, d
  <1>3. e = M * q + z /\ q \in Int /\ e \in Int
    BY <1>1
  <1>. HIDE DEF e, q, z
  <1>4. z = e % M
    BY <1>1, <1>2, <1>3, QuotientIsUnique
  <1>. QED  BY <1>4 DEF e, z, d

(* Signed numbers are the same if they are the same modulo the power of      *)
(* their width.                                                              *)
LEMMA SignedAreDistinct ==
    ASSUME NEW w \in Nat \ {0}, NEW x \in Signed(w), NEW y \in Signed(w), x % 2 ^ w = y % 2 ^ w
    PROVE  x = y
  <1>. DEFINE H == 2 ^ (w - 1)
              M == 2 ^ w
              p == x \div M
              q == y \div M
              k == x % M
  <1>1. H \in Nat \ {0} /\ M = 2 * H /\ x \in -H .. H - 1 /\ y \in -H .. H - 1
    BY SignedRange
  <1>2. k = y % M
    OBVIOUS
  <1>. HIDE DEF H, M
  <1>3. x \in Int /\ y \in Int /\ M \in Nat /\ M > 0 /\ x - y < M /\ y - x < M
    BY <1>1
  <1>4. p \in Int /\ q \in Int /\ k \in Int /\ x = M * p + k /\ y = M * q + k
    BY <1>2, <1>3
  <1>. HIDE DEF p, q, k
  <1>5. p <= q
    <2>1. ASSUME p - q >= 1 PROVE FALSE
      <3>1. M * (p - q) >= M
        BY <1>3, <1>4, <2>1
      <3>2. M * (p - q) = x - y
        BY <1>3, <1>4
      <3>. QED  BY <1>3, <1>4, <3>1, <3>2
    <2>. QED  BY <1>4, <2>1
  <1>6. q <= p
    <2>1. ASSUME q - p >= 1 PROVE FALSE
      <3>1. M * (q - p) >= M
        BY <1>3, <1>4, <2>1
      <3>2. M * (q - p) = y - x
        BY <1>3, <1>4
      <3>. QED  BY <1>3, <1>4, <3>1, <3>2
    <2>. QED  BY <1>4, <2>1
  <1>. QED  BY <1>4, <1>5, <1>6

-----------------------------------------------------------------------------
(* The value of code *)

(* What an instruction holds for a value of a type *)
Holds(x, t, v) == IF t = "BYTE" THEN x \in Signed(Bits["BYTE"]) /\ x % 2 ^ Bits["BYTE"] = v ELSE x = v

(* What code yields in a memory: a value, and calls of functions *)
Yields(c, t, v, calls) == c = [v |-> c.v, calls |-> calls] /\ Holds(c.v, t, v)

(* Instructions hold values that are defined. *)
LEMMA HeldIsDefined ==
    ASSUME NEW x, NEW t \in Types, NEW v \in ValuesOf(t), Holds(x, t, v)
    PROVE  x # Undef /\ (t \in Numeric => x \in Int)
  <1>1. CASE t = "BYTE"
    <2>1. Bits["BYTE"] \in Nat \ {0} /\ x \in Signed(Bits["BYTE"])
      BY <1>1, BitsOfReals DEF Holds
    <2>2. Signed(Bits["BYTE"]) \subseteq Int
      BY <2>1, SignedRange
    <2>. QED  BY <2>1, <2>2, UndefAssumption
  <1>2. CASE t # "BYTE"
    BY <1>2, ValuesAreDefined, KindsOfValues DEF Holds
  <1>. QED  BY <1>1, <1>2

(* Bytes as signed numbers *)
LEMMA ByteIsHeld ==
    ASSUME NEW n \in Int, NEW v \in ValuesOf("BYTE"), n % 2 ^ Bits["BYTE"] = v
    PROVE  Holds(Wrap(n, Bits["BYTE"]), "BYTE", v)
  BY BitsOfReals, WrapFits, WrapIsModular DEF Holds

(* A small number is itself modulo a larger one. *)
LEMMA SmallModulo ==
    ASSUME NEW M \in Nat, M > 0, NEW n \in 0 .. M - 1
    PROVE  n % M = n
  <1>1. n = M * 0 + n
    OBVIOUS
  <1>. QED  BY <1>1, QuotientIsUnique

(* Numbers that a cast keeps, if they fit the type they are cast to: only    *)
(* bytes are not cast to real types.                                         *)
IsCast(s, t) == {s, t} \subseteq Numeric /\ (s \in RealTypes => t \in RealTypes) /\ (s = "BYTE" => t \notin RealTypes)

LEMMA ConvertKeeps ==
    ASSUME NEW s \in Types, NEW t \in Types, s # t, IsCast(s, t), NEW v \in ValuesOf(s), Fit(v, t) # Undef,
           NEW x, Holds(x, s, v)
    PROVE  Holds(Convert(x, s, t), t, v)
  <1>1. v \in Int /\ x \in Int /\ x # Undef
    BY HeldIsDefined, KindsOfValues DEF IsCast
  <1>2. (t \notin RealTypes => v \in ValuesOf(t)) /\ (t \in RealTypes => Real(v, Bits[t]) = v)
    BY FitIsSame DEF ValuesOf
  <1>3. Size["BYTE"] = 1 /\ \A u \in Integers : Size[u] \in Nat /\ Size[u] > 1
    BY DEF Size, Integers
  <1>4. CASE t \in RealTypes
    <2>1. Convert(x, s, t) = Real(x, Bits[t]) /\ s # "BYTE" /\ t # "BYTE"
      BY <1>1, <1>4 DEF Convert, IsCast, RealTypes
    <2>. QED  BY <1>2, <1>4, <2>1 DEF Holds
  <1>5. CASE t \in Integers /\ s = "BYTE"
    <2>1. Convert(x, s, t) = x % 2 ^ Bits["BYTE"]
      BY <1>1, <1>3, <1>5 DEF Convert, Integers, RealTypes
    <2>. QED  BY <1>5, <2>1 DEF Holds, Integers
  <1>6. CASE t \in Integers /\ s # "BYTE"
    <2>1. x = v /\ t # "BYTE" /\ t \notin RealTypes
      BY <1>6 DEF Holds, Integers, RealTypes
    <2>2. Convert(x, s, t) \in {x, Wrap(x, Bits[t])}
      BY <1>1, <1>6, <2>1 DEF Convert
    <2>3. v \in Signed(Bits[t]) /\ Bits[t] \in Nat \ {0}
      BY <1>2, <1>6, <2>1, BitsOfReals, KindsOfValues
    <2>4. Wrap(x, Bits[t]) = v
      BY <1>1, <2>1, <2>3, WrapFits
    <2>. QED  BY <2>1, <2>2, <2>4 DEF Holds
  <1>7. CASE t = "BYTE"
    <2>1. s \in Integers /\ x = v /\ t \notin RealTypes
      BY <1>7 DEF Holds, IsCast, Numeric, RealTypes
    <2>2. Convert(x, s, t) = Wrap(v, Bits["BYTE"])
      BY <1>1, <1>3, <1>7, <2>1 DEF Convert
    <2>3. v \in ValuesOf("BYTE") /\ v \in 0 .. 2 ^ Bits["BYTE"] - 1
      BY <1>2, <1>7, <2>1, KindsOfValues
    <2>4. 2 ^ Bits["BYTE"] \in Nat /\ 2 ^ Bits["BYTE"] > 0
      BY BitsOfReals, PowerIsPositive
    <2>5. v % 2 ^ Bits["BYTE"] = v
      BY <2>3, <2>4, SmallModulo
    <2>. QED  BY <1>1, <1>7, <2>2, <2>3, <2>5, ByteIsHeld
  <1>. QED  BY <1>4, <1>5, <1>6, <1>7 DEF IsCast, Numeric

(* The types of numbers differ in code, too. *)
LEMMA CodeTypesDiffer ==
    ASSUME NEW s \in Numeric, NEW t \in Numeric, s # t
    PROVE  getLLVMType[s] # getLLVMType[t]
  BY LLVMTypes DEF Numeric, Integers, RealTypes

(* Code that is cast *)
LEMMA CastCodeAt ==
    ASSUME NEW code, NEW s, NEW t, s # t, IsCast(s, t), code.ll = getLLVMType[s], NEW m \in DOMAIN Memories
    PROVE  CastCode(code, s, t).at[m] = [code.at[m] EXCEPT !.v = Convert(@, s, t)]
  <1>1. t # None /\ s \in Numeric /\ t \in Numeric
    BY ExpressionsAssumption DEF IsCast, Types
  <1>2. code.ll # getLLVMType[t]
    BY <1>1, CodeTypesDiffer
  <1>3. ~(s \in Integers \cup {"BYTE"} /\ t \notin Integers \cup {"BYTE"} \cup RealTypes)
    BY <1>1 DEF Numeric
  <1>4. ~(s \in RealTypes /\ t \notin RealTypes)
    BY DEF IsCast
  <1>. DEFINE at == [i \in DOMAIN Memories |-> [code.at[i] EXCEPT !.v = Convert(@, s, t)]]
  <1>5. CastCode(code, s, t) = Code(getLLVMType[t], at)
    BY <1>1, <1>2, <1>3, <1>4 DEF CastCode
  <1>6. at[m] = [code.at[m] EXCEPT !.v = Convert(@, s, t)]
    OBVIOUS
  <1>. HIDE DEF at
  <1>. QED  BY <1>5, <1>6 DEF Code

(* A cast keeps what code yields. *)
LEMMA CastYields ==
    ASSUME NEW code, NEW s \in Types, NEW t \in Types, NEW v \in ValuesOf(s), s = t \/ (IsCast(s, t) /\ Fit(v, t) # Undef),
           code.ll = getLLVMType[s], NEW m \in DOMAIN Memories, NEW calls, Yields(code.at[m], s, v, calls)
    PROVE  Yields(CastCode(code, s, t).at[m], t, v, calls)
  <1>1. CASE s = t
    BY <1>1, NoCast
  <1>2. CASE s # t
    <2>. DEFINE c == code.at[m]
                x == Convert(c.v, s, t)
    <2>1. Holds(x, t, v)
      BY <1>2, ConvertKeeps DEF Yields
    <2>2. c = [v |-> c.v, calls |-> calls]
      BY DEF Yields
    <2>3. CastCode(code, s, t).at[m] = [c EXCEPT !.v = x]
      BY <1>2, CastCodeAt
    <2>. HIDE DEF c, x
    <2>4. CastCode(code, s, t).at[m] = [v |-> x, calls |-> calls]
      BY <2>2, <2>3
    <2>. QED  BY <2>1, <2>4 DEF Yields
  <1>. QED  BY <1>1, <1>2

-----------------------------------------------------------------------------
(* The inductive invariant *)

(* The meaning of an expression is a value of its type, or undefined; a      *)
(* literal has this value, and other code computes it if it fits.            *)
ValuedAt(n, m) ==
    LET d == n.mean.at[m].v
        calls == n.mean.at[m].calls
    IN  /\ calls \in Nat /\ (isLiteral(n) => calls = 0)
        /\ d # Undef => d \in ValuesOf(n.mean.type) /\ (isLiteral(n) => n.val = d)
        /\ ~isLiteral(n) /\ Fit(d, n.mean.type) # Undef => Yields(n.code.at[m], n.type, d, calls)

Valued(n) ==
    /\ isLiteral(n) => n.code = LiteralCode(n.val, n.type)
    /\ \A m \in DOMAIN Memories : ValuedAt(n, m)

(* What has a meaning in a memory, if it fits the type of the expression *)
Meant(n, m) == Fit(n.mean.at[m].v, n.mean.type) # Undef

(* Types that include each other are types. *)
LEMMA IncludedIsType ==
    ASSUME NEW t \in Types, NEW u, Includes(t, u)
    PROVE  u \in Types
  BY DEF Includes, Types

(* What a type includes is a value of the type. *)
LEMMA FitIsValue ==
    ASSUME NEW t \in Types, NEW u \in Types, Includes(t, u), NEW v \in ValuesOf(u), Fit(v, u) # Undef
    PROVE  v \in ValuesOf(t) /\ Fit(v, t) = v
  <1>1. Fit(v, t) = v /\ v # Undef
    BY FitsLarger, FitIsSame
  <1>2. CASE t \in RealTypes
    <2>1. u \in RealTypes
      BY <1>2 DEF Includes
    <2>. QED  BY <1>1, <1>2, <2>1, KindsOfValues
  <1>3. CASE t \notin RealTypes
    BY <1>1, <1>3, FitIsSame DEF ValuesOf
  <1>. QED  BY <1>1, <1>2, <1>3

(* The code of a literal *)
LEMMA LiteralYields ==
    ASSUME NEW val, NEW t \in Types \ {"BYTE"}, Fit(val, t) # Undef, NEW m \in DOMAIN Memories
    PROVE  Yields(LiteralCode(val, t).at[m], t, val, 0)
  <1>1. CASE t \in Integers
    <2>1. t \notin RealTypes
      BY <1>1 DEF Integers, RealTypes
    <2>2. val \in Signed(Bits[t]) /\ Bits[t] \in Nat \ {0} /\ val \in Int
      BY <1>1, <2>1, FitIsSame, IntegerValues, BitsOfReals
    <2>3. Wrap(val, Bits[t]) = val
      BY <2>2, WrapFits
    <2>4. LiteralCode(val, t).at[m] = [v |-> Wrap(val, Bits[t]), calls |-> 0]
      BY <1>1 DEF LiteralCode, IntegerLiteral, Code
    <2>. QED  BY <2>3, <2>4 DEF Yields, Holds
  <1>2. CASE t \in RealTypes
    <2>1. t \notin Integers
      BY <1>2 DEF Integers, RealTypes
    <2>2. LiteralCode(val, t).at[m] = [v |-> Real(val, Bits[t]), calls |-> 0]
      BY <1>2, <2>1 DEF LiteralCode, RealLiteral, Code
    <2>. QED  BY <1>2, <2>2, FitIsSame DEF Yields, Holds
  <1>3. CASE t \notin Integers /\ t \notin RealTypes
    <2>1. LiteralCode(val, t).at[m] = [v |-> val, calls |-> 0]
      BY <1>3 DEF LiteralCode, Code
    <2>. QED  BY <2>1 DEF Yields, Holds
  <1>. QED  BY <1>1, <1>2, <1>3

(* What the code of an expression yields, be it a literal or not *)
LEMMA NodeYields ==
    ASSUME NEW n, IsTyped(n), n.mean.limits = {}, Valued(n), NEW m \in DOMAIN Memories, Meant(n, m)
    PROVE  LET d == n.mean.at[m].v
           IN  /\ d \in ValuesOf(n.mean.type) /\ d \in ValuesOf(n.type) /\ Fit(d, n.type) = d
               /\ Yields(n.code.at[m], n.type, d, n.mean.at[m].calls)
  <1>. DEFINE d == n.mean.at[m].v
              t == n.type
              u == n.mean.type
  <1>1. ValuedAt(n, m) /\ Fit(d, u) # Undef /\ (isLiteral(n) => n.code = LiteralCode(n.val, t))
    BY DEF Valued, Meant
  <1>2. t \in Types /\ Includes(t, u) /\ (isLiteral(n) => t # "BYTE")
    BY DEF IsTyped, IsNode
  <1>3. d \in ValuesOf(u) /\ (isLiteral(n) => n.val = d /\ n.mean.at[m].calls = 0)
    BY <1>1, FitIsSame DEF ValuedAt
  <1>4. u \in Types
    BY <1>2, IncludedIsType
  <1>5. d \in ValuesOf(t) /\ Fit(d, t) = d /\ d # Undef
    <2>. HIDE DEF d, t, u
    <2>. QED  BY <1>1, <1>2, <1>3, <1>4, FitIsValue, FitIsSame
  <1>6. CASE isLiteral(n)
    <2>1. Yields(LiteralCode(d, t).at[m], t, d, 0)
      <3>. HIDE DEF d, t, u
      <3>. QED  BY <1>2, <1>5, <1>6, LiteralYields
    <2>. QED  BY <1>1, <1>3, <1>5, <1>6, <2>1
  <1>7. CASE ~isLiteral(n)
    BY <1>1, <1>3, <1>5, <1>7 DEF ValuedAt
  <1>. QED  BY <1>6, <1>7

(* An integer literal that is cast to a real type loses bits on the way. *)
IsInexact(n, t) == t = "LONGREAL" /\ isLiteral(n) /\ n.type \in Integers /\ Fit(n.val, "REAL") = Undef

(* The operand of an instruction yields what it means, in the type that it   *)
(* is cast to.                                                               *)
LEMMA OperandYields ==
    ASSUME NEW n, IsExpression(n), n.mean.limits = {}, Valued(n), NEW m \in DOMAIN Memories, Meant(n, m),
           NEW t \in Types, n.type = t \/ (IsCast(n.type, t) /\ Fit(n.mean.at[m].v, t) # Undef), ~IsInexact(n, t)
    PROVE  /\ n.mean.at[m].v \in ValuesOf(t)
           /\ Yields(Operand(cast(n, t)).at[m], t, n.mean.at[m].v, n.mean.at[m].calls)
  <1>. DEFINE d == n.mean.at[m].v
              s == n.type
              calls == n.mean.at[m].calls
  <1>1. /\ d \in ValuesOf(s) /\ Yields(n.code.at[m], s, d, calls)
        /\ s \in Types /\ n.code.ll = getLLVMType[s] /\ n.cast \in {None, s} /\ IsNode(n)
    BY NodeYields DEF IsExpression, IsTyped, IsNode
  <1>2. s = t \/ (IsCast(s, t) /\ Fit(d, t) # Undef)
    OBVIOUS
  <1>3. d \in ValuesOf(t)
    <2>1. CASE s = t
      BY <1>1, <2>1
    <2>2. CASE t \in RealTypes /\ IsCast(s, t)
      <3>1. s \in Numeric
        BY <2>2 DEF IsCast
      <3>. HIDE DEF d, s
      <3>. QED  BY <1>1, <2>2, <3>1, KindsOfValues
    <2>3. CASE t \notin RealTypes /\ Fit(d, t) # Undef
      <3>. HIDE DEF d
      <3>. QED  BY <2>3, FitIsSame DEF ValuesOf
    <2>. QED  BY <1>2, <2>1, <2>2, <2>3
  <1>4. CASE s = t
    <2>1. cast(n, t) = n /\ Operand(n) = n.code
      BY <1>1, <1>4, NoCast DEF cast, Operand
    <2>. QED  BY <1>1, <1>3, <1>4, <2>1
  <1>5. CASE s # t /\ ~(isLiteral(n) /\ t \in RealTypes /\ s \in Integers)
    <2>1. cast(n, t) = [n EXCEPT !.cast = t]
      BY <1>5 DEF cast
    <2>2. Operand(cast(n, t)) = CastCode(n.code, s, t)
      BY <1>1, <2>1, CastNode DEF Operand
    <2>. HIDE DEF d, s, calls
    <2>3. Yields(CastCode(n.code, s, t).at[m], t, d, calls)
      BY <1>1, <1>2, CastYields
    <2>. QED  BY <1>3, <2>2, <2>3 DEF d, calls
  <1>6. CASE s # t /\ isLiteral(n) /\ t \in RealTypes /\ s \in Integers
    <2>. DEFINE real == RealLiteral(d, "REAL")
    <2>1. /\ n.val = d /\ calls = 0 /\ Fit(d, t) # Undef /\ d \in Int
      <3>1. ValuedAt(n, m) /\ d # Undef /\ d \in Int
        BY <1>1, <1>6, ValuesAreDefined, KindsOfValues DEF Valued
      <3>. QED  BY <1>2, <1>6, <3>1 DEF ValuedAt
    <2>2. Fit(d, "REAL") # Undef /\ "REAL" \in Types /\ d \in ValuesOf("REAL")
      BY <1>6, <2>1, BitsOfReals, KindsOfValues DEF IsInexact, RealTypes
    <2>3. cast(n, t) = [n EXCEPT !.type = "REAL", !.cast = t, !.code = real]
      BY <1>6, <2>1 DEF cast
    <2>4. real.ll = getLLVMType["REAL"] /\ real.at[m] = [v |-> Real(d, Bits["REAL"]), calls |-> 0]
      BY DEF RealLiteral, Code
    <2>5. Yields(real.at[m], "REAL", d, calls)
      <3>. HIDE DEF real, d
      <3>. QED  BY <2>1, <2>2, <2>4, FitIsSame DEF Yields, Holds, RealTypes
    <2>. HIDE DEF real
    <2>6. cast(n, t).type = "REAL" /\ cast(n, t).cast = t /\ cast(n, t).code = real
      BY <1>1, <2>3 DEF IsNode
    <2>7. "REAL" = t \/ IsCast("REAL", t)
      BY <1>6 DEF IsCast, Numeric, RealTypes
    <2>. HIDE DEF d, s, calls
    <2>8. Yields(CastCode(real, "REAL", t).at[m], t, d, calls)
      BY <2>1, <2>2, <2>4, <2>5, <2>7, CastYields
    <2>. QED  BY <1>3, <2>6, <2>8 DEF Operand, d, calls
  <1>. QED  BY <1>4, <1>5, <1>6

-----------------------------------------------------------------------------
(* Operators on numbers *)

(* What operators on numbers mean *)
LEMMA MeaningOfNumbers ==
    ASSUME NEW type \in Numeric, NEW a \in Int, NEW b \in Int
    PROVE  /\ Meaning("+", type, a, b) = a + b
           /\ Meaning("-", type, a, b) = a - b
           /\ Meaning("*", type, a, b) = a * b
           /\ Meaning("/", type, a, b) = Quotient(a, b)
           /\ Meaning("DIV", type, a, b) = IF b > 0 THEN a \div b ELSE Undef
           /\ Meaning("MOD", type, a, b) = IF b > 0 THEN a % b ELSE Undef
           /\ \A op \in Relations : Meaning(op, type, a, b) = Compare(op, a, b)
  <1>1. a # Undef /\ b # Undef /\ type # "SET" /\ type # "BOOLEAN"
    BY UndefAssumption DEF Numeric, Integers, RealTypes
  <1>2. \A op \in Relations : Meaning(op, type, a, b) = Compare(op, a, b)
    BY <1>1, Zenon DEF Meaning, Relations
  <1>. QED  BY <1>1, <1>2 DEF Meaning, Relations

(* The width of a number in code *)
LEMMA WidthOfNumber ==
    ASSUME NEW c \in Numeric
    PROVE  Width[getLLVMType[c]] = Bits[c] /\ Bits[c] \in Nat \ {0}
           /\ (getLLVMType[c] \in Floats <=> c \in RealTypes)
  <1>1. Bits[c] \in Nat \ {0}
    BY BitsOfReals DEF Types
  <1>2. Width[getLLVMType[c]] = Bits[c]
    BY LLVMTypes DEF Width, Numeric, Integers, RealTypes
  <1>3. getLLVMType[c] \in Floats <=> c \in RealTypes
    BY LLVMTypes DEF Floats, Numeric, Integers, RealTypes
  <1>. QED  BY <1>1, <1>2, <1>3

(* A number that fits its type is computed exactly. *)
LEMMA NumberIsCreated ==
    ASSUME NEW c \in Numeric, NEW n \in Int, NEW v \in Int, Fit(v, c) # Undef,
           IF c = "BYTE" THEN n \in Signed(Bits["BYTE"]) /\ n % 2 ^ Bits["BYTE"] = v ELSE n = v
    PROVE  Holds(createNumber(n, getLLVMType[c]), c, v)
  <1>1. CASE c \in RealTypes
    <2>1. c # "BYTE"
      BY <1>1 DEF RealTypes
    <2>2. createNumber(n, getLLVMType[c]) = Real(v, Bits[c])
      BY <1>1, <2>1, WidthOfNumber DEF createNumber
    <2>. QED  BY <1>1, <2>1, <2>2, FitIsSame DEF Holds
  <1>2. CASE c \in Integers
    <2>1. c # "BYTE" /\ c \notin RealTypes
      BY <1>2 DEF RealTypes, Integers
    <2>2. v \in Signed(Bits[c])
      BY <1>2, <2>1, FitIsSame, IntegerValues
    <2>3. createNumber(n, getLLVMType[c]) = v
      BY <2>1, <2>2, WidthOfNumber DEF createNumber
    <2>. QED  BY <2>1, <2>3 DEF Holds
  <1>3. CASE c = "BYTE"
    <2>1. c \notin RealTypes
      BY <1>3 DEF RealTypes
    <2>2. createNumber(n, getLLVMType[c]) = n
      BY <1>3, <2>1, WidthOfNumber DEF createNumber
    <2>. QED  BY <1>3, <2>2 DEF Holds
  <1>. QED  BY <1>1, <1>2, <1>3 DEF Numeric

(* Bytes are computed as signed numbers, and the result is one of them. *)
StaysSigned(op, c, x, y) ==
    c = "BYTE" /\ op \in {"+", "-", "*"} => Meaning(op, "BYTE", x, y) \in Signed(Bits["BYTE"])

(* This is so where the compiler does not depart from the language. *)
LEMMA BytesStaySigned ==
    ASSUME NEW op, NEW l, NEW r, NEW c, Departures(op, l, r, c) = {}, NEW m \in DOMAIN Memories,
           NEW a \in ValuesOf(c), a = l.mean.at[m].v, NEW b \in ValuesOf(c), b = r.mean.at[m].v,
           NEW x, NEW y, Holds(x, c, a), Holds(y, c, b)
    PROVE  StaysSigned(op, c, x, y)
  <1>. SUFFICES ASSUME c = "BYTE", op \in {"+", "-", "*"}
                PROVE  Meaning(op, "BYTE", x, y) \in Signed(Bits["BYTE"])
    BY DEF StaysSigned
  <1>. DEFINE w == Bits["BYTE"]
              Byte(v) == Wrap(v, w)
              Leaves(i, j) == i # Undef /\ j # Undef /\ Meaning(op, c, Byte(i), Byte(j)) \notin Signed(w)
  <1>1. w \in Nat \ {0} /\ c \in Types
    BY BitsOfReals
  <1>2. ASSUME NEW v \in ValuesOf(c), NEW z, Holds(z, c, v)
        PROVE  Byte(v) = z /\ v # Undef
    <2>1. v \in Int /\ v # Undef /\ v \in ValuesOf("BYTE") /\ z \in Signed(w) /\ z % 2 ^ w = v
      BY <1>1, <1>2, ValuesAreDefined, KindsOfValues DEF Holds, Numeric
    <2>2. v % 2 ^ w = v
      <3>. DEFINE M == 2 ^ w
      <3>1. M \in Nat /\ M > 0 /\ v \in 0 .. M - 1
        BY <1>1, <2>1, PowerIsPositive, KindsOfValues
      <3>. HIDE DEF M
      <3>2. v % M = v
        BY <3>1, SmallModulo
      <3>. QED  BY <3>2 DEF M
    <2>3. Byte(v) \in Signed(w) /\ Byte(v) % 2 ^ w = v
      BY <2>1, <2>2, ByteIsHeld DEF Holds
    <2>. HIDE DEF Byte, w
    <2>. QED  BY <1>1, <2>1, <2>3, SignedAreDistinct
  <1>3. ~Leaves(l.mean.at[m].v, r.mean.at[m].v)
    <2>1. "byte overflow" \notin Departures(op, l, r, c)
      OBVIOUS
    <2>. QED  BY <2>1 DEF Departures
  <1>4. Byte(a) = x /\ Byte(b) = y /\ a # Undef /\ b # Undef
    BY <1>2
  <1>. HIDE DEF Byte, w
  <1>. QED  BY <1>3, <1>4 DEF w

(* Sums, differences and products *)
LEMMA OperationHolds ==
    ASSUME NEW c \in Numeric, NEW op \in {"+", "-", "*"}, NEW a \in ValuesOf(c), NEW b \in ValuesOf(c),
           NEW x, NEW y, Holds(x, c, a), Holds(y, c, b), StaysSigned(op, c, x, y),
           NEW e, e = Meaning(op, c, a, b), Fit(e, c) # Undef
    PROVE  Holds(NumericOp(op, getLLVMType[c], x, y), c, e)
  <1>. DEFINE n == CASE op = "+" -> x + y [] op = "-" -> x - y [] op = "*" -> x * y
  <1>1. c \in Types /\ a \in Int /\ b \in Int /\ x \in Int /\ y \in Int
    BY HeldIsDefined, KindsOfValues DEF Types
  <1>2. e = CASE op = "+" -> a + b [] op = "-" -> a - b [] op = "*" -> a * b
    BY <1>1, MeaningOfNumbers
  <1>3. e \in Int /\ n \in Int
    BY <1>1, <1>2
  <1>4. NumericOp(op, getLLVMType[c], x, y) = createNumber(n, getLLVMType[c])
    BY DEF NumericOp, Relations
  <1>5. CASE c = "BYTE"
    <2>. DEFINE M == 2 ^ Bits["BYTE"]
    <2>1. x % M = a /\ y % M = b /\ M \in Nat \ {0}
      BY <1>5, BitsOfReals, PowerIsPositive DEF Holds
    <2>2. e \in 0 .. M - 1
      BY <1>5, FitIsSame, KindsOfValues DEF ValuesOf, RealTypes
    <2>3. n % M = e
      <3>. HIDE DEF M
      <3>. QED  BY <1>1, <1>2, <2>1, <2>2, ModularArithmetic
    <2>4. n \in Signed(Bits["BYTE"])
      <3>1. Meaning(op, "BYTE", x, y) = n
        BY <1>1, <1>5, MeaningOfNumbers
      <3>. HIDE DEF n
      <3>. QED  BY <1>5, <3>1 DEF StaysSigned
    <2>. HIDE DEF n
    <2>. QED  BY <1>3, <1>4, <1>5, <2>3, <2>4, NumberIsCreated
  <1>6. CASE c # "BYTE"
    <2>1. n = e
      BY <1>2, <1>6 DEF Holds
    <2>. HIDE DEF n
    <2>. QED  BY <1>3, <1>4, <1>6, <2>1, NumberIsCreated
  <1>. QED  BY <1>5, <1>6

(* Bytes are only compared for equality. *)
LEMMA RelationHolds ==
    ASSUME NEW c \in Numeric, NEW op \in Relations, c = "BYTE" => op \in {"=", "#"},
           NEW a \in ValuesOf(c), NEW b \in ValuesOf(c), NEW x, NEW y, Holds(x, c, a), Holds(y, c, b)
    PROVE  NumericOp(op, getLLVMType[c], x, y) = Meaning(op, c, a, b)
  <1>1. c \in Types /\ a \in Int /\ b \in Int /\ x \in Int /\ y \in Int
    BY HeldIsDefined, KindsOfValues DEF Types
  <1>2. NumericOp(op, getLLVMType[c], x, y) = Compare(op, x, y)
    BY Zenon DEF NumericOp, Relations
  <1>3. Meaning(op, c, a, b) = Compare(op, a, b)
    BY <1>1, MeaningOfNumbers
  <1>4. CASE c = "BYTE"
    <2>1. x = y <=> a = b
      BY <1>4, BitsOfReals, SignedAreDistinct DEF Holds
    <2>2. Compare(op, x, y) = Compare(op, a, b)
      BY <1>4, <2>1 DEF Compare
    <2>. QED  BY <1>2, <1>3, <2>2
  <1>5. CASE c # "BYTE"
    BY <1>2, <1>3, <1>5 DEF Holds
  <1>. QED  BY <1>4, <1>5

(* Quotients of real numbers *)
LEMMA QuotientHolds ==
    ASSUME NEW c \in RealTypes, NEW a \in Int, NEW b \in Int, NEW e, e = Meaning("/", c, a, b), Fit(e, c) # Undef
    PROVE  NumericOp("/", getLLVMType[c], a, b) = e
  <1>1. c \in Numeric
    BY DEF Numeric
  <1>2. e = Quotient(a, b)
    BY <1>1, MeaningOfNumbers
  <1>3. Real(e, Bits[c]) = e
    BY FitIsSame
  <1>. QED  BY <1>1, <1>2, <1>3, WidthOfNumber DEF NumericOp, Relations

(* Quotients and remainders of integers *)
LEMMA DivisionHolds ==
    ASSUME NEW c \in Integers, NEW op \in {"DIV", "MOD"}, NEW a \in ValuesOf(c), NEW b \in ValuesOf(c),
           NEW e, e = Meaning(op, c, a, b), e # Undef
    PROVE  NumericOp(op, getLLVMType[c], a, b) = e
  <1>. DEFINE w == Bits[c]
              ll == getLLVMType[c]
  <1>1. c \in Numeric /\ a \in Int /\ b \in Int /\ a \in Signed(w) /\ w \in Nat \ {0} /\ Width[ll] = w
        /\ a \in Values(c) /\ b \in Values(c)
    BY KindsOfValues, IntegerValues, WidthOfNumber DEF Numeric
  <1>2. e = (IF b > 0 THEN IF op = "DIV" THEN a \div b ELSE a % b ELSE Undef)
    BY <1>1, MeaningOfNumbers
  <1>3. b > 0
    BY <1>2
  <1>6. /\ createDiv(a, b) = a \div b /\ createMod(a, b) = a % b
        /\ a \div b \in Values(c) /\ a % b \in Values(c)
    BY <1>1, <1>3, CodeDivision, DivisionFits
  <1>7. Wrap(a \div b, w) = a \div b /\ Wrap(a % b, w) = a % b
    <2>1. a \div b \in Signed(w) /\ a % b \in Signed(w)
      BY <1>6, IntegerValues
    <2>. HIDE DEF w
    <2>. QED  BY <1>1, <1>3, <2>1, WrapFits
  <1>. HIDE DEF w, ll
  <1>8. CASE op = "DIV"
    <2>1. NumericOp("DIV", ll, a, b) = Wrap(createDiv(a, b), w)
      BY <1>1, <1>3 DEF NumericOp, Relations
    <2>. QED  BY <1>2, <1>3, <1>6, <1>7, <1>8, <2>1 DEF ll
  <1>9. CASE op = "MOD"
    <2>1. NumericOp("MOD", ll, a, b) = Wrap(createMod(a, b), w)
      BY <1>1, <1>3 DEF NumericOp, Relations
    <2>. QED  BY <1>2, <1>3, <1>6, <1>7, <1>9, <2>1 DEF ll
  <1>. QED  BY <1>8, <1>9

-----------------------------------------------------------------------------
(* What binary expressions mean *)

(* What is known of the operands of an expression without a departure *)
Applicable(op, l, r, typing, mean) ==
    /\ Accepted(op, l, r, typing) /\ mean = BinaryMean(op, l, r, typing) /\ mean.limits = {}
    /\ Valued(l) /\ Valued(r)

(* The common type of numbers includes the type of the operator. *)
LEMMA CommonIncludes ==
    ASSUME NEW op, NEW l, NEW r, NEW typing, NEW mean, Applicable(op, l, r, typing, mean),
           OfNumbers(op, l.type, r.type, typing.common, typing.result)
    PROVE  LET type == OperandType(op, l.mean.type, r.mean.type)
               c == typing.common
           IN  /\ op \notin {"&", "OR", "IN"} /\ {l.type, r.type, l.mean.type, r.mean.type, type, c} \subseteq Numeric
               /\ Includes(c, type)
               /\ \A n \in {l, r} : n.type = c \/ IsCast(n.type, c)
               /\ c = "BYTE" => op \in {"+", "-", "*", "=", "#"}
               /\ op = "/" => c \in RealTypes
  <1>. DEFINE s == l.type  t == r.type  u == l.mean.type  v == r.mean.type
              c == typing.common  result == typing.result
              type == OperandType(op, u, v)
  <1>1. /\ s \in Types /\ t \in Types /\ Includes(s, u) /\ Includes(t, v) /\ typing = Typing(op, s, t) /\ result # None
        /\ Departures(op, l, r, c) = {}
    <2>1. Accepted(op, l, r, typing) /\ mean = BinaryMean(op, l, r, typing) /\ mean.limits = {}
      BY DEF Applicable
    <2>2. Includes(s, u) /\ Includes(t, v) /\ Departures(op, l, r, c) = {}
      BY <2>1, BinaryFacts
    <2>. QED  BY <2>1, <2>2 DEF Accepted, IsExpression, IsTyped, IsNode
  <1>2. /\ s \in Numeric /\ t \in Numeric /\ op \notin {"&", "OR", "IN"}
        /\ c = Larger(s, t) \/ (op = "/" /\ Larger(s, t) \in Integers /\ c = "REAL")
        /\ Relation(op, s, t, c, result) \/ result = c
    BY DEF OfNumbers, Relation, Operation, WholeDivision, Division, Numeric, Relations
  <1>3. {u, v} \subseteq Numeric /\ Includes(Larger(s, t), Larger(u, v))
    BY <1>1, <1>2, LargerIsIncluded
  <1>4. c \in Numeric
    BY <1>2, CommonIsLarger DEF Numeric, RealTypes
  <1>5. Includes(c, type)
    <2>1. CASE Relation(op, s, t, c, result)
      <3>1. c = Larger(s, t) /\ op # "/"
        BY <2>1 DEF Relation, Relations
      <3>2. type = Larger(u, v)
        BY <3>1 DEF OperandType
      <3>. HIDE DEF c, type, s, t, u, v
      <3>. QED  BY <1>3, <3>1, <3>2
    <2>2. CASE result = c
      <3>1. result # "BOOLEAN"
        BY <1>4, <2>2 DEF Numeric, Integers, RealTypes
      <3>2. Includes(result, type)
        BY <1>1, <3>1, ResultIncludes
      <3>. QED  BY <2>2, <3>2
    <2>. QED  BY <1>2, <2>1, <2>2
  <1>6. type \in Numeric
    BY <1>4, <1>5 DEF Includes
  <1>7. ASSUME "BYTE" \in {s, t} PROVE c \notin RealTypes /\ ({s, t} = {"BYTE"} => op \in {"+", "-", "*", "=", "#"})
    BY <1>1, <1>7, NoDepartures
  <1>8. (s \in RealTypes => c \in RealTypes) /\ (t \in RealTypes => c \in RealTypes)
    BY <1>2, CommonIsLarger DEF RealTypes
  <1>9. IsCast(s, c) /\ IsCast(t, c)
    <2>. HIDE DEF c, s, t
    <2>. QED  BY <1>2, <1>4, <1>7, <1>8 DEF IsCast
  <1>10. c = "BYTE" => s = "BYTE" /\ t = "BYTE"
    <2>1. ASSUME c = "BYTE" PROVE Larger(s, t) = "BYTE"
      BY <1>2, <2>1
    <2>2. Rank(s) <= Rank(Larger(s, t)) /\ Rank(t) <= Rank(Larger(s, t))
      BY <1>2, CommonIsLarger
    <2>. HIDE DEF c, s, t
    <2>. QED  BY <1>2, <2>1, <2>2, Ranks DEF Numeric, Integers, RealTypes
  <1>11. op = "/" => c \in RealTypes
    <2>1. ASSUME op = "/", c \notin RealTypes PROVE FALSE
      <3>1. c = "BYTE"
        <4>1. Division(op, s, t, c, result)
          BY <2>1 DEF OfNumbers, Relation, Operation, WholeDivision, Relations
        <4>. QED  BY <1>4, <2>1, <4>1 DEF Division, Numeric, RealTypes
      <3>. QED  BY <1>7, <1>10, <2>1, <3>1
    <2>. QED  BY <2>1
  <1>. HIDE DEF s, t, u, v, c, type
  <1>12. c = "BYTE" => op \in {"+", "-", "*", "=", "#"}
    BY <1>7, <1>10
  <1>13. \A n \in {l, r} : IsCast(n.type, c)
    BY <1>9 DEF s, t
  <1>. QED  BY <1>2, <1>3, <1>4, <1>5, <1>6, <1>11, <1>12, <1>13 DEF s, t, u, v, c, type

(* A number as the operator takes it is what the instruction is given. *)
LEMMA NumberOperand ==
    ASSUME NEW op, NEW l, NEW r, NEW typing, NEW mean, Applicable(op, l, r, typing, mean),
           OfNumbers(op, l.type, r.type, typing.common, typing.result),
           NEW n \in {l, r}, NEW m \in DOMAIN Memories,
           NEW a, a = Given(op, OperandType(op, l.mean.type, r.mean.type), n.mean, m), a # Undef
    PROVE  /\ a = n.mean.at[m].v /\ a \in ValuesOf(typing.common) /\ Meant(n, m)
           /\ Yields(Operand(cast(n, typing.common)).at[m], typing.common, a, n.mean.at[m].calls)
  <1>. DEFINE type == OperandType(op, l.mean.type, r.mean.type)
              c == typing.common
              d == n.mean.at[m].v
              u == n.mean.type
  <1>1. /\ op \notin {"&", "OR", "IN"} /\ {n.type, u, type, c} \subseteq Numeric /\ Includes(c, type)
        /\ n.type = c \/ IsCast(n.type, c)
    BY CommonIncludes
  <1>2. a = Fit(Fit(d, u), type)
    BY <1>1 DEF Given
  <1>3. Fit(d, u) # Undef /\ Fit(d, u) = d /\ a = d /\ Fit(d, type) # Undef /\ d # Undef
    <2>. HIDE DEF d, u, type
    <2>1. Fit(d, u) # Undef
      BY <1>2, FitIsSame
    <2>. QED  BY <1>2, <2>1, FitIsSame
  <1>4. IsExpression(n) /\ n.mean.limits = {} /\ Valued(n) /\ Departures(op, l, r, c) = {} /\ Meant(n, m)
    <2>1. Accepted(op, l, r, typing) /\ mean = BinaryMean(op, l, r, typing) /\ mean.limits = {}
      BY DEF Applicable
    <2>2. l.mean.limits = {} /\ r.mean.limits = {} /\ Departures(op, l, r, c) = {}
      BY <2>1, BinaryFacts
    <2>3. IsExpression(n) /\ Valued(n)
      BY DEF Applicable, Accepted
    <2>. QED  BY <1>3, <2>2, <2>3 DEF Meant
  <1>5. d \in ValuesOf(u)
    BY <1>3, <1>4 DEF Valued, ValuedAt
  <1>6. d \in Int
    <2>. HIDE DEF d, u
    <2>. QED  BY <1>1, <1>5, KindsOfValues
  <1>7. Fit(d, c) # Undef
    <2>. HIDE DEF d, u, type, c
    <2>1. d \in ValuesOf(type)
      BY <1>1, <1>3, <1>6, FitIsSame, KindsOfValues DEF ValuesOf
    <2>. QED  BY <1>1, <1>3, <2>1, FitsLarger, FitIsSame DEF Types
  <1>8. ~IsInexact(n, c)
    <2>1. "large literal" \notin Departures(op, l, r, c)
      BY <1>4
    <2>2. ASSUME IsInexact(l, c) \/ IsInexact(r, c) PROVE "large literal" \in Departures(op, l, r, c)
      BY <2>2, Zenon DEF IsInexact, Departures
    <2>. QED  BY <2>1, <2>2
  <1>9. c \in Types
    BY <1>1 DEF Types
  <1>. QED  BY <1>1, <1>3, <1>4, <1>7, <1>8, <1>9, OperandYields

(* Operators on numbers yield numbers. *)
LEMMA NumbersMeanNumbers ==
    ASSUME NEW op \in {"+", "-", "*", "/", "DIV", "MOD"}, NEW type \in Numeric, NEW a \in Int, NEW b \in Int,
           Meaning(op, type, a, b) # Undef
    PROVE  Meaning(op, type, a, b) \in Int
  <1>1. CASE op \in {"+", "-", "*"}
    BY <1>1, MeaningOfNumbers
  <1>2. CASE op = "/"
    <2>1. Meaning(op, type, a, b) = SDiv(a, b) /\ b # 0
      BY <1>2, MeaningOfNumbers DEF Quotient
    <2>2. Abs(a) \in Int /\ Abs(b) \in Int /\ Abs(b) > 0
      BY <2>1 DEF Abs
    <2>3. Abs(a) \div Abs(b) \in Int
      BY <2>2
    <2>4. SDiv(a, b) \in Int
      BY <2>3 DEF SDiv
    <2>. QED  BY <2>1, <2>4
  <1>3. CASE op \in {"DIV", "MOD"}
    <2>1. b > 0 /\ Meaning(op, type, a, b) \in {a \div b, a % b}
      BY <1>3, MeaningOfNumbers
    <2>2. a \div b \in Int /\ a % b \in Int
      BY <2>1
    <2>. QED  BY <2>1, <2>2
  <1>. QED  BY <1>1, <1>2, <1>3

(* The meaning does not depend on which type of numbers they are. *)
LEMMA MeaningOfAnyNumbers ==
    ASSUME NEW op \in Relations \cup {"+", "-", "*", "/", "DIV", "MOD"}, NEW s \in Numeric, NEW t \in Numeric,
           NEW a \in Int, NEW b \in Int
    PROVE  Meaning(op, s, a, b) = Meaning(op, t, a, b)
  <1>1. CASE op \in Relations
    BY <1>1, MeaningOfNumbers
  <1>2. CASE op \in {"+", "-", "*", "/", "DIV", "MOD"}
    BY <1>2, MeaningOfNumbers
  <1>. QED  BY <1>1, <1>2

(* An undefined operand makes any meaning undefined. *)
LEMMA MeaningIsDefined ==
    ASSUME NEW op, NEW t, NEW a, NEW b, Meaning(op, t, a, b) # Undef
    PROVE  a # Undef /\ b # Undef
  BY DEF Meaning

(* Code types are valid. *)
LEMMA CodeTypeIsValid ==
    ASSUME NEW t \in Types
    PROVE  getLLVMType[t] # "invalid"
  BY LLVMTypes DEF Types, Numeric, Integers, RealTypes

(* What an operator on numbers means is what its instruction yields. *)
LEMMA NumberOperatorHolds ==
    ASSUME NEW op, NEW l, NEW r, NEW typing, NEW mean, Applicable(op, l, r, typing, mean),
           OfNumbers(op, l.type, r.type, typing.common, typing.result),
           NEW c, c = typing.common, NEW type, type = OperandType(op, l.mean.type, r.mean.type),
           NEW a \in ValuesOf(c), NEW b \in ValuesOf(c), NEW x, NEW y, Holds(x, c, a), Holds(y, c, b),
           StaysSigned(op, c, x, y),
           NEW e, e = Meaning(op, type, a, b), Fit(e, IF typing.result = "BOOLEAN" THEN "BOOLEAN" ELSE type) # Undef
    PROVE  Holds(NumericOp(op, getLLVMType[c], x, y), typing.result, e)
  <1>1. /\ {l.type, r.type, type, c} \subseteq Numeric /\ Includes(c, type)
        /\ c = "BYTE" => op \in {"+", "-", "*", "=", "#"}
        /\ op = "/" => c \in RealTypes
    BY CommonIncludes
  <1>2. a \in Int /\ b \in Int /\ c \in Types /\ type \in Types
    BY <1>1, KindsOfValues DEF Types
  <1>3. e = Meaning(op, c, a, b)
    <2>1. op \in Relations \cup {"+", "-", "*", "/", "DIV", "MOD"}
      BY DEF OfNumbers, Relation, Operation, WholeDivision, Division
    <2>. QED  BY <1>1, <1>2, <2>1, MeaningOfAnyNumbers
  <1>4. CASE Relation(op, l.type, r.type, c, typing.result)
    <2>1. op \in Relations /\ typing.result = "BOOLEAN"
      BY <1>4 DEF Relation
    <2>2. c \in Numeric /\ (c = "BYTE" => op \in {"=", "#"})
      BY <1>1, <2>1 DEF Relations
    <2>3. NumericOp(op, getLLVMType[c], x, y) = e
      BY <1>3, <2>1, <2>2, RelationHolds
    <2>. QED  BY <2>1, <2>3 DEF Holds
  <1>5. CASE \/ Operation(op, l.type, r.type, c, typing.result) \/ WholeDivision(op, l.type, r.type, c, typing.result)
             \/ Division(op, l.type, r.type, c, typing.result)
    <2>1. typing.result = c /\ op \in {"+", "-", "*", "/", "DIV", "MOD"} /\ c # "BOOLEAN"
      BY <1>1, <1>5 DEF Operation, WholeDivision, Division, Numeric, Integers, RealTypes
    <2>2. Fit(e, type) # Undef /\ e # Undef
      BY <2>1, FitIsSame
    <2>3. e \in Int
      BY <1>1, <1>2, <2>1, <2>2, NumbersMeanNumbers
    <2>4. e \in ValuesOf(type)
      BY <1>1, <2>2, <2>3, FitIsSame, KindsOfValues DEF ValuesOf
    <2>5. Fit(e, c) # Undef
      BY <1>1, <1>2, <2>2, <2>4, FitsLarger
    <2>6. CASE op \in {"+", "-", "*"}
      BY <1>1, <1>3, <2>1, <2>5, <2>6, OperationHolds
    <2>7. CASE op = "/"
      <3>1. c \in RealTypes /\ c # "BYTE"
        BY <1>1, <2>7 DEF RealTypes
      <3>2. x = a /\ y = b
        BY <3>1 DEF Holds
      <3>3. NumericOp(op, getLLVMType[c], a, b) = e
        BY <1>2, <1>3, <2>5, <2>7, <3>1, QuotientHolds
      <3>. QED  BY <2>1, <3>1, <3>2, <3>3 DEF Holds
    <2>8. CASE op \in {"DIV", "MOD"}
      <3>1. WholeDivision(op, l.type, r.type, c, typing.result)
        BY <1>5, <2>8 DEF Operation, Division
      <3>2. c \in Integers
        <4>1. c # "BYTE"
          BY <1>1, <2>8
        <4>2. l.type \notin RealTypes /\ r.type \notin RealTypes /\ c = Larger(l.type, r.type)
          BY <3>1 DEF WholeDivision, Integers, RealTypes
        <4>3. c \notin RealTypes
          BY <1>1, <4>2, CommonIsLarger
        <4>. QED  BY <1>1, <4>1, <4>3 DEF Numeric
      <3>3. x = a /\ y = b /\ c # "BYTE"
        BY <3>2 DEF Holds, Integers
      <3>4. NumericOp(op, getLLVMType[c], a, b) = e
        BY <1>3, <2>2, <2>8, <3>2, DivisionHolds
      <3>. QED  BY <2>1, <3>3, <3>4 DEF Holds
    <2>. QED  BY <2>1, <2>6, <2>7, <2>8
  <1>. QED  BY <1>4, <1>5 DEF OfNumbers

(* What an expression with a variable operand means *)
LEMMA MixedAt ==
    ASSUME NEW op, NEW l, NEW r, NEW typing, NEW mean, Applicable(op, l, r, typing, mean),
           ~(isLiteral(l) /\ isLiteral(r)), NEW m \in DOMAIN Memories,
           NEW type, type = OperandType(op, l.mean.type, r.mean.type),
           NEW a, a = Given(op, type, l.mean, m), NEW b, b = Given(op, type, r.mean, m)
    PROVE  /\ mean.type = IF typing.result = "BOOLEAN" THEN "BOOLEAN" ELSE type
           /\ Skipped(op, a) => mean.at[m] = l.mean.at[m]
           /\ ~Skipped(op, a) => /\ mean.at[m].v = Fit(Applied(op, type, a, b), mean.type)
                                 /\ mean.at[m].calls = l.mean.at[m].calls + r.mean.at[m].calls
  <1>1. Accepted(op, l, r, typing) /\ mean = BinaryMean(op, l, r, typing) /\ mean.limits = {}
    BY DEF Applicable
  <1>2. ~(l.mean.const /\ r.mean.const)
    <2>1. \A n \in {l, r} : Folded(n)
      BY <1>1, BinaryFacts
    <2>. QED  BY <2>1 DEF Folded
  <1>3. mean.type = IF typing.result = "BOOLEAN" THEN "BOOLEAN" ELSE type
    BY <1>1, <1>2, BinaryType
  <1>4. /\ Skipped(op, a) => mean.at[m] = l.mean.at[m]
        /\ ~Skipped(op, a) =>
             /\ mean.at[m].v = Fit(Applied(op, type, a, b), IF l.mean.const /\ r.mean.const /\ mean.type # "BOOLEAN"
                                                           THEN Largest(type) ELSE mean.type)
             /\ mean.at[m].calls = l.mean.at[m].calls + r.mean.at[m].calls
    BY <1>1, <1>2, BinaryAt
  <1>. QED  BY <1>2, <1>3, <1>4

(* An instruction is never invalid. *)
LEMMA AcceptedIsValid ==
    ASSUME NEW op, NEW l, NEW r, NEW typing, Accepted(op, l, r, typing),
           l.mean.limits = {}, r.mean.limits = {}, Departures(op, l, r, typing.common) = {}
    PROVE  /\ BinaryCode(op, CastTo(typing.common, l), CastTo(typing.common, r)).ll = getLLVMType[typing.result]
           /\ getLLVMType[typing.result] # "invalid"
  <1>1. BinaryCode(op, CastTo(typing.common, l), CastTo(typing.common, r)).ll = getLLVMType[typing.result]
    BY OperatorIsTyped DEF Accepted
  <1>2. typing.result \in Types
    BY ResultIsType
  <1>. QED  BY <1>1, <1>2, CodeTypeIsValid

(* What an instruction on numbers yields *)
LEMMA NumberInstructionYields ==
    ASSUME NEW op, op \notin {"&", "OR", "IN"}, NEW l, NEW r, l.type \in Numeric, r.type \in Numeric,
           BinaryCode(op, l, r).ll # "invalid", NEW m \in DOMAIN Memories,
           NEW c \in Types, Operand(l).ll = getLLVMType[c], NEW a \in ValuesOf(c), NEW b \in ValuesOf(c), NEW i, NEW j,
           Yields(Operand(l).at[m], c, a, i), Yields(Operand(r).at[m], c, b, j), NEW t, NEW e,
           \A x, y : Holds(x, c, a) /\ Holds(y, c, b) => Holds(NumericOp(op, getLLVMType[c], x, y), t, e)
    PROVE  Yields(BinaryCode(op, l, r).at[m], t, e, i + j)
  <1>. DEFINE x == Operand(l).at[m]
              y == Operand(r).at[m]
              k == NumericOp(op, getLLVMType[c], x.v, y.v)
              code == BinaryCode(op, l, r)
  <1>1. Holds(x.v, c, a) /\ Holds(y.v, c, b) /\ x.calls = i /\ y.calls = j
    BY DEF Yields
  <1>2. x.v # Undef /\ y.v # Undef
    <2>. HIDE DEF x, y
    <2>. QED  BY <1>1, HeldIsDefined
  <1>3. code.at[m] = [v |-> k, calls |-> i + j]
    <2>1. "SET" \notin {l.type, r.type} /\ {l.type, r.type} \subseteq Numeric
      BY DEF Numeric, Integers, RealTypes
    <2>2. Invalid.ll = "invalid"
      BY DEF Invalid, Code
    <2>3. code.at[m] = [v |-> NumericOp(op, Operand(l).ll, x.v, y.v), calls |-> x.calls + y.calls]
      BY <1>2, <2>1, <2>2 DEF BinaryCode, Apply, Code
    <2>. HIDE DEF code, x, y
    <2>. QED  BY <1>1, <2>3
  <1>4. Holds(k, t, e)
    BY <1>1
  <1>. HIDE DEF code, k
  <1>. QED  BY <1>3, <1>4 DEF Yields, code

(* The operands of an instruction on numbers, and its result *)
LEMMA NumberYields ==
    ASSUME NEW op, NEW l, NEW r, NEW typing, NEW mean, Applicable(op, l, r, typing, mean),
           OfNumbers(op, l.type, r.type, typing.common, typing.result),
           ~(isLiteral(l) /\ isLiteral(r)), NEW m \in DOMAIN Memories, Fit(mean.at[m].v, mean.type) # Undef
    PROVE  Yields(BinaryCode(op, CastTo(typing.common, l), CastTo(typing.common, r)).at[m], typing.result,
                  mean.at[m].v, mean.at[m].calls)
  <1>. DEFINE c == typing.common
              type == OperandType(op, l.mean.type, r.mean.type)
              a == Given(op, type, l.mean, m)
              b == Given(op, type, r.mean, m)
              e == Meaning(op, type, a, b)
              cl == CastTo(c, l)
              cr == CastTo(c, r)
  <1>1. /\ Accepted(op, l, r, typing) /\ mean = BinaryMean(op, l, r, typing) /\ mean.limits = {}
        /\ IsExpression(l) /\ IsExpression(r) /\ typing = Typing(op, l.type, r.type) /\ typing.result # None
    BY DEF Applicable, Accepted
  <1>2. l.mean.limits = {} /\ r.mean.limits = {} /\ Departures(op, l, r, c) = {}
    BY <1>1, BinaryFacts
  <1>3. /\ op \notin {"&", "OR", "IN"} /\ {l.type, r.type, type, c} \subseteq Numeric
        /\ \A n \in {l, r} : n.type = c \/ IsCast(n.type, c)
    BY CommonIncludes
  <1>4. /\ mean.type = IF typing.result = "BOOLEAN" THEN "BOOLEAN" ELSE type
        /\ mean.at[m].v = Fit(e, mean.type)
        /\ mean.at[m].calls = l.mean.at[m].calls + r.mean.at[m].calls
    <2>1. ~Skipped(op, a) /\ Applied(op, type, a, b) = e
      BY <1>3 DEF Skipped, Applied
    <2>. HIDE DEF a, b, type, e
    <2>2. /\ mean.type = IF typing.result = "BOOLEAN" THEN "BOOLEAN" ELSE type
          /\ mean.at[m].v = Fit(Applied(op, type, a, b), mean.type)
          /\ mean.at[m].calls = l.mean.at[m].calls + r.mean.at[m].calls
      BY <2>1, MixedAt DEF a, b, type
    <2>. QED  BY <2>1, <2>2
  <1>5. Fit(e, mean.type) # Undef /\ e # Undef /\ mean.at[m].v = e
    <2>. HIDE DEF e
    <2>. QED  BY <1>4, FitIsSame
  <1>6. a # Undef /\ b # Undef
    <2>. HIDE DEF a, b, type
    <2>. QED  BY <1>5, MeaningIsDefined
  <1>7. cl = cast(l, c) /\ cr = cast(r, c) /\ c \in Types
    <2>1. c # None /\ c \in Types
      BY <1>3, ExpressionsAssumption DEF Types
    <2>. QED  BY <2>1 DEF CastTo
  <1>8. a \in ValuesOf(c) /\ Yields(Operand(cl).at[m], c, a, l.mean.at[m].calls)
    BY <1>6, <1>7, NumberOperand
  <1>9. b \in ValuesOf(c) /\ Yields(Operand(cr).at[m], c, b, r.mean.at[m].calls)
    BY <1>6, <1>7, NumberOperand
  <1>10. \A n \in {l, r} : /\ Operand(cast(n, c)).ll = getLLVMType[c]
                           /\ cast(n, c).type \in Numeric
    <2>1. ASSUME NEW n \in {l, r} PROVE Operand(cast(n, c)).ll = getLLVMType[c] /\ cast(n, c).type \in Numeric
      <3>1. IsExpression(n) /\ n.mean.limits = {} /\ n.type \in Numeric /\ "REAL" \in Numeric
        BY <1>1, <1>2, <1>3 DEF Numeric, RealTypes
      <3>2. n.type = c \/ ({n.type, c} \subseteq Numeric /\ (n.type \in RealTypes => c \in RealTypes))
        BY <1>3 DEF IsCast
      <3>. HIDE DEF c
      <3>. QED  BY <1>7, <3>1, <3>2, CastOperand
    <2>. QED  BY <2>1
  <1>11. BinaryCode(op, cl, cr).ll # "invalid"
    BY <1>1, <1>2, AcceptedIsValid
  <1>12. a = l.mean.at[m].v /\ b = r.mean.at[m].v
    BY <1>6, NumberOperand
  <1>. HIDE DEF a, b, e, type
  <1>13. ASSUME NEW x, NEW y, Holds(x, c, a) /\ Holds(y, c, b)
         PROVE  Holds(NumericOp(op, getLLVMType[c], x, y), typing.result, e)
    <2>1. StaysSigned(op, c, x, y)
      BY <1>2, <1>6, <1>8, <1>9, <1>13, <1>12, BytesStaySigned
    <2>. QED  BY <1>4, <1>5, <1>8, <1>9, <1>13, <2>1, NumberOperatorHolds DEF type, e
  <1>14. cl.type \in Numeric /\ cr.type \in Numeric /\ Operand(cl).ll = getLLVMType[c]
    BY <1>7, <1>10
  <1>. HIDE DEF c, cl, cr
  <1>15. Yields(BinaryCode(op, cl, cr).at[m], typing.result, e, l.mean.at[m].calls + r.mean.at[m].calls)
    BY <1>3, <1>7, <1>8, <1>9, <1>11, <1>13, <1>14, NumberInstructionYields
  <1>. QED  BY <1>4, <1>5, <1>15 DEF cl, cr, c

-----------------------------------------------------------------------------
(* Operators on characters, sets and booleans *)

(* Operands that are not cast *)
LEMMA PlainOperand ==
    ASSUME NEW op, NEW l, NEW r, NEW typing, NEW mean, Applicable(op, l, r, typing, mean), NEW n \in {l, r}
    PROVE  /\ Operand(n) = n.code /\ n.code.ll = getLLVMType[n.type]
           /\ n.type \in Types /\ Includes(n.type, n.mean.type) /\ n.mean.type \in Types
           /\ n.type \notin Numeric => n.mean.type = n.type
           /\ \A m \in DOMAIN Memories : Meant(n, m) =>
                /\ n.mean.at[m].v \in ValuesOf(n.type)
                /\ Yields(n.code.at[m], n.type, n.mean.at[m].v, n.mean.at[m].calls)
  <1>1. IsExpression(n) /\ IsTyped(n) /\ n.mean.limits = {} /\ Valued(n) /\ n.cast \in {None, n.type} /\ n.code.ll = getLLVMType[n.type]
    <2>1. Accepted(op, l, r, typing) /\ mean = BinaryMean(op, l, r, typing) /\ mean.limits = {}
      BY DEF Applicable
    <2>2. n.mean.limits = {} /\ n.cast \in {None, n.type} /\ n.code.ll = getLLVMType[n.type]
      BY <2>1, BinaryFacts
    <2>. QED  BY <2>2 DEF Applicable, Accepted, IsExpression
  <1>2. Operand(n) = n.code
    BY <1>1, NoCast DEF Operand
  <1>3. n.type \in Types /\ Includes(n.type, n.mean.type)
    BY <1>1 DEF IsTyped, IsNode
  <1>4. n.mean.type \in Types /\ (n.type \notin Numeric => n.mean.type = n.type)
    BY <1>3, IncludedIsType DEF Includes
  <1>5. ASSUME NEW m \in DOMAIN Memories, Meant(n, m)
        PROVE  n.mean.at[m].v \in ValuesOf(n.type) /\ Yields(n.code.at[m], n.type, n.mean.at[m].v, n.mean.at[m].calls)
    BY <1>1, <1>5, NodeYields
  <1>. QED  BY <1>1, <1>2, <1>3, <1>4, <1>5

(* An operand that an operator takes as it is *)
LEMMA PlainGiven ==
    ASSUME NEW op, NEW l, NEW r, NEW typing, NEW mean, Applicable(op, l, r, typing, mean), NEW n \in {l, r},
           NEW m \in DOMAIN Memories, NEW type, type \notin Numeric \/ op = "IN",
           NEW a, a = Given(op, type, n.mean, m), a # Undef
    PROVE  /\ a = n.mean.at[m].v /\ a \in ValuesOf(n.type)
           /\ Yields(n.code.at[m], n.type, a, n.mean.at[m].calls)
  <1>1. a = Fit(n.mean.at[m].v, n.mean.type)
    BY DEF Given
  <1>2. Meant(n, m) /\ a = n.mean.at[m].v
    BY <1>1, FitIsSame DEF Meant
  <1>. QED  BY <1>2, PlainOperand

(* Casts to the type that there is *)
LEMMA NoCastTo ==
    ASSUME NEW n, NEW t \in {None, n.type}
    PROVE  CastTo(t, n) = n
  BY DEF CastTo, cast

(* The type of an operator on equal types that are no numbers *)
LEMMA TypeOfEquals ==
    ASSUME NEW op, NEW t \in Types \ Numeric
    PROVE  OperandType(op, t, t) = t
  BY DEF OperandType, Larger, Numeric


(* Comparisons of characters *)
LEMMA CharYields ==
    ASSUME NEW op, NEW l, NEW r, NEW typing, NEW mean, Applicable(op, l, r, typing, mean),
           CharRelation(op, l.type, r.type, typing.common, typing.result),
           ~(isLiteral(l) /\ isLiteral(r)), NEW m \in DOMAIN Memories, Fit(mean.at[m].v, mean.type) # Undef
    PROVE  Yields(BinaryCode(op, CastTo(typing.common, l), CastTo(typing.common, r)).at[m], typing.result,
                  mean.at[m].v, mean.at[m].calls)
  <1>. DEFINE type == OperandType(op, l.mean.type, r.mean.type)
              a == Given(op, type, l.mean, m)
              b == Given(op, type, r.mean, m)
  <1>1. op \in Relations /\ l.type = "CHAR" /\ r.type = "CHAR" /\ typing.common = "CHAR" /\ typing.result = "BOOLEAN"
    BY DEF CharRelation
  <1>2. CastTo(typing.common, l) = l /\ CastTo(typing.common, r) = r
    BY <1>1, NoCastTo
  <1>3. "CHAR" \in Types \ Numeric /\ type = "CHAR" /\ getLLVMType["CHAR"] = "i8"
    <2>1. "CHAR" \in Types \ Numeric
      BY DEF Types, Numeric, Integers, RealTypes
    <2>. QED  BY <1>1, <2>1, PlainOperand, TypeOfEquals, LLVMTypes
  <1>4. op \notin {"&", "OR", "IN"}
    BY <1>1 DEF Relations
  <1>5. /\ mean.type = "BOOLEAN" /\ mean.at[m].v = Fit(Meaning(op, "CHAR", a, b), "BOOLEAN")
        /\ mean.at[m].calls = l.mean.at[m].calls + r.mean.at[m].calls
    <2>. HIDE DEF a, b, type
    <2>1. ~Skipped(op, a) /\ Applied(op, type, a, b) = Meaning(op, "CHAR", a, b)
      BY <1>3, <1>4 DEF Skipped, Applied
    <2>. QED  BY <1>1, <2>1, MixedAt DEF a, b, type
  <1>6. Meaning(op, "CHAR", a, b) # Undef /\ mean.at[m].v = Meaning(op, "CHAR", a, b)
    <2>. HIDE DEF a, b
    <2>. QED  BY <1>5, FitIsSame
  <1>7. a # Undef /\ b # Undef
    <2>. HIDE DEF a, b
    <2>. QED  BY <1>6, MeaningIsDefined
  <1>8. Yields(l.code.at[m], "CHAR", a, l.mean.at[m].calls) /\ Yields(r.code.at[m], "CHAR", b, r.mean.at[m].calls)
    BY <1>1, <1>3, <1>7, PlainGiven
  <1>9. Operand(l) = l.code /\ Operand(r) = r.code /\ l.code.ll = "i8" /\ r.code.ll = "i8"
    BY <1>1, <1>3, PlainOperand
  <1>. HIDE DEF a, b, type
  <1>10. Meaning(op, "CHAR", a, b) = Compare(op, a, b)
    BY <1>1, <1>7, Zenon DEF Meaning, Relations
  <1>11. BinaryCode(op, l, r).at[m] = [v |-> Compare(op, a, b), calls |-> l.mean.at[m].calls + r.mean.at[m].calls]
    <2>1. "SET" \notin {l.type, r.type} /\ ~({l.type, r.type} \subseteq Numeric) /\ {l.type, r.type} = {"CHAR"}
      BY <1>1, <1>3
    <2>2. /\ l.code.at[m].v = a /\ l.code.at[m].calls = l.mean.at[m].calls
          /\ r.code.at[m].v = b /\ r.code.at[m].calls = r.mean.at[m].calls
      BY <1>8 DEF Yields, Holds
    <2>. QED  BY <1>4, <1>7, <1>9, <2>1, <2>2 DEF BinaryCode, Apply, Code
  <1>. QED  BY <1>1, <1>2, <1>5, <1>6, <1>10, <1>11 DEF Yields, Holds

(* Operations on the bits of sets are operations on sets. *)
IsSetOperator(op) == op \in {"+", "-", "*", "/", "=", "#", "<=", ">="}

LEMMA SetOperations ==
    ASSUME NEW op, IsSetOperator(op), NEW a \in SUBSET Word, NEW b \in SUBSET Word
    PROVE  SetOp(op, a, b) = SetMeaning(op, a, b)
  <1>1. a \cap (Word \ b) = a \ b /\ (a \cap (Word \ b) = {} <=> a \subseteq b) /\ (b \cap (Word \ a) = {} <=> b \subseteq a)
    OBVIOUS
  <1>2. CASE op \in {"+", "-", "*", "/"}
    BY <1>1, <1>2 DEF SetOp, SetMeaning
  <1>3. CASE op = "="
    BY <1>3, Zenon DEF SetOp, SetMeaning
  <1>4. CASE op = "#"
    BY <1>4, Zenon DEF SetOp, SetMeaning
  <1>5. CASE op = "<="
    BY <1>1, <1>5, Zenon DEF SetOp, SetMeaning
  <1>6. CASE op = ">="
    BY <1>1, <1>6, Zenon DEF SetOp, SetMeaning
  <1>. QED  BY <1>2, <1>3, <1>4, <1>5, <1>6 DEF IsSetOperator

(* Instructions on sets *)
LEMMA SetYields ==
    ASSUME NEW op, NEW l, NEW r, NEW typing, NEW mean, Applicable(op, l, r, typing, mean),
           \/ SetRelation(op, l.type, r.type, typing.common, typing.result)
           \/ SetOperation(op, l.type, r.type, typing.common, typing.result),
           ~(isLiteral(l) /\ isLiteral(r)), NEW m \in DOMAIN Memories, Fit(mean.at[m].v, mean.type) # Undef
    PROVE  Yields(BinaryCode(op, CastTo(typing.common, l), CastTo(typing.common, r)).at[m], typing.result,
                  mean.at[m].v, mean.at[m].calls)
  <1>. DEFINE type == OperandType(op, l.mean.type, r.mean.type)
              a == Given(op, type, l.mean, m)
              b == Given(op, type, r.mean, m)
  <1>1. /\ op \in {"+", "-", "*", "/", "=", "#", "<=", ">="} /\ l.type = "SET" /\ r.type = "SET" /\ typing.common = "SET"
        /\ typing.result \in {"SET", "BOOLEAN"}
    BY DEF SetRelation, SetOperation
  <1>2. CastTo(typing.common, l) = l /\ CastTo(typing.common, r) = r
    BY <1>1, NoCastTo
  <1>3. "SET" \in Types \ Numeric /\ type = "SET" /\ getLLVMType["SET"] = "i32"
    <2>1. "SET" \in Types \ Numeric
      BY DEF Types, Numeric, Integers, RealTypes
    <2>. QED  BY <1>1, <2>1, PlainOperand, TypeOfEquals, LLVMTypes
  <1>4. op \notin {"&", "OR", "IN"}
    BY <1>1
  <1>5. /\ mean.at[m].v = Fit(Meaning(op, "SET", a, b), mean.type)
        /\ mean.at[m].calls = l.mean.at[m].calls + r.mean.at[m].calls
    <2>. HIDE DEF a, b, type
    <2>1. ~Skipped(op, a) /\ Applied(op, type, a, b) = Meaning(op, "SET", a, b)
      BY <1>3, <1>4 DEF Skipped, Applied
    <2>. QED  BY <1>1, <2>1, MixedAt DEF a, b, type
  <1>6. Meaning(op, "SET", a, b) # Undef /\ mean.at[m].v = Meaning(op, "SET", a, b)
    <2>. HIDE DEF a, b
    <2>. QED  BY <1>5, FitIsSame
  <1>7. a # Undef /\ b # Undef
    <2>. HIDE DEF a, b
    <2>. QED  BY <1>6, MeaningIsDefined
  <1>8. /\ Yields(l.code.at[m], "SET", a, l.mean.at[m].calls) /\ Yields(r.code.at[m], "SET", b, r.mean.at[m].calls)
        /\ a \in SUBSET Word /\ b \in SUBSET Word
    BY <1>1, <1>3, <1>7, PlainGiven, KindsOfValues
  <1>9. Operand(l) = l.code /\ Operand(r) = r.code /\ l.code.ll = "i32" /\ r.code.ll = "i32"
    BY <1>1, <1>3, PlainOperand
  <1>. HIDE DEF a, b, type
  <1>10. Meaning(op, "SET", a, b) = SetOp(op, a, b)
    <2>1. Meaning(op, "SET", a, b) = SetMeaning(op, a, b)
      BY <1>7 DEF Meaning
    <2>2. SetOp(op, a, b) = SetMeaning(op, a, b)
      <3>1. IsSetOperator(op)
        BY <1>1 DEF IsSetOperator
      <3>. QED  BY <1>8, <3>1, SetOperations, Zenon
    <2>. QED  BY <2>1, <2>2
  <1>11. BinaryCode(op, l, r).at[m] = [v |-> SetOp(op, a, b), calls |-> l.mean.at[m].calls + r.mean.at[m].calls]
    <2>1. "SET" \in {l.type, r.type}
      BY <1>1
    <2>2. /\ l.code.at[m].v = a /\ l.code.at[m].calls = l.mean.at[m].calls
          /\ r.code.at[m].v = b /\ r.code.at[m].calls = r.mean.at[m].calls
      BY <1>8 DEF Yields, Holds
    <2>. QED  BY <1>4, <1>7, <1>9, <2>1, <2>2 DEF BinaryCode, Apply, Code
  <1>. QED  BY <1>1, <1>2, <1>5, <1>6, <1>10, <1>11 DEF Yields, Holds

(* An element is in a set if its bit is set. *)
LEMMA MembershipOfElement ==
    ASSUME NEW a \in Word, NEW b \in SUBSET Word
    PROVE  SetOp("IN", a, b) = (a \in b) /\ Meaning("IN", "IN", a, b) = (a \in b)
  <1>1. Shl({0}, a, Bits["SET"]) = {a}
    <2>1. a \in Int /\ a \in Ones(Bits["SET"])
      BY DEF Word, Ones
    <2>. QED  BY <2>1 DEF Shl
  <1>2. (Shl({0}, a, Bits["SET"]) \cap b # {}) = (a \in b)
    BY <1>1
  <1>3. SetOp("IN", a, b) = (Shl({0}, a, Bits["SET"]) \cap b # {})
    BY DEF SetOp
  <1>4. a # Undef /\ b # Undef
    <2>1. a \in Int
      BY DEF Word, Ones
    <2>. QED  BY <2>1, UndefAssumption
  <1>5. Meaning("IN", "IN", a, b) = (a \in b)
    BY <1>4, Zenon DEF Meaning, Relations
  <1>. QED  BY <1>2, <1>3, <1>5

(* The membership of a variable in a set, or of a literal in one *)
LEMMA MembershipYields ==
    ASSUME NEW op, NEW l, NEW r, NEW typing, NEW mean, Applicable(op, l, r, typing, mean),
           Membership(op, l.type, r.type, typing.common, typing.result),
           ~(isLiteral(l) /\ isLiteral(r)), NEW m \in DOMAIN Memories, Fit(mean.at[m].v, mean.type) # Undef
    PROVE  Yields(BinaryCode(op, CastTo(typing.common, l), CastTo(typing.common, r)).at[m], typing.result,
                  mean.at[m].v, mean.at[m].calls)
  <1>. DEFINE type == OperandType(op, l.mean.type, r.mean.type)
              a == Given(op, type, l.mean, m)
              b == Given(op, type, r.mean, m)
              x == IF isLiteral(l) THEN [l.code EXCEPT !.ll = "i32"] ELSE l.code
  <1>1. op = "IN" /\ l.type \in Integers /\ r.type = "SET" /\ typing.common = None /\ typing.result = "BOOLEAN"
    BY DEF Membership
  <1>2. CastTo(typing.common, l) = l /\ CastTo(typing.common, r) = r
    BY <1>1, NoCastTo
  <1>3. /\ mean.type = "BOOLEAN" /\ mean.at[m].v = Fit(Meaning("IN", "IN", a, b), "BOOLEAN")
        /\ mean.at[m].calls = l.mean.at[m].calls + r.mean.at[m].calls
    <2>. HIDE DEF a, b, type
    <2>1. ~Skipped(op, a) /\ Applied(op, type, a, b) = Meaning("IN", "IN", a, b)
      BY <1>1 DEF Skipped, Applied
    <2>. QED  BY <1>1, <2>1, MixedAt DEF a, b, type
  <1>4. Meaning("IN", "IN", a, b) # Undef /\ mean.at[m].v = Meaning("IN", "IN", a, b)
    <2>. HIDE DEF a, b
    <2>. QED  BY <1>3, FitIsSame
  <1>5. a # Undef /\ b # Undef
    <2>. HIDE DEF a, b
    <2>. QED  BY <1>4, MeaningIsDefined
  <1>6. /\ Yields(l.code.at[m], l.type, a, l.mean.at[m].calls) /\ Yields(r.code.at[m], "SET", b, r.mean.at[m].calls)
        /\ a \in ValuesOf(l.type) /\ b \in SUBSET Word
    BY <1>1, <1>5, PlainGiven, KindsOfValues
  <1>7. Operand(l) = l.code /\ Operand(r) = r.code /\ r.code.ll = "i32"
    BY <1>1, PlainOperand, LLVMTypes
  <1>8. ~isLiteral(l) => l.code.ll = "i32"
    <2>1. Accepted(op, l, r, typing) /\ mean = BinaryMean(op, l, r, typing) /\ mean.limits = {}
      BY DEF Applicable
    <2>2. Departures(op, l, r, typing.common) = {}
      BY <2>1, BinaryFacts
    <2>3. ~isLiteral(l) => l.type = "INTEGER"
      BY <1>1, <2>2, NoDepartures
    <2>. QED  BY <2>3, PlainOperand, LLVMTypes
  <1>9. x.ll = "i32" /\ x.at = l.code.at
    <2>1. l.code = [ll |-> l.code.ll, at |-> l.code.at]
      BY DEF Applicable, Accepted, IsExpression, IsTyped, IsNode
    <2>. QED  BY <1>8, <2>1
  <1>. HIDE DEF a, b, type, x
  <1>10. a \in Word
    <2>1. CASE a \in Word
      BY <2>1
    <2>2. CASE a \notin Word
      <3>1. Meaning("IN", "IN", a, b) = Undef
        BY <1>5, <2>2 DEF Meaning, Relations
      <3>. QED  BY <1>4, <3>1
    <2>. QED  BY <2>1, <2>2
  <1>11. Meaning("IN", "IN", a, b) = SetOp("IN", a, b)
    BY <1>6, <1>10, MembershipOfElement
  <1>12. BinaryCode(op, l, r).at[m] = [v |-> SetOp("IN", a, b), calls |-> l.mean.at[m].calls + r.mean.at[m].calls]
    <2>1. "SET" \in {l.type, r.type}
      BY <1>1
    <2>2. /\ x.at[m].v = a /\ x.at[m].calls = l.mean.at[m].calls
          /\ r.code.at[m].v = b /\ r.code.at[m].calls = r.mean.at[m].calls
      <3>1. l.type # "BYTE"
        BY <1>1 DEF Integers
      <3>. QED  BY <1>6, <1>9, <3>1 DEF Yields, Holds
    <2>3. BinaryCode(op, l, r) = LET setOp(p, q) == SetOp("IN", p, q) IN Apply({"i32"}, "i1", setOp, x, r.code)
      BY <1>1, <1>7, <2>1 DEF BinaryCode, x
    <2>. QED  BY <1>5, <1>7, <1>9, <2>2, <2>3 DEF Apply, Code
  <1>. QED  BY <1>1, <1>2, <1>3, <1>4, <1>11, <1>12 DEF Yields, Holds

(* Jumps: the right-hand side is evaluated only if it decides. *)
LEMMA LogicYields ==
    ASSUME NEW op, NEW l, NEW r, NEW typing, NEW mean, Applicable(op, l, r, typing, mean),
           Logic(op, l.type, r.type, typing.common, typing.result),
           ~(isLiteral(l) /\ isLiteral(r)), NEW m \in DOMAIN Memories, Fit(mean.at[m].v, mean.type) # Undef
    PROVE  Yields(BinaryCode(op, CastTo(typing.common, l), CastTo(typing.common, r)).at[m], typing.result,
                  mean.at[m].v, mean.at[m].calls)
  <1>. DEFINE type == OperandType(op, l.mean.type, r.mean.type)
              a == Given(op, type, l.mean, m)
              b == Given(op, type, r.mean, m)
              code == BinaryCode(op, l, r)
  <1>1. op \in {"&", "OR"} /\ l.type = "BOOLEAN" /\ r.type = "BOOLEAN" /\ typing.common = "BOOLEAN" /\ typing.result = "BOOLEAN"
    BY DEF Logic
  <1>2. CastTo(typing.common, l) = l /\ CastTo(typing.common, r) = r
    BY <1>1, NoCastTo
  <1>3. "BOOLEAN" \in Types \ Numeric /\ type = "BOOLEAN"
    <2>1. "BOOLEAN" \in Types \ Numeric
      BY DEF Types, Numeric, Integers, RealTypes
    <2>. QED  BY <1>1, <2>1, PlainOperand, TypeOfEquals
  <1>4. /\ mean.type = "BOOLEAN"
        /\ Skipped(op, a) => mean.at[m] = l.mean.at[m]
        /\ ~Skipped(op, a) => /\ mean.at[m].v = Fit(Meaning(op, "BOOLEAN", a, b), "BOOLEAN")
                              /\ mean.at[m].calls = l.mean.at[m].calls + r.mean.at[m].calls
    <2>. HIDE DEF a, b, type
    <2>1. Applied(op, type, a, b) = Meaning(op, "BOOLEAN", a, b)
      BY <1>1, <1>3 DEF Applied
    <2>. QED  BY <1>1, <2>1, MixedAt DEF a, b, type
  <1>5. a # Undef =>
          Yields(l.code.at[m], "BOOLEAN", a, l.mean.at[m].calls) /\ a \in BOOLEAN /\ a = l.mean.at[m].v
    BY <1>1, <1>3, PlainGiven, KindsOfValues
  <1>6. b # Undef => Yields(r.code.at[m], "BOOLEAN", b, r.mean.at[m].calls) /\ b \in BOOLEAN
    BY <1>1, <1>3, PlainGiven, KindsOfValues
  <1>7. code.at[m] = (IF l.code.at[m].v = Undef THEN l.code.at[m]
                      ELSE IF l.code.at[m].v = (op = "OR") THEN l.code.at[m]
                      ELSE [v |-> r.code.at[m].v, calls |-> l.code.at[m].calls + r.code.at[m].calls])
    <2>1. Operand(l) = l.code /\ Operand(r) = r.code
      BY PlainOperand
    <2>2. code = ShortCircuit(op, l.code, r.code)
      BY <1>1, <2>1 DEF BinaryCode
    <2>. DEFINE at == [i \in DOMAIN Memories |->
                         IF l.code.at[i].v = Undef THEN l.code.at[i]
                         ELSE IF l.code.at[i].v = (op = "OR") THEN l.code.at[i]
                         ELSE [v |-> r.code.at[i].v, calls |-> l.code.at[i].calls + r.code.at[i].calls]]
    <2>3. code = Code("i1", at)
      BY <2>2, Zenon DEF ShortCircuit
    <2>4. at[m] = (IF l.code.at[m].v = Undef THEN l.code.at[m]
                   ELSE IF l.code.at[m].v = (op = "OR") THEN l.code.at[m]
                   ELSE [v |-> r.code.at[m].v, calls |-> l.code.at[m].calls + r.code.at[m].calls])
      BY Zenon
    <2>. HIDE DEF at
    <2>5. code.at = at
      BY <2>3 DEF Code
    <2>. QED  BY <2>4, <2>5
  <1>. HIDE DEF a, b, type, code
  <1>8. CASE Skipped(op, a)
    <2>1. a = (op = "OR") /\ mean.at[m] = l.mean.at[m]
      BY <1>4, <1>8 DEF Skipped
    <2>2. a # Undef
      BY <2>1, UndefAssumption
    <2>3. l.code.at[m].v = a /\ Yields(l.code.at[m], "BOOLEAN", l.mean.at[m].v, l.mean.at[m].calls)
      BY <1>5, <2>2 DEF Yields, Holds
    <2>4. code.at[m] = l.code.at[m]
      BY <1>7, <2>1, <2>2, <2>3, Zenon
    <2>. QED  BY <1>1, <1>2, <2>1, <2>3, <2>4, Zenon DEF code
  <1>9. CASE ~Skipped(op, a)
    <2>. DEFINE e == Meaning(op, "BOOLEAN", a, b)
                calls == l.mean.at[m].calls + r.mean.at[m].calls
    <2>1. mean.at[m].v = Fit(e, "BOOLEAN") /\ mean.at[m].calls = calls
      BY <1>4, <1>9, Zenon
    <2>2. e # Undef /\ mean.at[m].v = e
      <3>. HIDE DEF e
      <3>. QED  BY <1>4, <2>1, FitIsSame
    <2>3. a # Undef /\ b # Undef
      BY <2>2, MeaningIsDefined, Zenon
    <2>4. a # (op = "OR")
      BY <1>1, <1>9, Zenon DEF Skipped
    <2>5. l.code.at[m].v = a /\ l.code.at[m].calls = l.mean.at[m].calls /\ a \in BOOLEAN
      BY <1>5, <2>3 DEF Yields, Holds
    <2>6. r.code.at[m].v = b /\ r.code.at[m].calls = r.mean.at[m].calls /\ b \in BOOLEAN
      BY <1>6, <2>3 DEF Yields, Holds
    <2>7. code.at[m] = [v |-> b, calls |-> calls]
      BY <1>7, <2>3, <2>4, <2>5, <2>6, Zenon
    <2>8. e = b
      <3>1. CASE op = "&"
        <4>1. e = (a /\ b)
          BY <2>3, <3>1, Zenon DEF Meaning, Relations
        <4>2. a = TRUE
          BY <2>4, <2>5, <3>1, Zenon
        <4>. QED  BY <2>6, <4>1, <4>2
      <3>2. CASE op = "OR"
        <4>1. e = (a \/ b)
          BY <2>3, <3>2, Zenon DEF Meaning, Relations
        <4>2. a = FALSE
          BY <2>4, <2>5, <3>2, Zenon
        <4>. QED  BY <2>6, <4>1, <4>2
      <3>. QED  BY <1>1, <3>1, <3>2
    <2>. HIDE DEF e, calls
    <2>. QED  BY <1>1, <1>2, <2>1, <2>2, <2>7, <2>8 DEF Yields, Holds, code
  <1>. QED  BY <1>8, <1>9

-----------------------------------------------------------------------------
(* Binary expressions *)

(* The operators that there are *)
LEMMA OperatorCases ==
    ASSUME NEW op, NEW l, NEW r, NEW typing, NEW mean, Applicable(op, l, r, typing, mean)
    PROVE  \/ Equality(op, l.type, r.type, typing.common, typing.result) /\ isLiteral(l) /\ isLiteral(r)
           \/ Logic(op, l.type, r.type, typing.common, typing.result)
           \/ SetRelation(op, l.type, r.type, typing.common, typing.result)
           \/ SetOperation(op, l.type, r.type, typing.common, typing.result)
           \/ Membership(op, l.type, r.type, typing.common, typing.result)
           \/ CharRelation(op, l.type, r.type, typing.common, typing.result)
           \/ OfNumbers(op, l.type, r.type, typing.common, typing.result)
  <1>1. Accepted(op, l, r, typing) /\ mean = BinaryMean(op, l, r, typing) /\ mean.limits = {}
    BY DEF Applicable
  <1>2. Departures(op, l, r, typing.common) = {}
    BY <1>1, BinaryFacts
  <1>3. l.type \in Types /\ r.type \in Types /\ typing = Typing(op, l.type, r.type) /\ typing.result # None
    BY <1>1 DEF Accepted, IsExpression, IsTyped, IsNode
  <1>4. \/ OfBooleans(op, l.type, r.type, typing.common, typing.result)
        \/ OfSets(op, l.type, r.type, typing.common, typing.result)
        \/ OfNumbers(op, l.type, r.type, typing.common, typing.result)
        \/ CharRelation(op, l.type, r.type, typing.common, typing.result)
    BY <1>3, TypingCases
  <1>5. ASSUME Equality(op, l.type, r.type, typing.common, typing.result) PROVE isLiteral(l) /\ isLiteral(r)
    <2>1. "boolean equality" \notin Departures(op, l, r, typing.common)
      BY <1>2
    <2>2. op \in {"=", "#"} /\ l.type = "BOOLEAN" /\ r.type = "BOOLEAN"
      BY <1>5 DEF Equality
    <2>. DEFINE d == "boolean equality"
    <2>3. ASSUME ~isLiteral(l) \/ ~isLiteral(r) PROVE d \in Departures(op, l, r, typing.common)
      BY <2>2, <2>3, Zenon DEF Departures
    <2>. QED  BY <2>1, <2>3
  <1>. QED  BY <1>4, <1>5 DEF OfBooleans, OfSets

(* The code of a binary expression yields what it means. *)
LEMMA InstructionYields ==
    ASSUME NEW op, NEW l, NEW r, NEW typing, NEW mean, Applicable(op, l, r, typing, mean),
           ~(isLiteral(l) /\ isLiteral(r)), NEW m \in DOMAIN Memories, Fit(mean.at[m].v, mean.type) # Undef
    PROVE  Yields(BinaryCode(op, CastTo(typing.common, l), CastTo(typing.common, r)).at[m], typing.result,
                  mean.at[m].v, mean.at[m].calls)
  <1>. DEFINE meant == Yields(BinaryCode(op, CastTo(typing.common, l), CastTo(typing.common, r)).at[m], typing.result,
                              mean.at[m].v, mean.at[m].calls)
  <1>1. Logic(op, l.type, r.type, typing.common, typing.result) => meant
    BY LogicYields
  <1>2. /\ SetRelation(op, l.type, r.type, typing.common, typing.result) => meant
        /\ SetOperation(op, l.type, r.type, typing.common, typing.result) => meant
    BY SetYields
  <1>3. Membership(op, l.type, r.type, typing.common, typing.result) => meant
    BY MembershipYields
  <1>4. CharRelation(op, l.type, r.type, typing.common, typing.result) => meant
    BY CharYields
  <1>5. OfNumbers(op, l.type, r.type, typing.common, typing.result) => meant
    BY NumberYields
  <1>. HIDE DEF meant
  <1>6. meant
    BY <1>1, <1>2, <1>3, <1>4, <1>5, OperatorCases
  <1>. QED  BY <1>6 DEF meant

(* What operands mean *)
LEMMA OperandMeans ==
    ASSUME NEW op, NEW l, NEW r, NEW typing, NEW mean, Applicable(op, l, r, typing, mean), NEW n \in {l, r},
           NEW m \in DOMAIN Memories
    PROVE  /\ n.mean.at[m].calls \in Nat /\ (isLiteral(n) => n.mean.at[m].calls = 0)
           /\ n.mean.at[m].v # Undef => /\ n.mean.at[m].v \in ValuesOf(n.mean.type)
                                        /\ isLiteral(n) => n.val = n.mean.at[m].v
           /\ n.type \in Numeric => n.mean.type \in Numeric
  <1>1. ValuedAt(n, m)
    BY DEF Applicable, Valued
  <1>2. n.type \in Numeric => n.mean.type \in Numeric
    BY PlainOperand DEF Includes
  <1>. QED  BY <1>1, <1>2 DEF ValuedAt

(* What an expression with a variable operand means is a value of its type. *)
LEMMA MixedMeansValue ==
    ASSUME NEW op, NEW l, NEW r, NEW typing, NEW mean, Applicable(op, l, r, typing, mean),
           ~(isLiteral(l) /\ isLiteral(r)), NEW m \in DOMAIN Memories
    PROVE  /\ mean.at[m].calls \in Nat
           /\ mean.at[m].v # Undef => mean.at[m].v \in ValuesOf(mean.type)
  <1>. DEFINE type == OperandType(op, l.mean.type, r.mean.type)
              a == Given(op, type, l.mean, m)
              b == Given(op, type, r.mean, m)
              e == Applied(op, type, a, b)
              d == mean.at[m].v
  <1>1. /\ mean.type = IF typing.result = "BOOLEAN" THEN "BOOLEAN" ELSE type
        /\ Skipped(op, a) => mean.at[m] = l.mean.at[m]
        /\ ~Skipped(op, a) => d = Fit(e, mean.type) /\ mean.at[m].calls = l.mean.at[m].calls + r.mean.at[m].calls
    <2>. HIDE DEF a, b, type
    <2>. QED  BY MixedAt DEF a, b, type
  <1>2. l.mean.at[m].calls \in Nat /\ r.mean.at[m].calls \in Nat
    BY OperandMeans
  <1>3. mean.at[m].calls \in Nat
    <2>. HIDE DEF a, b, type, e, d
    <2>. QED  BY <1>1, <1>2
  <1>4. ASSUME Skipped(op, a), d # Undef PROVE d \in ValuesOf(mean.type)
    <2>1. op \in {"&", "OR"}
      BY <1>4 DEF Skipped
    <2>2. l.type = "BOOLEAN" /\ typing.result = "BOOLEAN"
      BY <2>1, OperatorCases DEF Equality, Logic, SetRelation, SetOperation, Membership, CharRelation, OfNumbers,
                                 Relation, Operation, WholeDivision, Division, Relations
    <2>3. l.mean.type = "BOOLEAN"
      BY <2>2, PlainOperand DEF Numeric, Integers, RealTypes
    <2>. QED  BY <1>1, <1>4, <2>2, <2>3, OperandMeans
  <1>5. ASSUME ~Skipped(op, a), d # Undef PROVE d \in ValuesOf(mean.type)
    <2>1. d = Fit(e, mean.type) /\ Fit(e, mean.type) # Undef /\ e # Undef /\ d = e
      <3>. HIDE DEF e, d
      <3>. QED  BY <1>1, <1>5, FitIsSame
    <2>2. CASE mean.type \notin RealTypes
      <3>. HIDE DEF e, d
      <3>. QED  BY <2>1, <2>2, FitIsSame DEF ValuesOf
    <2>3. CASE mean.type \in RealTypes
      <3>1. typing.result # "BOOLEAN" /\ type \in RealTypes
        BY <1>1, <2>3 DEF RealTypes
      <3>2. OfNumbers(op, l.type, r.type, typing.common, typing.result)
        <4>1. ASSUME SetOperation(op, l.type, r.type, typing.common, typing.result) PROVE FALSE
          <5>1. l.type = "SET" /\ r.type = "SET" /\ "SET" \in Types \ Numeric
            BY <4>1 DEF SetOperation, Types, Numeric, Integers, RealTypes
          <5>2. type = "SET"
            BY <5>1, PlainOperand, TypeOfEquals
          <5>. QED  BY <3>1, <5>2 DEF RealTypes
        <4>. QED  BY <3>1, <4>1, OperatorCases DEF Equality, Logic, SetRelation, Membership, CharRelation
      <3>3. op \in {"+", "-", "*", "/", "DIV", "MOD"}
        BY <3>1, <3>2 DEF OfNumbers, Relation, Operation, WholeDivision, Division
      <3>4. a # Undef /\ b # Undef /\ e = Meaning(op, type, a, b)
        <4>. HIDE DEF a, b, type
        <4>1. e = Meaning(op, type, a, b)
          BY <3>3 DEF Applied
        <4>. QED  BY <2>1, <4>1, MeaningIsDefined
      <3>5. a \in Int /\ b \in Int /\ type \in Numeric
        <4>1. {l.type, r.type, type, typing.common} \subseteq Numeric
          BY <3>2, CommonIncludes
        <4>2. a \in ValuesOf(typing.common) /\ b \in ValuesOf(typing.common)
          BY <3>2, <3>4, NumberOperand
        <4>. QED  BY <4>1, <4>2, KindsOfValues
      <3>. HIDE DEF a, b, type, e
      <3>6. e \in Int
        BY <2>1, <3>3, <3>4, <3>5, NumbersMeanNumbers
      <3>. QED  BY <2>1, <2>3, <3>6, KindsOfValues
    <2>. QED  BY <2>2, <2>3
  <1>. QED  BY <1>3, <1>4, <1>5

-----------------------------------------------------------------------------
(* Constants *)

(* What an expression of constants means *)
LEMMA ConstantAt ==
    ASSUME NEW op, NEW l, NEW r, NEW typing, NEW mean, Applicable(op, l, r, typing, mean),
           isLiteral(l), isLiteral(r), NEW m \in DOMAIN Memories,
           NEW type, type = OperandType(op, l.mean.type, r.mean.type),
           NEW a, a = l.mean.at[m].v, NEW b, b = r.mean.at[m].v
    PROVE  /\ mean.at[m].calls = 0
           /\ Skipped(op, a) => mean.at[m].v = a
           /\ ~Skipped(op, a) =>
                mean.at[m].v = Fit(Applied(op, type, a, b), IF mean.type # "BOOLEAN" THEN Largest(type) ELSE mean.type)
           /\ typing.result = "BOOLEAN" => mean.type = "BOOLEAN"
           /\ typing.result # "BOOLEAN" /\ type \notin Integers => mean.type = type
  <1>1. Accepted(op, l, r, typing) /\ mean = BinaryMean(op, l, r, typing) /\ mean.limits = {}
    BY DEF Applicable
  <1>2. l.mean.const /\ r.mean.const
    <2>1. \A n \in {l, r} : Folded(n)
      BY <1>1, BinaryFacts
    <2>. QED  BY <2>1 DEF Folded
  <1>3. /\ typing.result = "BOOLEAN" => mean.type = "BOOLEAN"
        /\ typing.result # "BOOLEAN" /\ type \notin Integers => mean.type = type
    BY <1>1, BinaryType
  <1>4. /\ Skipped(op, a) => mean.at[m] = l.mean.at[m]
        /\ ~Skipped(op, a) =>
             /\ mean.at[m].v = Fit(Applied(op, type, a, b), IF l.mean.const /\ r.mean.const /\ mean.type # "BOOLEAN"
                                                           THEN Largest(type) ELSE mean.type)
             /\ mean.at[m].calls = l.mean.at[m].calls + r.mean.at[m].calls
    BY <1>1, <1>2, BinaryAt
  <1>5. l.mean.at[m].calls = 0 /\ r.mean.at[m].calls = 0
    BY OperandMeans
  <1>. QED  BY <1>2, <1>3, <1>4, <1>5

(* Integer constants *)
LEMMA IntegerConstant ==
    ASSUME NEW op, NEW l, NEW r, NEW typing, NEW mean, Applicable(op, l, r, typing, mean),
           isLiteral(l), isLiteral(r), typing.result \in Integers
    PROVE  LET e == Meaning(op, OperandType(op, l.mean.type, r.mean.type), l.val, r.val)
           IN  /\ op \in {"+", "-", "*", "DIV", "MOD"} /\ OperandType(op, l.mean.type, r.mean.type) \in Integers
               /\ l.val \in Int /\ r.val \in Int
               /\ e \in Values("LONGINT") /\ e \in ValuesOf(mean.type)
               /\ \A m \in DOMAIN Memories : mean.at[m].v = e
  <1>. DEFINE type == OperandType(op, l.mean.type, r.mean.type)
              e == Meaning(op, type, l.val, r.val)
  <1>1. Accepted(op, l, r, typing) /\ mean = BinaryMean(op, l, r, typing) /\ mean.limits = {}
    BY DEF Applicable
  <1>2. /\ op \in {"+", "-", "*", "DIV", "MOD"} /\ typing.result # "BOOLEAN"
        /\ l.mean.const /\ r.mean.const /\ type \in Integers
        /\ \A m \in DOMAIN Memories : l.mean.at[m].v = l.val /\ r.mean.at[m].v = r.val
        /\ l.val \in Values(typing.result) /\ r.val \in Values(typing.result)
    BY <1>1, IntegerOperands
  <1>3. mean.type = intType(e) /\ e \in Values("LONGINT") /\ \A m \in DOMAIN Memories : mean.at[m].v = e
    BY <1>1, <1>2, BinaryConstant
  <1>4. l.val \in Int /\ r.val \in Int
    BY <1>2, IntegerValues
  <1>. HIDE DEF e, type
  <1>5. e \in Values(intType(e)) /\ intType(e) \in Integers
    BY <1>3, Int64Fits, SmallestIsIntType
  <1>6. e \in ValuesOf(mean.type)
    BY <1>3, <1>5, KindsOfValues DEF ValuesOf, Integers, RealTypes
  <1>. QED  BY <1>2, <1>3, <1>4, <1>6 DEF e, type

(* Real constants *)
LEMMA RealConstant ==
    ASSUME NEW op, NEW l, NEW r, NEW typing, NEW mean, Applicable(op, l, r, typing, mean),
           isLiteral(l), isLiteral(r), typing.result \in RealTypes, NEW m \in DOMAIN Memories, mean.at[m].v # Undef
    PROVE  /\ op \in {"+", "-", "*", "/"} /\ l.val \in Int /\ r.val \in Int
           /\ mean.type \in RealTypes /\ mean.at[m].v \in Int
           /\ mean.at[m].v = Real(Meaning(op, typing.result, l.val, r.val), Bits["LONGREAL"])
  <1>. DEFINE type == OperandType(op, l.mean.type, r.mean.type)
              a == l.mean.at[m].v
              b == r.mean.at[m].v
              e == Meaning(op, type, a, b)
              d == mean.at[m].v
  <1>1. OfNumbers(op, l.type, r.type, typing.common, typing.result) /\ typing.result = typing.common
    BY OperatorCases DEF Equality, Logic, SetRelation, SetOperation, Membership, CharRelation, OfNumbers,
                         Relation, Operation, WholeDivision, Division, RealTypes
  <1>2. /\ op \in {"+", "-", "*", "/"} /\ {l.type, r.type, type, l.mean.type, r.mean.type} \subseteq Numeric
        /\ Includes(typing.result, type)
    <2>1. /\ {l.type, r.type, type, l.mean.type, r.mean.type} \subseteq Numeric /\ Includes(typing.result, type)
      BY <1>1, CommonIncludes
    <2>2. ~WholeDivision(op, l.type, r.type, typing.common, typing.result)
      <3>1. ASSUME WholeDivision(op, l.type, r.type, typing.common, typing.result) PROVE FALSE
        <4>1. l.type \notin RealTypes /\ r.type \notin RealTypes /\ typing.result = Larger(l.type, r.type)
          BY <1>1, <3>1 DEF WholeDivision, Integers, RealTypes
        <4>. QED  BY <2>1, <4>1, CommonIsLarger
      <3>. QED  BY <3>1
    <2>3. op \in {"+", "-", "*", "/"}
      BY <1>1, <2>2 DEF OfNumbers, Relation, Operation, Division, RealTypes
    <2>. QED  BY <2>1, <2>3
  <1>3. type \in RealTypes /\ type \notin Integers /\ typing.result # "BOOLEAN"
    BY <1>2 DEF Includes, RealTypes, Integers
  <1>4. mean.type = type /\ d = Fit(e, "LONGREAL")
    <2>. HIDE DEF a, b, type
    <2>1. ~Skipped(op, a) /\ Applied(op, type, a, b) = e /\ Largest(type) = "LONGREAL" /\ type # "BOOLEAN"
      BY <1>2, <1>3 DEF Skipped, Applied, Largest, RealTypes
    <2>2. /\ ~Skipped(op, a) =>
                d = Fit(Applied(op, type, a, b), IF mean.type # "BOOLEAN" THEN Largest(type) ELSE mean.type)
          /\ typing.result # "BOOLEAN" /\ type \notin Integers => mean.type = type
      BY ConstantAt DEF a, b, type
    <2>. HIDE DEF e, d
    <2>. QED  BY <1>3, <2>1, <2>2
  <1>5. Fit(e, "LONGREAL") # Undef /\ e # Undef /\ d = e
    <2>. HIDE DEF e, d
    <2>1. d # Undef
      BY DEF d
    <2>. QED  BY <1>4, <2>1, FitIsSame
  <1>6. a # Undef /\ b # Undef
    <2>. HIDE DEF a, b, type
    <2>. QED  BY <1>5, MeaningIsDefined
  <1>7. l.val = a /\ a \in Int /\ r.val = b /\ b \in Int
    <2>1. l.val = a /\ a \in ValuesOf(l.mean.type) /\ r.val = b /\ b \in ValuesOf(r.mean.type)
      BY <1>6, OperandMeans
    <2>. HIDE DEF a, b
    <2>. QED  BY <1>2, <2>1, KindsOfValues
  <1>. HIDE DEF a, b, type
  <1>8. e \in Int /\ e = Meaning(op, typing.result, a, b)
    <2>1. typing.result \in Numeric
      BY DEF Numeric
    <2>. QED  BY <1>2, <1>3, <1>5, <1>7, <2>1, NumbersMeanNumbers, MeaningOfAnyNumbers
  <1>9. d = Real(e, Bits["LONGREAL"])
    <2>1. "LONGREAL" \in RealTypes
      BY DEF RealTypes
    <2>. HIDE DEF e, d
    <2>. QED  BY <1>4, <1>5, <2>1 DEF Fit
  <1>. QED  BY <1>2, <1>3, <1>4, <1>5, <1>7, <1>8, <1>9 DEF a, b, type

(* A literal that has the value it stands for *)
LEMMA LiteralIsValued ==
    ASSUME NEW val, NEW t, NEW mean, NEW k, k = Literal(val, t, mean),
           \A m \in DOMAIN Memories : /\ mean.at[m].calls = 0
                                      /\ mean.at[m].v # Undef => mean.at[m].v \in ValuesOf(mean.type) /\ val = mean.at[m].v
    PROVE  Valued(k)
  <1>1. isLiteral(k) /\ k.val = val /\ k.type = t /\ k.mean = mean /\ k.code = LiteralCode(val, t)
    BY DEF Literal, isLiteral
  <1>2. ASSUME NEW m \in DOMAIN Memories PROVE ValuedAt(k, m)
    BY <1>1 DEF ValuedAt
  <1>. QED  BY <1>1, <1>2 DEF Valued

MeansLiteral(val, mean) ==
    \A m \in DOMAIN Memories :
      mean.at[m].calls = 0 /\ (mean.at[m].v # Undef => mean.at[m].v \in ValuesOf(mean.type) /\ val = mean.at[m].v)

LEMMA LiteralHasValue ==
    ASSUME NEW val, NEW t, NEW mean, MeansLiteral(val, mean)
    PROVE  Valued(Literal(val, t, mean))
  <1>1. \A k : k = Literal(val, t, mean) => Valued(k)
    BY LiteralIsValued DEF MeansLiteral
  <1>. QED  BY <1>1

(* An integer that is folded *)
LEMMA FoldedIntegerIsValued ==
    ASSUME NEW op, NEW l, NEW r, NEW typing, NEW mean, Applicable(op, l, r, typing, mean),
           isLiteral(l), isLiteral(r), typing.result \in Integers,
           NEW value, value = Meaning(op, OperandType(op, l.mean.type, r.mean.type), l.val, r.val), NEW t
    PROVE  Valued(NewInteger(value, mean)) /\ Valued(Literal(value, t, mean))
  <1>1. value \in Values("LONGINT") /\ value \in ValuesOf(mean.type) /\ \A m \in DOMAIN Memories : mean.at[m].v = value
    BY IntegerConstant
  <1>2. \A m \in DOMAIN Memories : mean.at[m].calls = 0
    BY ConstantAt
  <1>3. NewInteger(value, mean) = Literal(value, intType(value), mean)
    BY <1>1, Int64Fits DEF NewInteger
  <1>. DEFINE i == intType(value)
  <1>. HIDE DEF i
  <1>4. \A u : Valued(Literal(value, u, mean))
    BY <1>1, <1>2, LiteralIsValued
  <1>. QED  BY <1>3, <1>4 DEF i

(* A real number that is folded *)
LEMMA FoldedRealIsValued ==
    ASSUME NEW op, NEW l, NEW r, NEW typing, NEW mean, Applicable(op, l, r, typing, mean),
           isLiteral(l), isLiteral(r), typing.result \in RealTypes, NEW value, NEW t,
           \A m \in DOMAIN Memories : mean.at[m].v # Undef => value = Meaning(op, typing.result, l.val, r.val)
    PROVE  Valued(Literal(Double(value), t, mean))
  <1>. DEFINE val == Double(value)
  <1>1. ASSUME NEW m \in DOMAIN Memories, mean.at[m].v # Undef
        PROVE  mean.at[m].v \in ValuesOf(mean.type) /\ val = mean.at[m].v
    <2>1. /\ mean.type \in RealTypes /\ mean.at[m].v \in Int
          /\ mean.at[m].v = Real(value, Bits["LONGREAL"])
      BY <1>1, RealConstant
    <2>2. value # Undef
      BY <1>1, <2>1 DEF Real
    <2>. QED  BY <2>1, <2>2, KindsOfValues DEF Double
  <1>2. \A m \in DOMAIN Memories : mean.at[m].calls = 0
    BY ConstantAt
  <1>. HIDE DEF val
  <1>. QED  BY <1>1, <1>2, LiteralIsValued DEF val

(* Sums, differences and products of constants *)
LEMMA FoldedNumberIsValued ==
    ASSUME NEW op \in {"+", "-", "*"}, NEW l, NEW r, NEW typing, NEW mean, Applicable(op, l, r, typing, mean),
           isLiteral(l), isLiteral(r), typing.result \in Integers \cup RealTypes,
           NEW value, value = IF Undef \in {l.val, r.val} THEN Undef
                              ELSE CASE op = "+" -> l.val + r.val [] op = "-" -> l.val - r.val [] op = "*" -> l.val * r.val
    PROVE  Valued(NewNumber(value, typing.result, mean))
  <1>. DEFINE type == OperandType(op, l.mean.type, r.mean.type)
  <1>1. ASSUME NEW t \in Numeric, l.val \in Int, r.val \in Int PROVE value = Meaning(op, t, l.val, r.val)
    <2>1. Undef \notin {l.val, r.val}
      BY <1>1, UndefAssumption
    <2>. QED  BY <1>1, <2>1, MeaningOfNumbers
  <1>2. CASE typing.result \in Integers
    <2>1. type \in Numeric /\ l.val \in Int /\ r.val \in Int
      BY <1>2, IntegerConstant DEF Numeric
    <2>2. value = Meaning(op, type, l.val, r.val)
      BY <1>1, <2>1
    <2>3. NewNumber(value, typing.result, mean) = NewInteger(value, mean)
      BY <1>2 DEF NewNumber
    <2>. QED  BY <1>2, <2>2, <2>3, FoldedIntegerIsValued
  <1>3. CASE typing.result \in RealTypes
    <2>1. ASSUME NEW m \in DOMAIN Memories, mean.at[m].v # Undef PROVE value = Meaning(op, typing.result, l.val, r.val)
      BY <1>1, <1>3, <2>1, RealConstant DEF Numeric
    <2>2. typing.result \notin Integers
      BY <1>3 DEF Integers, RealTypes
    <2>3. NewNumber(value, typing.result, mean) = Literal(Double(value), typing.result, mean)
      BY <2>2 DEF NewNumber
    <2>. QED  BY <1>3, <2>1, <2>3, FoldedRealIsValued
  <1>. QED  BY <1>2, <1>3

(* Quotients of real constants *)
LEMMA FoldedRatioIsValued ==
    ASSUME NEW l, NEW r, NEW typing, NEW mean, Applicable("/", l, r, typing, mean),
           isLiteral(l), isLiteral(r), typing.result \in RealTypes
    PROVE  Valued(Literal(IF Undef \in {l.val, r.val} THEN Undef ELSE Double(Quotient(l.val, r.val)), typing.result, mean))
  <1>. DEFINE q == Quotient(l.val, r.val)
              value == IF Undef \in {l.val, r.val} THEN Undef ELSE q
  <1>1. (IF Undef \in {l.val, r.val} THEN Undef ELSE Double(q)) = Double(value)
    BY DEF Double
  <1>2. ASSUME NEW m \in DOMAIN Memories, mean.at[m].v # Undef PROVE value = Meaning("/", typing.result, l.val, r.val)
    <2>1. l.val \in Int /\ r.val \in Int /\ typing.result \in Numeric
      BY <1>2, RealConstant DEF Numeric
    <2>2. Undef \notin {l.val, r.val}
      BY <2>1, UndefAssumption
    <2>. QED  BY <2>1, <2>2, MeaningOfNumbers
  <1>. HIDE DEF value, q
  <1>3. Valued(Literal(Double(value), typing.result, mean))
    BY <1>2, FoldedRealIsValued
  <1>. QED  BY <1>1, <1>3 DEF q

(* Whole quotients and remainders of constants *)
LEMMA FoldedQuotientIsValued ==
    ASSUME NEW op \in {"DIV", "MOD"}, NEW l, NEW r, NEW typing, NEW mean, Applicable(op, l, r, typing, mean),
           isLiteral(l), isLiteral(r), typing.result \in Integers, ~FoldError(op, l, r)
    PROVE  Valued(Literal(IF r.val = 1 THEN l.val ELSE IF op = "DIV" THEN floor_div(l.val, r.val)
                          ELSE euclidean_mod(l.val, r.val), typing.result, mean))
  <1>. DEFINE a == l.val
              b == r.val
              type == OperandType(op, l.mean.type, r.mean.type)
              val == IF b = 1 THEN a ELSE IF op = "DIV" THEN floor_div(a, b) ELSE euclidean_mod(a, b)
  <1>1. Accepted(op, l, r, typing) /\ mean = BinaryMean(op, l, r, typing) /\ mean.limits = {}
    BY DEF Applicable
  <1>2. a \in Int /\ b \in Int /\ type \in Integers /\ a \in Values(typing.result) /\ b \in Values(typing.result)
    BY <1>1, IntegerConstant, IntegerOperands
  <1>3. b > 0
    BY <1>2 DEF FoldError
  <1>4. ~(op = "MOD" /\ b = 1)
    <2>1. ~(op = "MOD" /\ IsLiteral(r, 1))
      BY <1>1, BinaryFacts, NoDepartures
    <2>. QED  BY <2>1 DEF IsLiteral
  <1>5. val = Meaning(op, type, a, b)
    <2>. HIDE DEF a, b, type
    <2>1. Meaning(op, type, a, b) = IF op = "DIV" THEN a \div b ELSE a % b
      BY <1>2, <1>3, MeaningOfIntegers
    <2>2. floor_div(a, b) = a \div b /\ euclidean_mod(a, b) = a % b
      BY <1>2, <1>3, DivisionFits
    <2>3. b = 1 => a \div b = a
      BY <1>2
    <2>. QED  BY <1>4, <2>1, <2>2, <2>3
  <1>. HIDE DEF val
  <1>6. Valued(Literal(val, typing.result, mean))
    BY <1>5, FoldedIntegerIsValued
  <1>. QED  BY <1>6 DEF val

(* Constants that are not skipped, and not numbers of a number *)
LEMMA ConstantMeaning ==
    ASSUME NEW op, NEW l, NEW r, NEW typing, NEW mean, Applicable(op, l, r, typing, mean),
           isLiteral(l), isLiteral(r), typing.result = "BOOLEAN" \/ op \notin {"&", "OR"},
           NEW m \in DOMAIN Memories, mean.at[m].v # Undef,
           NEW type, type = OperandType(op, l.mean.type, r.mean.type), ~Skipped(op, l.mean.at[m].v)
    PROVE  /\ mean.at[m].v = Applied(op, type, l.val, r.val)
           /\ l.val \in ValuesOf(l.mean.type) /\ r.val \in ValuesOf(r.mean.type)
           /\ Fit(mean.at[m].v, IF mean.type # "BOOLEAN" THEN Largest(type) ELSE mean.type) # Undef
           /\ typing.result = "BOOLEAN" => mean.type = "BOOLEAN"
           /\ typing.result # "BOOLEAN" /\ type \notin Integers => mean.type = type
           /\ l.val = l.mean.at[m].v
  <1>. DEFINE a == l.mean.at[m].v
              b == r.mean.at[m].v
              e == Applied(op, type, a, b)
              d == mean.at[m].v
              largest == IF mean.type # "BOOLEAN" THEN Largest(type) ELSE mean.type
  <1>1. /\ d = Fit(e, largest)
        /\ typing.result = "BOOLEAN" => mean.type = "BOOLEAN"
        /\ typing.result # "BOOLEAN" /\ type \notin Integers => mean.type = type
    BY ConstantAt
  <1>2. d = e /\ Fit(e, largest) # Undef /\ e # Undef
    <2>1. d # Undef
      OBVIOUS
    <2>. HIDE DEF e, largest, d
    <2>. QED  BY <1>1, <2>1, FitIsSame
  <1>3. a # Undef /\ b # Undef
    <2>. HIDE DEF a, b
    <2>. QED  BY <1>2, MeaningIsDefined DEF Applied
  <1>4. l.val = a /\ a \in ValuesOf(l.mean.type) /\ r.val = b /\ b \in ValuesOf(r.mean.type)
    BY <1>3, OperandMeans
  <1>5. d = Applied(op, type, l.val, r.val)
    BY <1>2, <1>4
  <1>. HIDE DEF e, largest
  <1>6. Fit(d, largest) # Undef
    BY <1>2
  <1>. QED  BY <1>1, <1>4, <1>5, <1>6 DEF largest

(* Comparisons of constants: < and <= are the same unless they are equal. *)
LEMMA FoldedRelationIsValued ==
    ASSUME NEW op \in Relations, NEW l, NEW r, NEW typing, NEW mean, Applicable(op, l, r, typing, mean),
           isLiteral(l), isLiteral(r),
           \/ Relation(op, l.type, r.type, typing.common, typing.result)
           \/ CharRelation(op, l.type, r.type, typing.common, typing.result),
           NEW k \in foldRelationOp(op, l, r, mean)
    PROVE  Valued(k)
  <1>. DEFINE folded == CASE op = "<" -> "<=" [] op = "<=" -> "<" [] OTHER -> op
              value == IF Undef \in {l.val, r.val} THEN Undef ELSE Compare(folded, l.val, r.val)
              type == OperandType(op, l.mean.type, r.mean.type)
  <1>1. k = Literal(value, "BOOLEAN", mean)
    BY Zenon DEF foldRelationOp
  <1>2. typing.result = "BOOLEAN" /\ op \notin {"&", "OR", "IN"}
    BY DEF Relation, CharRelation, Relations
  <1>3. /\ type \notin {"SET", "BOOLEAN"} /\ ValuesOf(l.mean.type) \subseteq Int /\ ValuesOf(r.mean.type) \subseteq Int
    <2>1. CASE Relation(op, l.type, r.type, typing.common, typing.result)
      <3>1. {l.mean.type, r.mean.type, type} \subseteq Numeric
        BY <2>1, CommonIncludes DEF OfNumbers
      <3>2. "SET" \notin Numeric /\ "BOOLEAN" \notin Numeric
        BY DEF Numeric, Integers, RealTypes
      <3>. HIDE DEF type
      <3>. QED  BY <3>1, <3>2, KindsOfValues
    <2>2. CASE CharRelation(op, l.type, r.type, typing.common, typing.result)
      <3>1. l.type = "CHAR" /\ r.type = "CHAR" /\ "CHAR" \in Types \ Numeric
        BY <2>2 DEF CharRelation, Types, Numeric, Integers, RealTypes
      <3>2. l.mean.type = "CHAR" /\ r.mean.type = "CHAR"
        BY <3>1, PlainOperand
      <3>3. type = "CHAR"
        BY <3>1, <3>2, TypeOfEquals
      <3>4. ValuesOf("CHAR") \subseteq Int
        <4>1. 0 .. 2 ^ Bits["CHAR"] - 1 \subseteq Int
          OBVIOUS
        <4>. QED  BY <4>1, KindsOfValues
      <3>. QED  BY <3>2, <3>3, <3>4
    <2>. QED  BY <2>1, <2>2
  <1>4. ~(op \in {"<", "<="} /\ l.val = r.val)
    <2>1. Accepted(op, l, r, typing) /\ mean = BinaryMean(op, l, r, typing) /\ mean.limits = {}
      BY DEF Applicable
    <2>. DEFINE d == "constant order"
    <2>2. d \notin Departures(op, l, r, typing.common)
      BY <2>1, BinaryFacts
    <2>3. ASSUME op \in {"<", "<="}, l.val = r.val PROVE d \in Departures(op, l, r, typing.common)
      BY <2>3, Zenon DEF Departures
    <2>. QED  BY <2>2, <2>3
  <1>5. ASSUME NEW m \in DOMAIN Memories, mean.at[m].v # Undef
        PROVE  mean.at[m].v \in ValuesOf(mean.type) /\ value = mean.at[m].v
    <2>1. ~Skipped(op, l.mean.at[m].v)
      BY <1>2 DEF Skipped
    <2>2. /\ mean.at[m].v = Applied(op, type, l.val, r.val) /\ mean.type = "BOOLEAN"
          /\ l.val \in ValuesOf(l.mean.type) /\ r.val \in ValuesOf(r.mean.type)
          /\ Fit(mean.at[m].v, "BOOLEAN") # Undef
      BY <1>2, <1>5, <2>1, ConstantMeaning
    <2>3. l.val \in Int /\ r.val \in Int
      BY <1>3, <2>2
    <2>4. Undef \notin {l.val, r.val} /\ l.val # Undef /\ r.val # Undef
      BY <2>3, UndefAssumption
    <2>5. mean.at[m].v = Compare(op, l.val, r.val)
      <3>. HIDE DEF type
      <3>1. Applied(op, type, l.val, r.val) = Meaning(op, type, l.val, r.val)
        BY <1>2 DEF Applied
      <3>2. Meaning(op, type, l.val, r.val) = Compare(op, l.val, r.val)
        BY <1>3, <2>4, Zenon DEF Meaning, Relations
      <3>. QED  BY <2>2, <3>1, <3>2
    <2>6. Compare(folded, l.val, r.val) = Compare(op, l.val, r.val)
      <3>1. CASE op \notin {"<", "<="}
        BY <3>1
      <3>2. CASE op = "<"
        BY <1>4, <2>3, <3>2 DEF Compare
      <3>3. CASE op = "<="
        BY <1>4, <2>3, <3>3 DEF Compare
      <3>. QED  BY <3>1, <3>2, <3>3
    <2>7. value = mean.at[m].v
      BY <2>4, <2>5, <2>6
    <2>8. mean.at[m].v \in ValuesOf(mean.type)
      <3>1. "BOOLEAN" \notin RealTypes
        BY DEF RealTypes
      <3>. QED  BY <2>2, <3>1, FitIsSame DEF ValuesOf
    <2>. HIDE DEF value
    <2>. QED  BY <2>7, <2>8
  <1>6. \A m \in DOMAIN Memories : mean.at[m].calls = 0
    BY ConstantAt
  <1>. HIDE DEF value
  <1>. QED  BY <1>1, <1>5, <1>6, LiteralIsValued

(* Logic and equality of constants *)
LEMMA FoldedBooleanIsValued ==
    ASSUME NEW op, NEW l, NEW r, NEW typing, NEW mean, Applicable(op, l, r, typing, mean),
           isLiteral(l), isLiteral(r),
           \/ Equality(op, l.type, r.type, typing.common, typing.result)
           \/ Logic(op, l.type, r.type, typing.common, typing.result),
           NEW k \in foldBooleanOp(op, l, r, mean)
    PROVE  Valued(k)
  <1>. DEFINE value == CASE op = "&" -> l.val /\ r.val
                         [] op = "OR" -> l.val \/ r.val
                         [] op = "=" -> l.val = r.val
                         [] op = "#" -> l.val # r.val
              type == OperandType(op, l.mean.type, r.mean.type)
  <1>1. k = Literal(value, "BOOLEAN", mean)
    BY Zenon DEF foldBooleanOp
  <1>2. op \in {"&", "OR", "=", "#"} /\ l.type = "BOOLEAN" /\ r.type = "BOOLEAN" /\ typing.result = "BOOLEAN"
    BY DEF Equality, Logic
  <1>3. l.mean.type = "BOOLEAN" /\ r.mean.type = "BOOLEAN" /\ type = "BOOLEAN"
    <2>1. "BOOLEAN" \in Types \ Numeric
      BY DEF Types, Numeric, Integers, RealTypes
    <2>2. l.mean.type = "BOOLEAN" /\ r.mean.type = "BOOLEAN"
      BY <1>2, <2>1, PlainOperand
    <2>. QED  BY <2>1, <2>2, TypeOfEquals
  <1>4. ASSUME NEW m \in DOMAIN Memories, mean.at[m].v # Undef
        PROVE  mean.at[m].v \in ValuesOf(mean.type) /\ value = mean.at[m].v
    <2>. DEFINE a == l.mean.at[m].v
                d == mean.at[m].v
    <2>1. CASE Skipped(op, a)
      <3>1. d = a /\ mean.type = "BOOLEAN" /\ op \in {"&", "OR"} /\ a = (op = "OR")
        <4>1. d = a /\ mean.type = "BOOLEAN"
          BY <1>2, <2>1, ConstantAt
        <4>2. op \in {"&", "OR"} /\ a = (op = "OR")
          BY <2>1, Zenon DEF Skipped
        <4>. QED  BY <4>1, <4>2, Zenon
      <3>2. l.val = a /\ a \in BOOLEAN
        <4>1. a # Undef
          BY <1>4, <3>1, Zenon
        <4>. QED  BY <1>3, <4>1, OperandMeans, KindsOfValues
      <3>3. CASE op = "&"
        <4>1. a = FALSE
          BY <3>1, <3>3, Zenon
        <4>2. value = (l.val /\ r.val)
          BY <3>3, Zenon
        <4>3. (l.val /\ r.val) = FALSE
          BY <3>2, <4>1, Zenon
        <4>. QED  BY <3>1, <3>2, <4>1, <4>2, <4>3, KindsOfValues, Zenon
      <3>4. CASE op = "OR"
        <4>1. a = TRUE
          BY <3>1, <3>4, Zenon
        <4>2. value = (l.val \/ r.val)
          BY <3>4, Zenon
        <4>3. (l.val \/ r.val) = TRUE
          BY <3>2, <4>1, Zenon
        <4>. QED  BY <3>1, <3>2, <4>1, <4>2, <4>3, KindsOfValues, Zenon
      <3>. QED  BY <3>1, <3>3, <3>4, Zenon
    <2>2. CASE ~Skipped(op, a)
      <3>1. /\ d = Applied(op, type, l.val, r.val) /\ mean.type = "BOOLEAN"
            /\ l.val \in ValuesOf("BOOLEAN") /\ r.val \in ValuesOf("BOOLEAN") /\ Fit(d, "BOOLEAN") # Undef
        BY <1>2, <1>3, <1>4, <2>2, ConstantMeaning
      <3>2. l.val \in BOOLEAN /\ r.val \in BOOLEAN /\ l.val # Undef /\ r.val # Undef
        BY <3>1, KindsOfValues, UndefAssumption
      <3>3. d = Meaning(op, "BOOLEAN", l.val, r.val)
        BY <1>2, <1>3, <3>1 DEF Applied
      <3>4. d \in ValuesOf(mean.type)
        <4>1. "BOOLEAN" \notin RealTypes
          BY DEF RealTypes
        <4>. HIDE DEF d
        <4>. QED  BY <3>1, <4>1, FitIsSame DEF ValuesOf
      <3>5. value = d
        <4>1. CASE op = "&"
          <5>1. Meaning(op, "BOOLEAN", l.val, r.val) = (l.val /\ r.val)
            BY <3>2, <4>1, Zenon DEF Meaning, Relations
          <5>. QED  BY <3>3, <4>1, <5>1, Zenon
        <4>2. CASE op = "OR"
          <5>1. Meaning(op, "BOOLEAN", l.val, r.val) = (l.val \/ r.val)
            BY <3>2, <4>2, Zenon DEF Meaning, Relations
          <5>. QED  BY <3>3, <4>2, <5>1, Zenon
        <4>3. CASE op = "="
          <5>1. Meaning(op, "BOOLEAN", l.val, r.val) = ((op = "=") = (l.val = r.val))
            BY <3>2, <4>3, Zenon DEF Meaning, Relations
          <5>. QED  BY <3>3, <4>3, <5>1, Zenon
        <4>4. CASE op = "#"
          <5>1. Meaning(op, "BOOLEAN", l.val, r.val) = ((op = "=") = (l.val = r.val))
            BY <3>2, <4>4, Zenon DEF Meaning, Relations
          <5>2. (op = "=") = FALSE
            BY <4>4
          <5>. QED  BY <3>3, <4>4, <5>1, <5>2, Zenon
        <4>. QED  BY <1>2, <4>1, <4>2, <4>3, <4>4, Zenon
      <3>. QED  BY <3>4, <3>5, Zenon
    <2>. QED  BY <2>1, <2>2, Zenon
  <1>5. \A m \in DOMAIN Memories : mean.at[m].calls = 0
    BY ConstantAt
  <1>. HIDE DEF value
  <1>. QED  BY <1>1, <1>4, <1>5, LiteralIsValued

(* Operations on constant sets *)
LEMMA FoldedSetIsValued ==
    ASSUME NEW op, NEW l, NEW r, NEW typing, NEW mean, Applicable(op, l, r, typing, mean),
           isLiteral(l), isLiteral(r), ~FoldError(op, l, r),
           \/ SetRelation(op, l.type, r.type, typing.common, typing.result)
           \/ SetOperation(op, l.type, r.type, typing.common, typing.result)
           \/ Membership(op, l.type, r.type, typing.common, typing.result),
           NEW t
    PROVE  Valued(Literal(SetOp(op, l.val, r.val), t, mean))
  <1>. DEFINE value == SetOp(op, l.val, r.val)
              type == OperandType(op, l.mean.type, r.mean.type)
  <1>1. ASSUME NEW m \in DOMAIN Memories, mean.at[m].v # Undef
        PROVE  mean.at[m].v \in ValuesOf(mean.type) /\ value = mean.at[m].v
    <2>. DEFINE d == mean.at[m].v
    <2>1. op \notin {"&", "OR"} /\ ~Skipped(op, l.mean.at[m].v)
      BY DEF SetRelation, SetOperation, Membership, Skipped
    <2>2. /\ d = Applied(op, type, l.val, r.val)
          /\ l.val \in ValuesOf(l.mean.type) /\ r.val \in ValuesOf(r.mean.type)
          /\ Fit(d, IF mean.type # "BOOLEAN" THEN Largest(type) ELSE mean.type) # Undef
          /\ typing.result = "BOOLEAN" => mean.type = "BOOLEAN"
          /\ typing.result # "BOOLEAN" /\ type \notin Integers => mean.type = type
      BY <1>1, <2>1, ConstantMeaning
    <2>3. "SET" \in Types \ Numeric /\ "SET" \notin Integers \cup RealTypes /\ "BOOLEAN" \notin RealTypes
      BY DEF Types, Numeric, Integers, RealTypes
    <2>4. CASE \/ SetRelation(op, l.type, r.type, typing.common, typing.result)
               \/ SetOperation(op, l.type, r.type, typing.common, typing.result)
      <3>1. /\ op \in {"+", "-", "*", "/", "=", "#", "<=", ">="} /\ l.type = "SET" /\ r.type = "SET"
            /\ typing.result \in {"SET", "BOOLEAN"}
        BY <2>4 DEF SetRelation, SetOperation
      <3>2. l.mean.type = "SET" /\ r.mean.type = "SET" /\ type = "SET"
        <4>1. l.mean.type = "SET" /\ r.mean.type = "SET"
          BY <2>3, <3>1, PlainOperand
        <4>. QED  BY <2>3, <4>1, TypeOfEquals
      <3>3. l.val \in SUBSET Word /\ r.val \in SUBSET Word
        BY <2>2, <3>2, KindsOfValues
      <3>4. d = SetMeaning(op, l.val, r.val)
        <4>1. l.val # Undef /\ r.val # Undef
          BY <3>3, UndefAssumption
        <4>2. d = Meaning(op, "SET", l.val, r.val)
          BY <2>2, <3>1, <3>2 DEF Applied
        <4>. QED  BY <4>1, <4>2 DEF Meaning
      <3>5. value = d
        <4>1. SetOp(op, l.val, r.val) = SetMeaning(op, l.val, r.val)
          <5>1. IsSetOperator(op)
            BY <3>1 DEF IsSetOperator
          <5>. QED  BY <3>3, <5>1, SetOperations, Zenon
        <4>. QED  BY <3>4, <4>1
      <3>6. Fit(d, mean.type) # Undef /\ mean.type \in {"SET", "BOOLEAN"}
        BY <2>2, <2>3, <3>1, <3>2 DEF Largest
      <3>7. d \in ValuesOf(mean.type)
        <4>. HIDE DEF d
        <4>. QED  BY <2>3, <3>6, FitIsSame DEF ValuesOf
      <3>. QED  BY <3>5, <3>7
    <2>5. CASE Membership(op, l.type, r.type, typing.common, typing.result)
      <3>1. op = "IN" /\ r.type = "SET" /\ typing.result = "BOOLEAN"
        BY <2>5 DEF Membership
      <3>2. l.val \in Word
        BY <3>1 DEF FoldError
      <3>3. r.val \in SUBSET Word
        BY <2>2, <2>3, <3>1, PlainOperand, KindsOfValues
      <3>4. d = Meaning("IN", "IN", l.val, r.val)
        BY <2>2, <3>1 DEF Applied
      <3>5. value = d
        BY <3>1, <3>2, <3>3, <3>4, MembershipOfElement
      <3>6. mean.type = "BOOLEAN" /\ Fit(d, "BOOLEAN") # Undef
        BY <2>2, <3>1
      <3>7. d \in ValuesOf(mean.type)
        <4>. HIDE DEF d
        <4>. QED  BY <2>3, <3>6, FitIsSame DEF ValuesOf
      <3>. QED  BY <3>5, <3>7
    <2>. QED  BY <2>4, <2>5
  <1>2. \A m \in DOMAIN Memories : mean.at[m].calls = 0
    BY ConstantAt
  <1>. HIDE DEF value
  <1>3. Valued(Literal(value, t, mean))
    BY <1>1, <1>2, LiteralIsValued
  <1>. QED  BY <1>3 DEF value

-----------------------------------------------------------------------------
(* Operators that are folded to an operand *)

(* An operand that remains of an expression *)
LEMMA KeptIsValued ==
    ASSUME NEW op, NEW l, NEW r, NEW typing, NEW mean, Applicable(op, l, r, typing, mean),
           ~(isLiteral(l) /\ isLiteral(r)), NEW n \in {l, r},
           NEW k, ~isLiteral(k), k.mean = mean, k.code = n.code, k.type = n.type,
           \A m \in DOMAIN Memories : Fit(mean.at[m].v, mean.type) # Undef =>
               Meant(n, m) /\ n.mean.at[m].v = mean.at[m].v /\ n.mean.at[m].calls = mean.at[m].calls
    PROVE  Valued(k)
  <1>1. ASSUME NEW m \in DOMAIN Memories PROVE ValuedAt(k, m)
    <2>1. mean.at[m].calls \in Nat /\ (mean.at[m].v # Undef => mean.at[m].v \in ValuesOf(mean.type))
      BY MixedMeansValue
    <2>2. ASSUME Fit(mean.at[m].v, mean.type) # Undef
          PROVE  Yields(k.code.at[m], k.type, mean.at[m].v, mean.at[m].calls)
      <3>1. Meant(n, m) /\ n.mean.at[m].v = mean.at[m].v /\ n.mean.at[m].calls = mean.at[m].calls
        BY <2>2
      <3>2. Yields(n.code.at[m], n.type, n.mean.at[m].v, n.mean.at[m].calls)
        BY <3>1, PlainOperand
      <3>. QED  BY <3>1, <3>2
    <2>. QED  BY <2>1, <2>2 DEF ValuedAt
  <1>. QED  BY <1>1 DEF Valued

(* An operand that means a number *)
MeansNumber(n, m) ==
    /\ Meant(n, m) /\ n.mean.at[m].v \in Int /\ n.mean.at[m].calls \in Nat
    /\ isLiteral(n) => n.val = n.mean.at[m].v /\ n.mean.at[m].calls = 0

(* Numbers that have a meaning together have one each. *)
LEMMA MixedNumbers ==
    ASSUME NEW op, NEW l, NEW r, NEW typing, NEW mean, Applicable(op, l, r, typing, mean),
           OfNumbers(op, l.type, r.type, typing.common, typing.result),
           ~(isLiteral(l) /\ isLiteral(r)), NEW m \in DOMAIN Memories, Fit(mean.at[m].v, mean.type) # Undef
    PROVE  /\ mean.at[m].v = Meaning(op, typing.common, l.mean.at[m].v, r.mean.at[m].v) /\ typing.common \in Numeric
           /\ mean.at[m].calls = l.mean.at[m].calls + r.mean.at[m].calls
           /\ MeansNumber(l, m) /\ MeansNumber(r, m)
  <1>. DEFINE c == typing.common
              type == OperandType(op, l.mean.type, r.mean.type)
              a == Given(op, type, l.mean, m)
              b == Given(op, type, r.mean, m)
              e == Meaning(op, type, a, b)
  <1>1. op \notin {"&", "OR", "IN"} /\ {l.type, r.type, type, c} \subseteq Numeric
    BY CommonIncludes
  <1>2. /\ mean.at[m].v = Fit(e, mean.type)
        /\ mean.at[m].calls = l.mean.at[m].calls + r.mean.at[m].calls
    <2>1. ~Skipped(op, a) /\ Applied(op, type, a, b) = e
      BY <1>1 DEF Skipped, Applied
    <2>. HIDE DEF a, b, type, e
    <2>2. /\ mean.at[m].v = Fit(Applied(op, type, a, b), mean.type)
          /\ mean.at[m].calls = l.mean.at[m].calls + r.mean.at[m].calls
      BY <2>1, MixedAt DEF a, b, type
    <2>. QED  BY <2>1, <2>2
  <1>3. e # Undef /\ mean.at[m].v = e
    <2>. HIDE DEF e
    <2>. QED  BY <1>2, FitIsSame
  <1>4. a # Undef /\ b # Undef
    <2>. HIDE DEF a, b, type
    <2>. QED  BY <1>3, MeaningIsDefined
  <1>5. a = l.mean.at[m].v /\ a \in ValuesOf(c) /\ Meant(l, m)
    BY <1>4, NumberOperand
  <1>6. b = r.mean.at[m].v /\ b \in ValuesOf(c) /\ Meant(r, m)
    BY <1>4, NumberOperand
  <1>7. a \in Int /\ b \in Int
    <2>. HIDE DEF a, b, c
    <2>. QED  BY <1>1, <1>5, <1>6, KindsOfValues
  <1>8. e = Meaning(op, c, a, b)
    <2>1. op \in Relations \cup {"+", "-", "*", "/", "DIV", "MOD"}
      BY DEF OfNumbers, Relation, Operation, WholeDivision, Division
    <2>. HIDE DEF a, b, c, type
    <2>. QED  BY <1>1, <1>7, <2>1, MeaningOfAnyNumbers
  <1>9. \A n \in {l, r} : /\ n.mean.at[m].calls \in Nat /\ (isLiteral(n) => n.mean.at[m].calls = 0)
                          /\ n.mean.at[m].v # Undef /\ isLiteral(n) => n.val = n.mean.at[m].v
    BY OperandMeans
  <1>. HIDE DEF a, b, e
  <1>10. MeansNumber(l, m) /\ MeansNumber(r, m)
    BY <1>4, <1>5, <1>6, <1>7, <1>9 DEF MeansNumber
  <1>. QED  BY <1>1, <1>2, <1>3, <1>5, <1>6, <1>8, <1>10

(* A number remains of an operation that does not change it. *)
LEMMA NumberIsKept ==
    ASSUME NEW op, NEW l, NEW r, NEW typing, NEW mean, Applicable(op, l, r, typing, mean),
           OfNumbers(op, l.type, r.type, typing.common, typing.result),
           NEW n \in {l, r}, ~isLiteral(n),
           \/ op = "+" /\ ((n = r /\ IsLiteral(l, 0)) \/ (n = l /\ IsLiteral(r, 0)))
           \/ op = "*" /\ ((n = r /\ IsLiteral(l, 1)) \/ (n = l /\ IsLiteral(r, 1)))
           \/ op = "-" /\ n = l /\ IsLiteral(r, 0)
           \/ op \in {"/", "DIV"} /\ n = l /\ IsLiteral(r, 1),
           NEW k, ~isLiteral(k), k.mean = mean, k.code = n.code, k.type = n.type
    PROVE  Valued(k)
  <1>1. ~(isLiteral(l) /\ isLiteral(r))
    OBVIOUS
  <1>2. ASSUME NEW m \in DOMAIN Memories, Fit(mean.at[m].v, mean.type) # Undef
        PROVE  Meant(n, m) /\ n.mean.at[m].v = mean.at[m].v /\ n.mean.at[m].calls = mean.at[m].calls
    <2>. DEFINE a == l.mean.at[m].v
                b == r.mean.at[m].v
                i == l.mean.at[m].calls
                j == r.mean.at[m].calls
    <2>1. /\ mean.at[m].v = Meaning(op, typing.common, a, b) /\ typing.common \in Numeric
          /\ mean.at[m].calls = i + j
          /\ Meant(l, m) /\ a \in Int /\ i \in Nat /\ (isLiteral(l) => l.val = a /\ i = 0)
          /\ Meant(r, m) /\ b \in Int /\ j \in Nat /\ (isLiteral(r) => r.val = b /\ j = 0)
      <3>1. /\ mean.at[m].v = Meaning(op, typing.common, a, b) /\ typing.common \in Numeric
            /\ mean.at[m].calls = i + j /\ MeansNumber(l, m) /\ MeansNumber(r, m)
        BY <1>1, <1>2, MixedNumbers
      <3>. QED  BY <3>1 DEF MeansNumber
    <2>2. SDiv(a, 1) = a /\ Quotient(a, 1) = a
      <3>1. Abs(a) \div 1 = Abs(a) /\ SDiv(a, 1) = a
        BY <2>1 DEF SDiv, Abs
      <3>. QED  BY <2>1, <3>1 DEF Quotient, SRem
    <2>. HIDE DEF a, b, i, j
    <2>3. CASE n = l /\ isLiteral(r)
      <3>1. (op = "+" /\ b = 0) \/ (op = "*" /\ b = 1) \/ (op = "-" /\ b = 0) \/ (op \in {"/", "DIV"} /\ b = 1)
        BY <2>1, <2>3 DEF IsLiteral
      <3>2. mean.at[m].v = a
        BY <2>1, <2>2, <3>1, MeaningOfNumbers
      <3>. QED  BY <2>1, <2>3, <3>2 DEF a, i
    <2>4. CASE n = r /\ isLiteral(l)
      <3>1. (op = "+" /\ a = 0) \/ (op = "*" /\ a = 1)
        BY <2>1, <2>4 DEF IsLiteral
      <3>2. mean.at[m].v = b
        BY <2>1, <3>1, MeaningOfNumbers
      <3>. QED  BY <2>1, <2>4, <3>2 DEF b, j
    <2>. QED  BY <2>3, <2>4 DEF IsLiteral
  <1>. QED  BY <1>1, <1>2, KeptIsValued

(* A Boolean operand remains of a logical operation that does not change it. *)
LEMMA BooleanIsKept ==
    ASSUME NEW op, NEW l, NEW r, NEW typing, NEW mean, Applicable(op, l, r, typing, mean),
           Logic(op, l.type, r.type, typing.common, typing.result),
           NEW n \in {l, r}, ~isLiteral(n),
           (n = r /\ IsLiteral(l, op = "&")) \/ (n = l /\ IsLiteral(r, op = "&")),
           NEW k, ~isLiteral(k), k.mean = mean, k.code = n.code, k.type = n.type
    PROVE  Valued(k)
  <1>. DEFINE type == OperandType(op, l.mean.type, r.mean.type)
  <1>1. ~(isLiteral(l) /\ isLiteral(r))
    OBVIOUS
  <1>2. op \in {"&", "OR"} /\ l.type = "BOOLEAN" /\ r.type = "BOOLEAN" /\ typing.result = "BOOLEAN"
    BY DEF Logic
  <1>3. l.mean.type = "BOOLEAN" /\ r.mean.type = "BOOLEAN" /\ type = "BOOLEAN" /\ "BOOLEAN" \notin Numeric
        /\ "BOOLEAN" \notin RealTypes
    <2>1. "BOOLEAN" \in Types \ Numeric /\ "BOOLEAN" \notin RealTypes
      BY DEF Types, Numeric, Integers, RealTypes
    <2>2. l.mean.type = "BOOLEAN" /\ r.mean.type = "BOOLEAN"
      BY <1>2, <2>1, PlainOperand
    <2>. QED  BY <2>1, <2>2, TypeOfEquals
  <1>. HIDE DEF type
  <1>4. ASSUME NEW m \in DOMAIN Memories, Fit(mean.at[m].v, mean.type) # Undef
        PROVE  Meant(n, m) /\ n.mean.at[m].v = mean.at[m].v /\ n.mean.at[m].calls = mean.at[m].calls
    <2>. DEFINE a == Given(op, type, l.mean, m)
                b == Given(op, type, r.mean, m)
                i == l.mean.at[m].calls
                j == r.mean.at[m].calls
    <2>1. /\ mean.type = "BOOLEAN"
          /\ Skipped(op, a) => mean.at[m] = l.mean.at[m]
          /\ ~Skipped(op, a) => /\ mean.at[m].v = Fit(Meaning(op, "BOOLEAN", a, b), "BOOLEAN")
                                /\ mean.at[m].calls = i + j
      <3>. HIDE DEF a, b
      <3>1. Applied(op, type, a, b) = Meaning(op, "BOOLEAN", a, b)
        BY <1>2, <1>3 DEF Applied
      <3>. QED  BY <1>1, <1>2, <3>1, MixedAt DEF a, b, type
    <2>2. a = Fit(l.mean.at[m].v, "BOOLEAN") /\ b = Fit(r.mean.at[m].v, "BOOLEAN")
      BY <1>3 DEF Given
    <2>3. i \in Nat /\ (isLiteral(l) => i = 0) /\ j \in Nat /\ (isLiteral(r) => j = 0)
      BY OperandMeans
    <2>4. ASSUME a # Undef PROVE a = l.mean.at[m].v /\ Meant(l, m) /\ a \in BOOLEAN /\ (isLiteral(l) => l.val = a)
      <3>1. a = l.mean.at[m].v /\ a \in Values("BOOLEAN")
        <4>. HIDE DEF a
        <4>. QED  BY <1>3, <2>2, <2>4, FitIsSame
      <3>2. Meant(l, m)
        BY <1>3, <2>2, <2>4 DEF Meant
      <3>3. a \in BOOLEAN
        BY <3>1 DEF Values, Integers
      <3>. QED  BY <2>4, <3>1, <3>2, <3>3, OperandMeans
    <2>5. ASSUME b # Undef PROVE b = r.mean.at[m].v /\ Meant(r, m) /\ b \in BOOLEAN /\ (isLiteral(r) => r.val = b)
      <3>1. b = r.mean.at[m].v /\ b \in Values("BOOLEAN")
        <4>. HIDE DEF b
        <4>. QED  BY <1>3, <2>2, <2>5, FitIsSame
      <3>2. Meant(r, m)
        BY <1>3, <2>2, <2>5 DEF Meant
      <3>3. b \in BOOLEAN
        BY <3>1 DEF Values, Integers
      <3>. QED  BY <2>5, <3>1, <3>2, <3>3, OperandMeans
    <2>. HIDE DEF a, b, i, j
    <2>6. ASSUME ~Skipped(op, a)
          PROVE  /\ a # Undef /\ b # Undef /\ mean.at[m].calls = i + j /\ a = (op = "&")
                 /\ mean.at[m].v = b
      <3>. DEFINE e == Meaning(op, "BOOLEAN", a, b)
      <3>1. mean.at[m].v = e /\ e # Undef
        <4>. HIDE DEF e
        <4>1. mean.at[m].v = Fit(e, "BOOLEAN") /\ mean.type = "BOOLEAN" /\ "BOOLEAN" \notin RealTypes
          BY <1>3, <2>1, <2>6, Zenon DEF e
        <4>2. Fit(Fit(e, "BOOLEAN"), "BOOLEAN") # Undef
          BY <1>4, <4>1, Zenon
        <4>3. Fit(e, "BOOLEAN") # Undef
          BY <4>2, Zenon DEF Fit
        <4>. QED  BY <4>1, <4>3, FitIsSame, Zenon
      <3>2. a # Undef /\ b # Undef
        BY <3>1, MeaningIsDefined
      <3>3. a \in BOOLEAN /\ b \in BOOLEAN
        BY <2>4, <2>5, <3>2, Zenon
      <3>4. a # (op = "OR")
        BY <1>2, <2>6, Zenon DEF Skipped
      <3>5. CASE op = "&"
        <4>1. e = (a /\ b)
          BY <3>2, <3>5, Zenon DEF Meaning, Relations
        <4>2. a = TRUE
          BY <3>3, <3>4, <3>5, Zenon
        <4>3. (op = "&") = TRUE
          BY <3>5
        <4>4. (a /\ b) = b
          BY <3>3, <4>2
        <4>. QED  BY <2>1, <2>6, <3>1, <3>2, <4>1, <4>2, <4>3, <4>4, Zenon
      <3>6. CASE op = "OR"
        <4>1. e = (a \/ b)
          BY <3>2, <3>6, Zenon DEF Meaning, Relations
        <4>2. a = FALSE
          BY <3>3, <3>4, <3>6, Zenon
        <4>3. (op = "&") = FALSE
          BY <3>6
        <4>4. (a \/ b) = b
          BY <3>3, <4>2
        <4>. QED  BY <2>1, <2>6, <3>1, <3>2, <4>1, <4>2, <4>3, <4>4, Zenon
      <3>. QED  BY <1>2, <3>5, <3>6, Zenon
    <2>7. CASE n = r /\ IsLiteral(l, op = "&")
      <3>1. ~Skipped(op, a)
        <4>1. ASSUME Skipped(op, a) PROVE FALSE
          <5>1. a = (op = "OR") /\ a # Undef
            BY <4>1, UndefAssumption, Zenon DEF Skipped
          <5>2. a = (op = "&")
            BY <2>4, <2>7, <5>1, Zenon DEF IsLiteral
          <5>3. CASE op = "&"
            <6>1. (op = "&") = TRUE /\ (op = "OR") = FALSE
              BY <5>3
            <6>. QED  BY <5>1, <5>2, <6>1, Zenon
          <5>4. CASE op = "OR"
            <6>1. (op = "OR") = TRUE /\ (op = "&") = FALSE
              BY <5>4
            <6>. QED  BY <5>1, <5>2, <6>1, Zenon
          <5>. QED  BY <1>2, <5>3, <5>4
        <4>. QED  BY <4>1
      <3>2. b # Undef /\ mean.at[m].v = b /\ mean.at[m].calls = i + j
        BY <2>6, <3>1, Zenon
      <3>3. i = 0
        BY <2>3, <2>7 DEF IsLiteral
      <3>4. i + j = j
        BY <2>3, <3>3
      <3>5. b = r.mean.at[m].v /\ Meant(r, m)
        BY <2>5, <3>2, Zenon
      <3>. QED  BY <2>7, <3>2, <3>4, <3>5, Zenon DEF j
    <2>8. CASE n = l /\ IsLiteral(r, op = "&")
      <3>1. CASE Skipped(op, a)
        <4>1. mean.at[m] = l.mean.at[m]
          BY <2>1, <3>1, Zenon
        <4>. QED  BY <1>3, <1>4, <2>1, <2>8, <4>1, Zenon DEF Meant
      <3>2. CASE ~Skipped(op, a)
        <4>1. a # Undef /\ b # Undef /\ mean.at[m].v = b /\ mean.at[m].calls = i + j /\ a = (op = "&")
          BY <2>6, <3>2, Zenon
        <4>2. b = (op = "&") /\ isLiteral(r)
          BY <2>5, <2>8, <4>1, Zenon DEF IsLiteral
        <4>3. i + j = i
          BY <2>3, <4>2
        <4>4. a = l.mean.at[m].v /\ Meant(l, m)
          BY <2>4, <4>1, Zenon
        <4>5. b = a
          BY <4>1, <4>2, Zenon
        <4>. QED  BY <2>8, <4>1, <4>3, <4>4, <4>5, Zenon DEF i
      <3>. QED  BY <3>1, <3>2, Zenon
    <2>. QED  BY <2>7, <2>8
  <1>. QED  BY <1>1, <1>4, KeptIsValued

(* The code of a unary operator on an operand that is not cast *)
LEMMA UnaryCodeAt ==
    ASSUME NEW op \in {"-", "~"}, NEW n, NEW t \in Types, Operand(n) = n.code,
           n.code = [ll |-> n.code.ll, at |-> n.code.at], n.code.ll = getLLVMType[t], IsTypedUnary(op, t),
           NEW m \in DOMAIN Memories, NEW x, NEW calls, n.code.at[m] = [v |-> x, calls |-> calls], x # Undef
    PROVE  UnaryCode(op, t, n).at[m] = [v |-> UnaryOp(op, t, getLLVMType[t], x), calls |-> calls]
  <1>. DEFINE lls == IF t = "SET" THEN {"i32"}
                     ELSE IF op = "-" /\ t \in RealTypes THEN Floats ELSE Ints \cup {"i1"}
              value(v) == IF v = Undef THEN Undef ELSE UnaryOp(op, t, getLLVMType[t], v)
              at == [i \in DOMAIN Memories |-> [n.code.at[i] EXCEPT !.v = value(@)]]
  <1>1. n.code.ll \in lls
    BY LLVMTypes DEF IsTypedUnary, Floats, Ints, Numeric, Integers, RealTypes
  <1>2. UnaryCode(op, t, n) = [n.code EXCEPT !.at = at]
    BY <1>1 DEF UnaryCode
  <1>3. at[m] = [v |-> value(x), calls |-> calls]
    <2>1. at[m] = [n.code.at[m] EXCEPT !.v = value(@)]
      OBVIOUS
    <2>. HIDE DEF value, at
    <2>. QED  BY <2>1
  <1>4. UnaryCode(op, t, n).at = at
    <2>. HIDE DEF at
    <2>. QED  BY <1>2
  <1>. QED  BY <1>3, <1>4

(* The code of a negation yields a negative number, if it fits. *)
LEMMA NegationYields ==
    ASSUME NEW n, NEW t \in Numeric, Operand(n) = n.code,
           n.code = [ll |-> n.code.ll, at |-> n.code.at], n.code.ll = getLLVMType[t],
           NEW m \in DOMAIN Memories, NEW d \in ValuesOf(t), NEW calls, Yields(n.code.at[m], t, d, calls),
           Fit(-d, t) # Undef
    PROVE  Yields(UnaryCode("-", t, n).at[m], t, -d, calls)
  <1>. DEFINE x == n.code.at[m].v
              ll == getLLVMType[t]
              w == Bits["BYTE"]
              M == 2 ^ w
  <1>1. t \in Types /\ IsTypedUnary("-", t) /\ t # "SET"
    BY DEF Types, IsTypedUnary, Numeric, Integers, RealTypes
  <1>2. Holds(x, t, d) /\ n.code.at[m] = [v |-> x, calls |-> calls]
    BY DEF Yields
  <1>3. x # Undef /\ x \in Int /\ d \in Int /\ -x \in Int /\ -d \in Int
    <2>. HIDE DEF x
    <2>1. x # Undef /\ x \in Int /\ d \in Int
      BY <1>1, <1>2, HeldIsDefined, KindsOfValues
    <2>. QED  BY <2>1
  <1>. HIDE DEF x
  <1>4. ll # "i1"
    BY LLVMTypes DEF Numeric, Integers, RealTypes
  <1>5. UnaryOp("-", t, ll, x) = createNumber(-x, ll)
    BY <1>1, <1>4 DEF UnaryOp
  <1>6. UnaryCode("-", t, n).at[m] = [v |-> UnaryOp("-", t, ll, x), calls |-> calls]
    BY <1>1, <1>2, <1>3, UnaryCodeAt
  <1>7. IF t = "BYTE" THEN -x \in Signed(w) /\ (-x) % M = -d ELSE -x = -d
    <2>1. CASE t = "BYTE"
      <3>1. M \in Nat \ {0} /\ x % M = d
        BY <1>2, <2>1, BitsOfReals, PowerIsPositive DEF Holds
      <3>2. -d \in 0 .. M - 1
        BY <2>1, FitIsSame, KindsOfValues DEF ValuesOf, RealTypes
      <3>3. -x \in Signed(w)
        <4>1. w \in Nat \ {0} /\ x \in Signed(w)
          BY <1>2, <2>1, BitsOfReals DEF Holds
        <4>2. d \in 0 .. M - 1
          BY <2>1, KindsOfValues DEF ValuesOf, RealTypes
        <4>3. 2 ^ (w - 1) \in Nat \ {0} /\ Signed(w) = -(2 ^ (w - 1)) .. 2 ^ (w - 1) - 1
          BY <4>1, SignedRange
        <4>. HIDE DEF w
        <4>4. 0 \in Signed(w)
          <5>. DEFINE H == 2 ^ (w - 1)
          <5>1. H \in Nat \ {0} /\ Signed(w) = -H .. H - 1
            BY <4>3
          <5>. HIDE DEF H
          <5>. QED  BY <5>1
        <4>5. x % M = 0 /\ 0 % M = 0
          <5>. HIDE DEF M
          <5>. QED  BY <1>3, <3>1, <3>2, <4>2
        <4>6. x = 0
          BY <4>1, <4>4, <4>5, SignedAreDistinct DEF M
        <4>. QED  BY <4>4, <4>6
      <3>. HIDE DEF M
      <3>. QED  BY <1>3, <2>1, <3>1, <3>2, <3>3, ModularNegation
    <2>2. CASE t # "BYTE"
      BY <1>2, <2>2 DEF Holds
    <2>. QED  BY <2>1, <2>2
  <1>8. Holds(createNumber(-x, ll), t, -d)
    BY <1>3, <1>7, NumberIsCreated
  <1>. HIDE DEF ll
  <1>. QED  BY <1>5, <1>6, <1>8 DEF Yields

(* Zero minus a number *)
LEMMA FoldedNegationIsValued ==
    ASSUME NEW l, NEW r, NEW typing, NEW mean, Applicable("-", l, r, typing, mean),
           typing.result \in Numeric, IsLiteral(l, 0), ~isLiteral(r)
    PROVE  Valued(Node(typing.result, UnaryCode("-", typing.result, r), mean))
  <1>. DEFINE t == typing.result
              code == UnaryCode("-", t, r)
              k == Node(t, code, mean)
  <1>1. Accepted("-", l, r, typing) /\ mean = BinaryMean("-", l, r, typing) /\ mean.limits = {}
    BY DEF Applicable
  <1>2. r.type = t /\ typing.common = t
    <2>1. WithLiteral(l, r, 0)
      BY DEF WithLiteral
    <2>2. (IF isLiteral(l) THEN r ELSE l).type = t
      BY <1>1, <2>1, OperandRemains
    <2>3. typing.common = t
      BY <1>1, NumberResult
    <2>. QED  BY <2>2, <2>3 DEF IsLiteral
  <1>3. OfNumbers("-", l.type, r.type, typing.common, t)
    BY <1>2, OperatorCases DEF Equality, Logic, SetRelation, SetOperation, Membership, CharRelation, OfNumbers,
                               Relation, Operation, WholeDivision, Division, Numeric, Integers, RealTypes
  <1>4. /\ Operand(r) = r.code /\ r.code.ll = getLLVMType[t] /\ r.code = [ll |-> r.code.ll, at |-> r.code.at]
        /\ \A m \in DOMAIN Memories : Meant(r, m) =>
                /\ r.mean.at[m].v \in ValuesOf(t)
                /\ Yields(r.code.at[m], t, r.mean.at[m].v, r.mean.at[m].calls)
    <2>1. IsNode(r)
      BY <1>1 DEF Accepted, IsExpression, IsTyped
    <2>. HIDE DEF t
    <2>. QED  BY <1>2, <2>1, PlainOperand DEF IsNode
  <1>5. ~isLiteral(k) /\ k.mean = mean /\ k.code = code /\ k.type = t
    BY DEF Node, isLiteral
  <1>6. ASSUME NEW m \in DOMAIN Memories, Fit(mean.at[m].v, mean.type) # Undef
        PROVE  Yields(code.at[m], t, mean.at[m].v, mean.at[m].calls)
    <2>. DEFINE d == r.mean.at[m].v
                i == l.mean.at[m].calls
                j == r.mean.at[m].calls
                v == mean.at[m].v
    <2>1. /\ v = Meaning("-", t, l.mean.at[m].v, d) /\ mean.at[m].calls = i + j
          /\ MeansNumber(l, m) /\ MeansNumber(r, m)
      BY <1>2, <1>3, <1>6, MixedNumbers
    <2>2. l.mean.at[m].v = 0 /\ i = 0 /\ d \in Int /\ j \in Nat /\ Meant(r, m)
      BY <2>1 DEF MeansNumber, IsLiteral
    <2>3. v = -d /\ mean.at[m].calls = j /\ v \in Int
      <3>1. \A a, b \in Int : Meaning("-", t, a, b) = a - b
        BY MeaningOfNumbers
      <3>. HIDE DEF d, j, i, v, t
      <3>2. Meaning("-", t, 0, d) = 0 - d
        BY <2>2, <3>1
      <3>3. v = Meaning("-", t, 0, d)
        BY <2>1, <2>2
      <3>. QED  BY <2>1, <2>2, <3>2, <3>3
    <2>4. d \in ValuesOf(t) /\ Yields(r.code.at[m], t, d, j)
      BY <1>4, <2>2
    <2>5. Fit(v, t) # Undef
      <3>1. Includes(t, mean.type) /\ mean.type \in Types /\ v \in ValuesOf(mean.type)
        <4>1. Includes(t, mean.type)
          BY <1>1, ResultIncludes, BinaryFacts DEF Numeric, Integers, RealTypes
        <4>2. t \in Types /\ v # Undef
          BY <2>3, UndefAssumption DEF Types
        <4>3. v \in ValuesOf(mean.type)
          BY <4>2, MixedMeansValue
        <4>. QED  BY <4>1, <4>2, <4>3, IncludedIsType
      <3>. HIDE DEF v, t
      <3>2. Fit(v, t) = v /\ v # Undef
        BY <1>6, <2>3, <3>1, FitsLarger, UndefAssumption DEF v
      <3>. QED  BY <3>2
    <2>. HIDE DEF d, i, j, v, t, code
    <2>6. Yields(UnaryCode("-", t, r).at[m], t, -d, j)
      BY <1>4, <2>3, <2>4, <2>5, NegationYields DEF t
    <2>. QED  BY <2>3, <2>6 DEF v, code
  <1>. HIDE DEF t, code, k
  <1>7. ASSUME NEW m \in DOMAIN Memories PROVE ValuedAt(k, m)
    <2>1. mean.at[m].calls \in Nat /\ (mean.at[m].v # Undef => mean.at[m].v \in ValuesOf(mean.type))
      BY MixedMeansValue DEF IsLiteral
    <2>. QED  BY <1>5, <1>6, <2>1 DEF ValuedAt
  <1>8. Valued(k)
    BY <1>5, <1>7 DEF Valued
  <1>. QED  BY <1>8 DEF k, t, code

(* An operand that is kept, with another meaning *)
LEMMA KeptParts ==
    ASSUME NEW op, NEW l, NEW r, NEW typing, NEW mean, Applicable(op, l, r, typing, mean), NEW n \in {l, r},
           NEW k, k = Kept(n, mean)
    PROVE  k.mean = mean /\ k.code = n.code /\ k.type = n.type /\ (isLiteral(k) <=> isLiteral(n))
  <1>1. IsNode(n)
    BY DEF Applicable, Accepted, IsExpression, IsTyped
  <1>. QED  BY <1>1, KeptNode

(* An operator whose result is a number *)
LEMMA NumberOperator ==
    ASSUME NEW op, NEW l, NEW r, NEW typing, NEW mean, Applicable(op, l, r, typing, mean), typing.result \in Numeric
    PROVE  /\ OfNumbers(op, l.type, r.type, typing.common, typing.result) /\ typing.common = typing.result
           /\ Accepted(op, l, r, typing) /\ mean = BinaryMean(op, l, r, typing)
           /\ OnNumbers(op, l, r) /\ Departures(op, l, r, typing.common) = {}
  <1>1. Accepted(op, l, r, typing) /\ mean = BinaryMean(op, l, r, typing) /\ mean.limits = {}
    BY DEF Applicable
  <1>2. Departures(op, l, r, typing.common) = {}
    BY <1>1, BinaryFacts
  <1>3. typing.common = typing.result /\ OnNumbers(op, l, r)
    BY <1>1, NumberResult
  <1>4. OfNumbers(op, l.type, r.type, typing.common, typing.result)
    BY OperatorCases DEF Equality, Logic, SetRelation, SetOperation, Membership, CharRelation, OfNumbers,
                         Relation, Operation, WholeDivision, Division, Numeric, Integers, RealTypes
  <1>. QED  BY <1>1, <1>2, <1>3, <1>4

(* Sums and products that are folded *)
LEMMA FoldedSumIsValued ==
    ASSUME NEW op \in {"+", "*"}, NEW l, NEW r, NEW typing, NEW mean, Applicable(op, l, r, typing, mean),
           typing.result \in Integers \cup RealTypes, NEW neutral, NEW zeros,
           neutral = (IF op = "+" THEN 0 ELSE 1), \A zero \in zeros : op = "*" /\ zero = 0,
           NEW k \in foldBinaryOp(op, l, r, neutral, zeros, typing.result, mean)
    PROVE  Valued(k)
  <1>. DEFINE result == typing.result
  <1>1. /\ OfNumbers(op, l.type, r.type, typing.common, typing.result)
        /\ OnNumbers(op, l, r) /\ Departures(op, l, r, typing.common) = {}
    BY NumberOperator DEF Numeric
  <1>2. CASE isLiteral(l) /\ isLiteral(r)
    <2>. DEFINE value == IF Undef \in {l.val, r.val} THEN Undef
                         ELSE CASE op = "+" -> l.val + r.val [] op = "-" -> l.val - r.val [] op = "*" -> l.val * r.val
                first == CASE Undef \in {l.val, r.val} -> Undef
                           [] OTHER -> IF op = "+" THEN l.val + r.val ELSE l.val * r.val
    <2>1. k = NewNumber(first, result, mean)
      <3>. HIDE DEF result
      <3>. QED  BY <1>2 DEF foldBinaryOp, result
    <2>2. first = value
      OBVIOUS
    <2>. HIDE DEF value, first
    <2>3. Valued(NewNumber(value, typing.result, mean))
      BY <1>2, FoldedNumberIsValued DEF value
    <2>. QED  BY <2>1, <2>2, <2>3
  <1>3. CASE ~(isLiteral(l) /\ isLiteral(r)) /\ (IsLiteral(l, neutral) \/ IsLiteral(r, neutral))
    <2>. DEFINE n == IF isLiteral(l) THEN r ELSE l
    <2>1. /\ n \in {l, r} /\ ~isLiteral(n)
          /\ (n = r /\ IsLiteral(l, neutral)) \/ (n = l /\ IsLiteral(r, neutral))
      <3>1. CASE isLiteral(l)
        BY <1>3, <3>1 DEF IsLiteral
      <3>2. CASE ~isLiteral(l)
        BY <1>3, <3>2 DEF IsLiteral
      <3>. QED  BY <3>1, <3>2
    <2>2. k = Kept(n, mean)
      BY <1>3 DEF Kept, foldBinaryOp, IsLiteral
    <2>. HIDE DEF n
    <2>3. k.mean = mean /\ k.code = n.code /\ k.type = n.type /\ ~isLiteral(k)
      BY <2>1, <2>2, KeptParts
    <2>4. \/ op = "+" /\ ((n = r /\ IsLiteral(l, 0)) \/ (n = l /\ IsLiteral(r, 0)))
          \/ op = "*" /\ ((n = r /\ IsLiteral(l, 1)) \/ (n = l /\ IsLiteral(r, 1)))
      BY <2>1
    <2>. QED  BY <1>1, <2>1, <2>3, <2>4, NumberIsKept
  <1>4. CASE ~(isLiteral(l) /\ isLiteral(r)) /\ ~(IsLiteral(l, neutral) \/ IsLiteral(r, neutral))
    <2>1. \E zero \in zeros : IsLiteral(l, zero) \/ IsLiteral(r, zero)
      BY <1>4 DEF foldBinaryOp
    <2>2. op = "*" /\ WithLiteral(l, r, 0)
      BY <1>4, <2>1 DEF WithLiteral, IsLiteral
    <2>. QED  BY <1>1, <2>2, NoDepartures
  <1>. QED  BY <1>2, <1>3, <1>4

(* Differences that are folded *)
LEMMA FoldedDifferenceIsValued ==
    ASSUME NEW l, NEW r, NEW typing, NEW mean, Applicable("-", l, r, typing, mean),
           typing.result \in Integers \cup RealTypes, NEW k \in foldSubOp(l, r, typing.result, mean)
    PROVE  Valued(k)
  <1>. DEFINE result == typing.result
  <1>1. OfNumbers("-", l.type, r.type, typing.common, typing.result) /\ result \in Numeric
    BY NumberOperator DEF Numeric
  <1>2. CASE isLiteral(l) /\ isLiteral(r)
    <2>. DEFINE value == IF Undef \in {l.val, r.val} THEN Undef ELSE l.val - r.val
    <2>1. k = NewNumber(value, result, mean)
      <3>. HIDE DEF result
      <3>. QED  BY <1>2 DEF foldSubOp, result
    <2>2. Valued(NewNumber(value, typing.result, mean))
      BY <1>2, FoldedNumberIsValued
    <2>. HIDE DEF value
    <2>. QED  BY <2>1, <2>2
  <1>3. CASE ~(isLiteral(l) /\ isLiteral(r)) /\ IsLiteral(l, 0)
    <2>1. ~isLiteral(r) /\ k = Node(result, UnaryCode("-", result, r), mean)
      BY <1>3 DEF foldSubOp, IsLiteral
    <2>. QED  BY <1>1, <1>3, <2>1, FoldedNegationIsValued
  <1>4. CASE ~(isLiteral(l) /\ isLiteral(r)) /\ ~IsLiteral(l, 0)
    <2>1. IsLiteral(r, 0) /\ k = Kept(l, mean) /\ ~isLiteral(l)
      BY <1>4 DEF Kept, foldSubOp, IsLiteral
    <2>2. k.mean = mean /\ k.code = l.code /\ k.type = l.type /\ ~isLiteral(k)
      BY <2>1, KeptParts
    <2>. QED  BY <1>1, <2>1, <2>2, NumberIsKept
  <1>. QED  BY <1>2, <1>3, <1>4

(* Quotients and remainders that are folded *)
LEMMA FoldedDivModIsValued ==
    ASSUME NEW op \in {"DIV", "MOD"}, NEW l, NEW r, NEW typing, NEW mean, Applicable(op, l, r, typing, mean),
           typing.result \in Integers, ~FoldError(op, l, r), NEW k \in foldDivModOp(op, l, r, typing.result, mean)
    PROVE  Valued(k)
  <1>1. isLiteral(r)
    BY DEF foldDivModOp
  <1>2. OfNumbers(op, l.type, r.type, typing.common, typing.result) /\ Departures(op, l, r, typing.common) = {}
    BY NumberOperator DEF Numeric
  <1>3. CASE isLiteral(l)
    <2>. DEFINE val == IF r.val = 1 THEN l.val ELSE IF op = "DIV" THEN floor_div(l.val, r.val)
                       ELSE euclidean_mod(l.val, r.val)
    <2>1. k = Literal(val, typing.result, mean)
      BY <1>1, <1>3 DEF foldDivModOp
    <2>2. Valued(Literal(val, typing.result, mean))
      BY <1>1, <1>3, FoldedQuotientIsValued
    <2>. HIDE DEF val
    <2>. QED  BY <2>1, <2>2
  <1>4. CASE ~isLiteral(l)
    <2>1. IsLiteral(r, 1) /\ k = Kept(l, mean)
      BY <1>1, <1>4 DEF Kept, foldDivModOp, IsLiteral
    <2>2. op = "DIV"
      BY <1>2, <2>1, NoDepartures
    <2>3. k.mean = mean /\ k.code = l.code /\ k.type = l.type /\ ~isLiteral(k)
      BY <1>4, <2>1, KeptParts
    <2>. QED  BY <1>2, <1>4, <2>1, <2>2, <2>3, NumberIsKept
  <1>. QED  BY <1>3, <1>4

(* Quotients of real numbers that are folded *)
LEMMA FoldedFDivIsValued ==
    ASSUME NEW l, NEW r, NEW typing, NEW mean, Applicable("/", l, r, typing, mean),
           typing.result \in RealTypes, NEW k \in foldFDivOp(l, r, typing.result, mean)
    PROVE  Valued(k)
  <1>. DEFINE result == typing.result
  <1>1. isLiteral(r)
    BY DEF foldFDivOp
  <1>2. OfNumbers("/", l.type, r.type, typing.common, typing.result)
    BY NumberOperator DEF Numeric
  <1>3. CASE isLiteral(l)
    <2>. DEFINE val == IF Undef \in {l.val, r.val} THEN Undef ELSE Double(Quotient(l.val, r.val))
    <2>1. k = Literal(val, typing.result, mean)
      BY <1>1, <1>3 DEF foldFDivOp
    <2>2. Valued(Literal(val, typing.result, mean))
      BY <1>1, <1>3, FoldedRatioIsValued
    <2>. HIDE DEF val
    <2>. QED  BY <2>1, <2>2
  <1>4. CASE ~isLiteral(l)
    <2>. DEFINE new == [l EXCEPT !.cast = result]
    <2>1. IsLiteral(r, 1) /\ k = [l EXCEPT !.cast = result, !.mean = mean]
      BY <1>1, <1>4 DEF foldFDivOp, IsLiteral
    <2>2. IsNode(l)
      BY DEF Applicable, Accepted, IsExpression, IsTyped
    <2>3. IsNode(new) /\ ~isLiteral(new) /\ new.type = l.type /\ new.code = l.code
      <3>. HIDE DEF result
      <3>. QED  BY <1>4, <2>2, CastNode
    <2>4. k = Kept(new, mean)
      BY <2>1, Zenon DEF Kept
    <2>. HIDE DEF new
    <2>5. k.mean = mean /\ k.code = l.code /\ k.type = l.type /\ ~isLiteral(k)
      BY <2>3, <2>4, KeptNode
    <2>. QED  BY <1>2, <1>4, <2>1, <2>5, NumberIsKept
  <1>. QED  BY <1>3, <1>4

(* Logic and equality that are folded *)
LEMMA FoldedLogicIsValued ==
    ASSUME NEW op, NEW l, NEW r, NEW typing, NEW mean, Applicable(op, l, r, typing, mean),
           OfBooleans(op, l.type, r.type, typing.common, typing.result), NEW k \in foldBooleanOp(op, l, r, mean)
    PROVE  Valued(k)
  <1>1. \/ Equality(op, l.type, r.type, typing.common, typing.result)
        \/ Logic(op, l.type, r.type, typing.common, typing.result)
    BY DEF OfBooleans
  <1>2. CASE isLiteral(l) /\ isLiteral(r)
    BY <1>1, <1>2, FoldedBooleanIsValued
  <1>3. CASE ~(isLiteral(l) /\ isLiteral(r))
    <2>1. Logic(op, l.type, r.type, typing.common, typing.result)
      <3>1. ~Equality(op, l.type, r.type, typing.common, typing.result)
        BY <1>3, OperatorCases DEF Equality, Logic, SetRelation, SetOperation, Membership, CharRelation, OfNumbers,
                                   Relation, Operation, WholeDivision, Division, Relations, Numeric, Integers, RealTypes
      <3>. QED  BY <1>1, <3>1
    <2>. DEFINE neutral == op = "&"
    <2>2. \E n \in {l, r} : /\ ~isLiteral(n) /\ k = Kept(n, mean)
                            /\ (n = r /\ IsLiteral(l, neutral)) \/ (n = l /\ IsLiteral(r, neutral))
      BY <1>3, Zenon DEF Kept, foldBooleanOp, IsLiteral
    <2>3. PICK n \in {l, r} : /\ ~isLiteral(n) /\ k = Kept(n, mean)
                              /\ (n = r /\ IsLiteral(l, neutral)) \/ (n = l /\ IsLiteral(r, neutral))
      BY <2>2
    <2>4. k.mean = mean /\ k.code = n.code /\ k.type = n.type /\ ~isLiteral(k)
      BY <2>3, KeptParts
    <2>. QED  BY <2>1, <2>3, <2>4, BooleanIsKept
  <1>. QED  BY <1>2, <1>3

(* A node that an operator is folded to *)
LEMMA FoldIsValued ==
    ASSUME NEW op, NEW l, NEW r, NEW typing, NEW mean, Applicable(op, l, r, typing, mean), ~FoldError(op, l, r),
           NEW k \in fold(op, l, r, typing.result, mean)
    PROVE  Valued(k)
  <1>. DEFINE s == l.type  t == r.type  c == typing.common  result == typing.result
  <1>1. CASE OfBooleans(op, s, t, c, result)
    <2>1. {s, t} = {"BOOLEAN"} /\ "SET" \notin {s, t} /\ result \notin Numeric
      BY <1>1 DEF OfBooleans, Equality, Logic, Numeric, Integers, RealTypes
    <2>2. k \in foldBooleanOp(op, l, r, mean)
      BY <2>1 DEF fold, Numeric
    <2>. QED  BY <1>1, <2>2, FoldedLogicIsValued
  <1>2. CASE OfSets(op, s, t, c, result)
    <2>1. {s, t} # {"BOOLEAN"} /\ "SET" \in {s, t} /\ result \notin Numeric
      BY <1>2 DEF OfSets, SetRelation, SetOperation, Membership, Numeric, Integers, RealTypes
    <2>2. k \in foldSetOp(op, l, r, result, mean)
      BY <2>1 DEF fold, Numeric
    <2>3. isLiteral(l) /\ isLiteral(r) /\ k = Literal(SetOp(op, l.val, r.val), result, mean)
      BY <2>2 DEF foldSetOp
    <2>. QED  BY <1>2, <2>3, FoldedSetIsValued DEF OfSets
  <1>3. CASE CharRelation(op, s, t, c, result) \/ Relation(op, s, t, c, result)
    <2>1. {s, t} # {"BOOLEAN"} /\ "SET" \notin {s, t} /\ result = "BOOLEAN" /\ op \in Relations
      BY <1>3 DEF CharRelation, Relation, Numeric, Integers, RealTypes
    <2>2. result \notin Numeric
      BY <2>1 DEF Numeric, Integers, RealTypes
    <2>3. k \in foldRelationOp(op, l, r, mean)
      BY <2>1, <2>2 DEF fold, Numeric
    <2>4. isLiteral(l) /\ isLiteral(r)
      BY <2>3 DEF foldRelationOp
    <2>. QED  BY <1>3, <2>1, <2>3, <2>4, FoldedRelationIsValued
  <1>4. CASE Operation(op, s, t, c, result) \/ WholeDivision(op, s, t, c, result) \/ Division(op, s, t, c, result)
    <2>1. s \in Numeric /\ t \in Numeric /\ (result = Larger(s, t) \/ result = "REAL")
      BY <1>4 DEF Operation, WholeDivision, Division, Numeric
    <2>2. result \in Numeric
      BY <2>1, CommonIsLarger DEF Numeric, RealTypes
    <2>3. /\ "SET" \notin {s, t} /\ op \notin Relations /\ {s, t} # {"BOOLEAN"}
          /\ op \in {"DIV", "MOD"} \/ op = "/" \/ op \in {"+", "-", "*"}
          /\ op = "/" => result \notin Integers
      <3>1. Accepted(op, l, r, typing)
        BY DEF Applicable
      <3>. QED  BY <2>2, <3>1, NumberResult DEF OnNumbers
    <2>4. CASE op = "+"
      <3>1. k \in foldBinaryOp("+", l, r, 0, {}, result, mean) /\ result \in Integers \cup RealTypes
        BY <2>3, <2>4 DEF fold
      <3>. QED  BY <2>4, <3>1, FoldedSumIsValued
    <2>5. CASE op = "*"
      <3>1. k \in foldBinaryOp("*", l, r, 1, {0}, result, mean) /\ result \in Integers \cup RealTypes
        BY <2>3, <2>5 DEF fold
      <3>. QED  BY <2>5, <3>1, FoldedSumIsValued
    <2>6. CASE op = "-"
      <3>1. k \in foldSubOp(l, r, result, mean) /\ result \in Integers \cup RealTypes
        BY <2>3, <2>6 DEF fold
      <3>. QED  BY <2>6, <3>1, FoldedDifferenceIsValued
    <2>7. CASE op \in {"DIV", "MOD"}
      <3>1. k \in foldDivModOp(op, l, r, result, mean) /\ result \in Integers
        BY <2>3, <2>7 DEF fold
      <3>. QED  BY <2>7, <3>1, FoldedDivModIsValued
    <2>8. CASE op = "/"
      <3>1. k \in foldFDivOp(l, r, result, mean) /\ result \in RealTypes
        BY <2>3, <2>8 DEF fold
      <3>. QED  BY <2>8, <3>1, FoldedFDivIsValued
    <2>. QED  BY <2>3, <2>4, <2>5, <2>6, <2>7, <2>8
  <1>5. l.type \in Types /\ r.type \in Types /\ typing = Typing(op, l.type, r.type) /\ typing.result # None
    BY DEF Applicable, Accepted, IsExpression, IsTyped, IsNode
  <1>6. \/ OfBooleans(op, s, t, c, result) \/ OfSets(op, s, t, c, result)
        \/ OfNumbers(op, s, t, c, result) \/ CharRelation(op, s, t, c, result)
    BY <1>5, TypingCases
  <1>. QED  BY <1>1, <1>2, <1>3, <1>4, <1>6 DEF OfNumbers

(* A node of an operator that is not folded *)
LEMMA InstructionIsValued ==
    ASSUME NEW op, NEW l, NEW r, NEW typing, NEW mean, Applicable(op, l, r, typing, mean),
           fold(op, l, r, typing.result, mean) = {}
    PROVE  Valued(Node(typing.result, BinaryCode(op, CastTo(typing.common, l), CastTo(typing.common, r)), mean))
  <1>. DEFINE code == BinaryCode(op, CastTo(typing.common, l), CastTo(typing.common, r))
              k == Node(typing.result, code, mean)
  <1>1. ~(isLiteral(l) /\ isLiteral(r))
    <2>1. Accepted(op, l, r, typing)
      BY DEF Applicable
    <2>. QED  BY <2>1, ConstantsAreFolded
  <1>2. ~isLiteral(k) /\ k.mean = mean /\ k.code = code /\ k.type = typing.result
    BY DEF Node, isLiteral
  <1>3. ASSUME NEW m \in DOMAIN Memories PROVE ValuedAt(k, m)
    <2>1. mean.at[m].calls \in Nat /\ (mean.at[m].v # Undef => mean.at[m].v \in ValuesOf(mean.type))
      BY <1>1, MixedMeansValue
    <2>2. Fit(mean.at[m].v, mean.type) # Undef => Yields(code.at[m], typing.result, mean.at[m].v, mean.at[m].calls)
      BY <1>1, InstructionYields
    <2>. HIDE DEF k, code
    <2>. QED  BY <1>2, <2>1, <2>2 DEF ValuedAt
  <1>. HIDE DEF k
  <1>4. Valued(k)
    BY <1>2, <1>3 DEF Valued
  <1>. QED  BY <1>4 DEF k

-----------------------------------------------------------------------------
(* Unary expressions *)

(* What a unary operator means *)
Negated(op, type, v) ==
    IF v = Undef THEN Undef ELSE IF op = "~" THEN ~v ELSE IF type = "SET" THEN Word \ v ELSE -v

(* What a unary expression means in a memory *)
LEMMA UnaryAt ==
    ASSUME NEW op \in {"-", "~"}, NEW n, NEW mean, mean = UnaryMean(op, n), mean.limits = {}, NEW m \in DOMAIN Memories,
           NEW e, e = Negated(op, n.mean.type, n.mean.at[m].v)
    PROVE  /\ mean.at[m].calls = n.mean.at[m].calls
           /\ mean.at[m].v = IF n.mean.const THEN e ELSE Fit(e, n.mean.type)
  <1>. DEFINE x == n.mean
              typed == IF op = "~" THEN x.type = "BOOLEAN" ELSE x.type \in Numeric \cup {"SET"}
              value(v) == IF v = Undef \/ ~typed THEN Undef
                          ELSE IF op = "~" THEN ~v ELSE IF x.type = "SET" THEN Word \ v ELSE -v
              at == [i \in DOMAIN Memories |-> [v |-> LET v == value(x.at[i].v)
                                               IN  IF x.const \/ ~typed THEN v ELSE Fit(v, x.type),
                                                calls |-> x.at[i].calls]]
  <1>1. typed
    BY UnaryLimits DEF IsTypedUnary
  <1>2. mean.at = at
    BY Zenon DEF UnaryMean, Mean
  <1>3. value(x.at[m].v) = e
    BY <1>1, Zenon DEF Negated
  <1>. HIDE DEF value, typed
  <1>4. at[m].v = (IF x.const THEN e ELSE Fit(e, x.type)) /\ at[m].calls = x.at[m].calls
    BY <1>1, <1>3
  <1>. HIDE DEF at
  <1>. QED  BY <1>2, <1>4

(* A constant that a unary operator is folded to *)
LEMMA UnaryFoldedIsValued ==
    ASSUME NEW op \in {"-", "~"}, NEW n, IsExpression(n), Valued(n), ~FoldUnaryError(op, n),
           NEW mean, mean = UnaryMean(op, n), mean.limits = {}, NEW k \in foldUnary(op, n, mean)
    PROVE  Valued(k)
  <1>1. isLiteral(n) /\ n.cast = None /\ n.type \in Types \ {"BYTE"} /\ IsNode(n)
    BY DEF foldUnary, IsExpression, IsTyped, IsNode
  <1>2. /\ n.mean.limits = {} /\ IsTypedUnary(op, n.mean.type) /\ Includes(n.type, n.mean.type)
        /\ Folded(n) /\ n.mean.const
    <2>1. n.mean.limits = {} /\ IsTypedUnary(op, n.mean.type)
      BY UnaryLimits
    <2>2. Includes(n.type, n.mean.type) /\ Folded(n)
      BY <2>1 DEF IsExpression, IsTyped
    <2>. QED  BY <1>1, <2>1, <2>2 DEF Folded
  <1>3. ASSUME NEW m \in DOMAIN Memories
        PROVE  /\ mean.at[m].calls = 0 /\ mean.at[m].v = Negated(op, n.mean.type, n.mean.at[m].v)
               /\ n.mean.at[m].v # Undef => n.val = n.mean.at[m].v /\ n.val \in ValuesOf(n.mean.type)
    <2>1. mean.at[m].calls = n.mean.at[m].calls /\ mean.at[m].v = Negated(op, n.mean.type, n.mean.at[m].v)
      BY <1>2, UnaryAt
    <2>2. ValuedAt(n, m)
      BY DEF Valued
    <2>. QED  BY <1>1, <2>1, <2>2 DEF ValuedAt
  <1>4. \A val, t : [Literal(val, t, mean) EXCEPT !.cast = n.cast] = Literal(val, t, mean)
    BY <1>1 DEF Literal
  <1>5. CASE n.type \in Integers
    <2>. DEFINE a == n.val
    <2>1. op = "-"
      BY <1>1, <1>5 DEF FoldUnaryError
    <2>2. n.mean.type \in Integers /\ a \in Values(n.type) /\ \A m \in DOMAIN Memories : n.mean.at[m].v = a
      BY <1>1, <1>2, <1>5 DEF Folded
    <2>3. a \in Int
      BY <1>5, <2>2, IntegerValues
    <2>. HIDE DEF a
    <2>4. /\ mean.type = intType(-a) /\ -a \in Values("LONGINT")
          /\ \A m \in DOMAIN Memories : mean.at[m].v = -a
      BY <1>2, <2>1, <2>2, <2>3, UnaryConstant
    <2>5. Int64(-a) = -a /\ -a \in Values(intType(-a)) /\ intType(-a) \in Integers
      BY <2>3, <2>4, Int64Fits, SmallestIsIntType
    <2>6. k = Literal(-a, intType(-a), mean)
      <3>1. k = [NewInteger(-a, mean) EXCEPT !.cast = n.cast]
        BY <1>1, <1>5 DEF foldUnary, Integers, RealTypes, a
      <3>2. NewInteger(-a, mean) = Literal(-a, intType(-a), mean)
        BY <2>5 DEF NewInteger
      <3>. QED  BY <1>4, <3>1, <3>2
    <2>7. -a \in ValuesOf(mean.type)
      BY <2>4, <2>5 DEF ValuesOf, Integers, RealTypes
    <2>. DEFINE b == -a
                t == intType(b)
    <2>. HIDE DEF b, t
    <2>8. k = Literal(b, t, mean)
      BY <2>6 DEF b, t
    <2>. QED  BY <1>3, <2>4, <2>7, <2>8, LiteralIsValued DEF b
  <1>6. CASE n.type = "BOOLEAN"
    <2>. DEFINE b == ~n.val
    <2>1. op = "~"
      BY <1>1, <1>6 DEF FoldUnaryError
    <2>2. k = Literal(b, "BOOLEAN", mean)
      <3>1. k = [Literal(~n.val, "BOOLEAN", mean) EXCEPT !.cast = n.cast]
        BY <1>1, <1>6, Zenon DEF foldUnary, Integers, RealTypes
      <3>. QED  BY <1>4, <3>1, Zenon
    <2>3. n.mean.type = "BOOLEAN" /\ mean.type = "BOOLEAN"
      <3>1. n.mean.type = "BOOLEAN"
        BY <1>2, <2>1 DEF IsTypedUnary
      <3>. QED  BY <3>1, UnaryType DEF Integers
    <2>4. ASSUME NEW m \in DOMAIN Memories, mean.at[m].v # Undef
          PROVE  mean.at[m].v \in ValuesOf(mean.type) /\ b = mean.at[m].v
      <3>1. n.mean.at[m].v # Undef /\ mean.at[m].v = ~n.mean.at[m].v
        BY <1>3, <2>1, <2>4, Zenon DEF Negated
      <3>2. n.val = n.mean.at[m].v /\ n.val \in BOOLEAN
        BY <1>3, <2>3, <3>1, KindsOfValues, Zenon
      <3>3. (~n.val) \in BOOLEAN
        OBVIOUS
      <3>. QED  BY <2>3, <3>1, <3>2, <3>3, KindsOfValues, Zenon
    <2>. HIDE DEF b
    <2>. QED  BY <1>3, <2>2, <2>4, LiteralIsValued
  <1>7. CASE n.type = "SET"
    <2>. DEFINE b == Word \ n.val
    <2>1. op = "-"
      BY <1>1, <1>7 DEF FoldUnaryError
    <2>2. k = Literal(b, "SET", mean)
      <3>1. k = [Literal(Word \ n.val, "SET", mean) EXCEPT !.cast = n.cast]
        BY <1>1, <1>7 DEF foldUnary, Integers, RealTypes
      <3>. QED  BY <1>4, <3>1, Zenon
    <2>3. n.mean.type = "SET" /\ mean.type = "SET"
      <3>1. n.mean.type = "SET"
        BY <1>2, <1>7 DEF Includes, Numeric, Integers, RealTypes
      <3>. QED  BY <3>1, UnaryType DEF Integers
    <2>4. ASSUME NEW m \in DOMAIN Memories, mean.at[m].v # Undef
          PROVE  mean.at[m].v \in ValuesOf(mean.type) /\ b = mean.at[m].v
      <3>1. n.mean.at[m].v # Undef /\ mean.at[m].v = Word \ n.mean.at[m].v
        BY <1>3, <2>1, <2>3, <2>4 DEF Negated
      <3>2. n.val = n.mean.at[m].v
        BY <1>3, <3>1
      <3>3. b \in SUBSET Word
        OBVIOUS
      <3>. QED  BY <2>3, <3>1, <3>2, <3>3, KindsOfValues
    <2>. HIDE DEF b
    <2>. QED  BY <1>3, <2>2, <2>4, LiteralIsValued
  <1>8. CASE n.type \in RealTypes
    <2>. DEFINE b == IF n.val = Undef THEN Undef ELSE -n.val
    <2>1. op = "-" /\ n.type \notin Integers /\ n.type # "BOOLEAN" /\ n.type # "SET"
      BY <1>1, <1>8 DEF FoldUnaryError, RealTypes, Integers
    <2>2. k = Literal(b, n.type, mean)
      <3>1. k = [Literal(b, n.type, mean) EXCEPT !.cast = n.cast]
        <4>. HIDE DEF b
        <4>. QED  BY <1>1, <1>8, <2>1 DEF foldUnary, b
      <3>. QED  BY <1>4, <3>1, Zenon
    <2>3. n.mean.type \in RealTypes /\ mean.type = n.mean.type
      <3>1. n.mean.type \in RealTypes
        BY <1>2, <1>8 DEF Includes
      <3>. QED  BY <3>1, UnaryType DEF Integers, RealTypes
    <2>4. ASSUME NEW m \in DOMAIN Memories, mean.at[m].v # Undef
          PROVE  mean.at[m].v \in ValuesOf(mean.type) /\ b = mean.at[m].v
      <3>. DEFINE x == n.mean.at[m].v
      <3>1. x # Undef /\ mean.at[m].v = -x
        BY <1>3, <2>1, <2>3, <2>4 DEF Negated, RealTypes
      <3>2. n.val = x /\ x \in Int
        BY <1>3, <2>3, <3>1, KindsOfValues
      <3>3. b = -x /\ -x \in Int
        <4>. HIDE DEF x
        <4>. QED  BY <3>1, <3>2
      <3>. HIDE DEF x, b
      <3>. QED  BY <2>3, <3>1, <3>3, KindsOfValues
    <2>. HIDE DEF b
    <2>. QED  BY <1>3, <2>2, <2>4, LiteralIsValued
  <1>9. n.type # "CHAR"
    BY <1>5, <1>8 DEF foldUnary, Integers, RealTypes
  <1>. QED  BY <1>1, <1>5, <1>6, <1>7, <1>8, <1>9 DEF Types, Numeric

(* The code of a unary operator yields what it means. *)
LEMMA UnaryYields ==
    ASSUME NEW op \in {"-", "~"}, NEW n, IsExpression(n), Valued(n),
           NEW mean, mean = UnaryMean(op, n), mean.limits = {}, ~isLiteral(n),
           NEW m \in DOMAIN Memories, mean.at[m].v # Undef
    PROVE  /\ mean.at[m].v \in ValuesOf(mean.type)
           /\ Fit(mean.at[m].v, mean.type) # Undef =>
                Yields(UnaryCode(op, n.type, n).at[m], n.type, mean.at[m].v, mean.at[m].calls)
  <1>. DEFINE d == n.mean.at[m].v
              calls == n.mean.at[m].calls
              u == n.mean.type
              t == n.type
              e == Negated(op, u, d)
              v == mean.at[m].v
              code == UnaryCode(op, t, n)
  <1>1. /\ n.mean.limits = {} /\ IsTypedUnary(op, u) /\ Includes(t, u) /\ t \in Types /\ u \in Types
        /\ ~n.mean.const /\ mean.type = u /\ IsTyped(n)
        /\ n.code = [ll |-> n.code.ll, at |-> n.code.at] /\ n.code.ll = getLLVMType[t] /\ Operand(n) = n.code
    <2>1. n.mean.limits = {} /\ IsTypedUnary(op, u)
      BY UnaryLimits
    <2>2. /\ Includes(t, u) /\ Folded(n) /\ t \in Types /\ IsTyped(n) /\ n.cast \in {None, n.type}
          /\ n.code = [ll |-> n.code.ll, at |-> n.code.at] /\ n.code.ll = getLLVMType[t]
      BY <2>1 DEF IsExpression, IsTyped, IsNode
    <2>3. ~n.mean.const
      BY <2>2 DEF Folded
    <2>4. mean.type = u
      BY <2>3, UnaryType
    <2>5. u \in Types /\ Operand(n) = n.code
      BY <2>2, IncludedIsType, NoCast DEF Operand
    <2>. QED  BY <2>1, <2>2, <2>3, <2>4, <2>5
  <1>2. mean.at[m].calls = calls /\ v = Fit(e, u)
    <2>. HIDE DEF e
    <2>. QED  BY <1>1, UnaryAt DEF e
  <1>3. e # Undef /\ v = e /\ Fit(e, u) # Undef
    <2>1. v # Undef
      OBVIOUS
    <2>. HIDE DEF e, v
    <2>. QED  BY <1>2, <2>1, FitIsSame
  <1>4. d # Undef
    BY <1>3, Zenon DEF Negated
  <1>5. ValuedAt(n, m) /\ d \in ValuesOf(u)
    BY <1>4 DEF Valued, ValuedAt
  <1>6. ASSUME Meant(n, m)
        PROVE  d \in ValuesOf(t) /\ Fit(d, t) = d /\ Yields(n.code.at[m], t, d, calls)
    BY <1>1, <1>6, NodeYields
  <1>7. ASSUME u \notin RealTypes PROVE Meant(n, m) /\ v \in ValuesOf(u)
    <2>1. Fit(d, u) = d
      <3>. HIDE DEF d, u
      <3>. QED  BY <1>1, <1>5, <1>7, ValueFits
    <2>2. v \in Values(u)
      <3>. HIDE DEF e, v, u
      <3>. QED  BY <1>3, <1>7, FitIsSame
    <2>. QED  BY <1>4, <1>7, <2>1, <2>2 DEF Meant, ValuesOf
  <1>. DEFINE meant == v \in ValuesOf(u) /\ (Fit(v, u) # Undef => Yields(code.at[m], t, v, calls))
  <1>8. ASSUME op = "~" PROVE meant
    <2>1. u = "BOOLEAN" /\ t = "BOOLEAN" /\ u \notin RealTypes
      BY <1>1, <1>8 DEF IsTypedUnary, Includes, Numeric, Integers, RealTypes
    <2>2. /\ v \in ValuesOf(u) /\ Yields(n.code.at[m], t, d, calls) /\ v = ~d
      BY <1>3, <1>4, <1>6, <1>7, <1>8, <2>1, Zenon DEF Negated
    <2>3. n.code.at[m] = [v |-> d, calls |-> calls]
      BY <2>1, <2>2 DEF Yields, Holds
    <2>4. IsTypedUnary(op, t)
      BY <1>8, <2>1 DEF IsTypedUnary
    <2>. HIDE DEF d, calls, u, v, t, e
    <2>5. UnaryCode(op, t, n).at[m] = [v |-> UnaryOp(op, t, getLLVMType[t], d), calls |-> calls]
      BY <1>1, <1>4, <2>3, <2>4, UnaryCodeAt
    <2>6. UnaryOp(op, t, getLLVMType[t], d) = v
      <3>1. t # "SET" /\ getLLVMType[t] = "i1"
        BY <2>1, LLVMTypes
      <3>2. UnaryOp(op, t, getLLVMType[t], d) = ~d
        BY <1>8, <3>1, Zenon DEF UnaryOp
      <3>. QED  BY <2>2, <3>2, Zenon
    <2>7. Yields(code.at[m], t, v, calls)
      <3>1. code.at[m] = [v |-> v, calls |-> calls]
        BY <2>5, <2>6, Zenon
      <3>. HIDE DEF code
      <3>. QED  BY <2>1, <3>1 DEF Yields, Holds
    <2>. QED  BY <2>2, <2>7
  <1>9. ASSUME op = "-" /\ u = "SET" PROVE meant
    <2>1. t = "SET" /\ u \notin RealTypes
      BY <1>1, <1>9 DEF Includes, Numeric, Integers, RealTypes
    <2>2. /\ v \in ValuesOf(u) /\ Yields(n.code.at[m], t, d, calls) /\ v = Word \ d
      BY <1>3, <1>4, <1>6, <1>7, <1>9, <2>1 DEF Negated
    <2>3. n.code.at[m] = [v |-> d, calls |-> calls]
      BY <2>1, <2>2 DEF Yields, Holds
    <2>4. IsTypedUnary(op, t)
      BY <1>9, <2>1 DEF IsTypedUnary
    <2>. HIDE DEF d, calls, u, v, t, e
    <2>5. UnaryCode(op, t, n).at[m] = [v |-> UnaryOp(op, t, getLLVMType[t], d), calls |-> calls]
      BY <1>1, <1>4, <2>3, <2>4, UnaryCodeAt
    <2>6. UnaryOp(op, t, getLLVMType[t], d) = v
      <3>1. UnaryOp(op, t, getLLVMType[t], d) = Word \ d
        <4>1. getLLVMType[t] # "i1"
          BY <2>1, LLVMTypes
        <4>. QED  BY <2>1, <4>1 DEF UnaryOp
      <3>. QED  BY <2>2, <3>1
    <2>7. Yields(code.at[m], t, v, calls)
      <3>1. code.at[m] = [v |-> v, calls |-> calls]
        BY <2>5, <2>6
      <3>. HIDE DEF code
      <3>. QED  BY <2>1, <3>1 DEF Yields, Holds
    <2>. QED  BY <2>2, <2>7
  <1>10. ASSUME op = "-" /\ u \in Numeric PROVE meant
    <2>1. t \in Numeric /\ u # "SET"
      BY <1>1, <1>10 DEF Includes, Numeric, Integers, RealTypes
    <2>2. d \in Int /\ v = -d /\ v \in Int
      <3>1. d \in Int
        <4>. HIDE DEF d, u
        <4>. QED  BY <1>5, <1>10, KindsOfValues
      <3>2. v = -d
        BY <1>3, <1>4, <1>10, <2>1 DEF Negated
      <3>. HIDE DEF d, v
      <3>. QED  BY <3>1, <3>2
    <2>3. v \in ValuesOf(u) /\ Meant(n, m)
      <3>1. CASE u \notin RealTypes
        BY <1>7, <3>1
      <3>2. CASE u \in RealTypes
        <4>1. Real(-d, Bits[u]) # Undef
          <5>. HIDE DEF d, u, e, v
          <5>. QED  BY <1>3, <2>2, <3>2, FitIsSame
        <4>2. Real(d, Bits[u]) = d
          <5>. HIDE DEF d, u
          <5>. QED  BY <2>2, <4>1, RealNegates
        <4>3. Fit(d, u) = d
          BY <1>4, <3>2, <4>2 DEF Fit
        <4>. HIDE DEF v
        <4>. QED  BY <1>4, <2>2, <3>2, <4>3, KindsOfValues DEF Meant
      <3>. QED  BY <3>1, <3>2
    <2>4. d \in ValuesOf(t) /\ Yields(n.code.at[m], t, d, calls)
      BY <1>6, <2>3
    <2>5. Fit(-d, t) # Undef
      <3>. HIDE DEF d, u, e, v, t
      <3>1. Fit(v, t) = v /\ v # Undef
        BY <1>1, <1>3, <2>3, FitsLarger
      <3>. QED  BY <2>2, <3>1
    <2>. HIDE DEF d, calls, u, v, t, e
    <2>6. Yields(UnaryCode("-", t, n).at[m], t, -d, calls)
      BY <1>1, <2>1, <2>4, <2>5, NegationYields
    <2>7. Yields(code.at[m], t, v, calls)
      BY <1>10, <2>2, <2>6
    <2>. QED  BY <2>3, <2>7
  <1>11. op = "~" \/ (op = "-" /\ u = "SET") \/ (op = "-" /\ u \in Numeric)
    BY <1>1 DEF IsTypedUnary
  <1>12. meant
    <2>. HIDE DEF meant, u
    <2>. QED  BY <1>8, <1>9, <1>10, <1>11
  <1>. QED  BY <1>1, <1>2, <1>12 DEF code

(* What a unary operator makes *)
LEMMA UnaryIsValued ==
    ASSUME NEW op \in {"-", "~"}, NEW n, IsExpression(n), Valued(n), NEW mean, mean = UnaryMean(op, n), mean.limits = {},
           foldUnary(op, n, mean) = {}
    PROVE  Valued(Node(n.type, UnaryCode(op, n.type, n), mean))
  <1>. DEFINE code == UnaryCode(op, n.type, n)
              k == Node(n.type, code, mean)
  <1>1. n.mean.limits = {} /\ IsTypedUnary(op, n.mean.type)
    BY UnaryLimits
  <1>2. ~isLiteral(n)
    <2>1. ASSUME isLiteral(n) PROVE FALSE
      <3>1. n.type \in Types \ {"BYTE"} /\ Includes(n.type, n.mean.type)
        BY <1>1, <2>1 DEF IsExpression, IsTyped, IsNode
      <3>2. n.type = "BOOLEAN" \/ n.type \in Integers \/ n.type \in RealTypes \/ n.type = "SET"
        BY <1>1, <3>1 DEF IsTypedUnary, Includes, Types, Numeric
      <3>. QED  BY <2>1, <3>2 DEF foldUnary, Integers, RealTypes
    <2>. QED  BY <2>1
  <1>3. ~isLiteral(k) /\ k.mean = mean /\ k.code = code /\ k.type = n.type
    BY DEF Node, isLiteral
  <1>4. ASSUME NEW m \in DOMAIN Memories PROVE ValuedAt(k, m)
    <2>1. mean.at[m].calls \in Nat
      <3>1. mean.at[m].calls = n.mean.at[m].calls /\ ValuedAt(n, m)
        <4>. DEFINE e == Negated(op, n.mean.type, n.mean.at[m].v)
        <4>. HIDE DEF e
        <4>. QED  BY UnaryAt DEF Valued, e
      <3>. QED  BY <3>1 DEF ValuedAt
    <2>2. ASSUME mean.at[m].v # Undef
          PROVE  /\ mean.at[m].v \in ValuesOf(mean.type)
                 /\ Fit(mean.at[m].v, mean.type) # Undef => Yields(code.at[m], n.type, mean.at[m].v, mean.at[m].calls)
      BY <1>2, <2>2, UnaryYields
    <2>3. Fit(mean.at[m].v, mean.type) # Undef => mean.at[m].v # Undef
      BY FitIsSame
    <2>. HIDE DEF k, code
    <2>. QED  BY <1>3, <2>1, <2>2, <2>3 DEF ValuedAt
  <1>. HIDE DEF k
  <1>5. Valued(k)
    BY <1>3, <1>4 DEF Valued
  <1>. QED  BY <1>5 DEF k

-----------------------------------------------------------------------------
(* Elements of sets *)

(* A bound of type t has a value, or calls of its own type or a wider one. *)
IsBoundOf(n, t) ==
    t \in Integers =>
        /\ n.type \in Integers
        /\ n.cast \in {None, n.type} \/ (n.cast \in Integers /\ Rank(n.type) <= Rank(n.cast))

Bounded(n, t) == n.mean.limits = {} => Valued(n) /\ IsBoundOf(n, t)

MeantElement(e) ==
    IF e.kind = "range" THEN Bounded(e.lower, e.type) /\ Bounded(e.upper, e.type)
    ELSE e.mean.limits = {} => Valued(e)

(* What is generated for a bound of an element *)
LEMMA BoundYields ==
    ASSUME NEW n, IsTyped(n), n.mean.limits = {}, Valued(n), n.type \in Integers, IsBoundOf(n, n.type),
           NEW m \in DOMAIN Memories, n.mean.at[m].v # Undef
    PROVE  /\ n.mean.at[m].v \in Int /\ Visited(n).at[m].v = n.mean.at[m].v
           /\ n.code.at[m].calls = n.mean.at[m].calls
           /\ isLiteral(n) => n.val = n.mean.at[m].v
  <1>. DEFINE d == n.mean.at[m].v
              s == n.type
              calls == n.mean.at[m].calls
  <1>1. n.mean.type \in Types \ RealTypes /\ s \in Types \ RealTypes /\ n.code.ll = getLLVMType[s] /\ s # "BYTE"
    BY DEF IsTyped, Includes, Numeric, Types, Integers, RealTypes
  <1>2. d \in ValuesOf(n.mean.type) /\ (isLiteral(n) => n.val = d)
    BY DEF Valued, ValuedAt
  <1>3. Meant(n, m)
    <2>1. Fit(d, n.mean.type) = d
      <3>. HIDE DEF d
      <3>. QED  BY <1>1, <1>2, ValueFits
    <2>. QED  BY <2>1 DEF Meant
  <1>4. d \in ValuesOf(s) /\ Yields(n.code.at[m], s, d, calls)
    BY <1>3, NodeYields
  <1>5. d \in Int
    BY <1>4, KindsOfValues
  <1>6. n.code.at[m].v = d /\ n.code.at[m].calls = calls
    <2>. DEFINE c == n.code.at[m]
    <2>1. c = [v |-> c.v, calls |-> calls] /\ c.v = d
      BY <1>1, <1>4 DEF Yields, Holds
    <2>. HIDE DEF c, calls
    <2>2. c.calls = calls
      BY <2>1
    <2>. QED  BY <2>1, <2>2 DEF c
  <1>7. CASE ~isLiteral(n)
    BY <1>2, <1>5, <1>6, <1>7 DEF Visited
  <1>8. CASE isLiteral(n) /\ n.cast \in {None, s}
    <2>1. Visited(n) = n.code
      BY <1>8, NoCast DEF Visited, Operand
    <2>. QED  BY <1>2, <1>5, <1>6, <2>1
  <1>9. CASE isLiteral(n) /\ n.cast \in Integers /\ Rank(s) <= Rank(n.cast)
    <2>. DEFINE t == n.cast
    <2>1. t \in Types \ RealTypes /\ t # "BYTE" /\ IsCast(s, t)
      BY <1>9 DEF IsCast, Types, Numeric, Integers, RealTypes
    <2>2. Fit(d, t) # Undef
      <3>1. d \in Values(s)
        BY <1>1, <1>4 DEF ValuesOf
      <3>2. d \in Values(t)
        BY <1>9, <3>1, ValuesAreIncluded
      <3>. HIDE DEF d, t
      <3>3. d # Undef
        BY <1>5, UndefAssumption
      <3>. QED  BY <2>1, <3>2, <3>3 DEF Fit
    <2>3. Yields(CastCode(n.code, s, t).at[m], t, d, calls)
      <3>. HIDE DEF d, t, calls
      <3>. QED  BY <1>1, <1>4, <2>1, <2>2, CastYields
    <2>4. Visited(n) = CastCode(n.code, s, t)
      BY <1>9 DEF Visited, Operand
    <2>5. CastCode(n.code, s, t).at[m].v = d
      <3>. HIDE DEF d, t, calls
      <3>. QED  BY <2>1, <2>3 DEF Yields, Holds
    <2>. QED  BY <1>2, <1>5, <1>6, <2>4, <2>5
  <1>. QED  BY <1>7, <1>8, <1>9 DEF IsBoundOf

(* The bits between two bits *)
LEMMA BitsOfElement ==
    ASSUME NEW lower \in Word, NEW upper \in Word, lower <= upper
    PROVE  /\ RangeLiteral(lower, upper, Bits["SET"]) = lower .. upper
           /\ RangeShifts(lower, upper, Bits["SET"]) \subseteq Word
           /\ RangeExpression(lower, upper, Bits["SET"]) = lower .. upper
           /\ Shl({0}, lower, Bits["SET"]) = {lower}
           /\ lower .. upper \subseteq Word
  <1>. DEFINE w == Bits["SET"]
  <1>1. w \in Nat /\ Word = 0 .. w - 1
    BY BitsAssumption DEF Types, Word, Ones
  <1>. HIDE DEF w
  <1>2. lower \in 0 .. w - 1 /\ upper \in lower .. w - 1
    BY <1>1
  <1>3. RangeLiteral(lower, upper, w) = lower .. upper
    BY <1>1, <1>2, ConstantRange
  <1>4. RangeShifts(lower, upper, w) \subseteq Word /\ RangeExpression(lower, upper, w) = lower .. upper
    BY <1>1, <1>2, <1>3, CodeRange
  <1>5. Shl({0}, lower, w) = {lower}
    BY <1>1, <1>2 DEF Shl, Ones
  <1>6. lower .. upper \subseteq Word
    BY <1>1, <1>2
  <1>. QED  BY <1>3, <1>4, <1>5, <1>6 DEF w

(* What the bounds of an element mean, and what code holds for them *)
BoundMeans(e, m) == [n \in DOMAIN Bounds(e) |-> Bounds(e)[n].mean.at[m].v]
BoundValues(e, m) == [n \in DOMAIN Bounds(e) |-> Visited(Bounds(e)[n]).at[m].v]
ElementSet(e, m) == ElementMeaning(e, BoundMeans(e, m))
ElementCode(e, m) == IF IsConstant(e) THEN ElementBits(e) ELSE Shifted(e, BoundValues(e, m))

(* Bounds of an integer element *)
LEMMA BoundsAreValued ==
    ASSUME NEW e, IsElement(e), MeantElement(e), e.type \in Integers,
           NEW i \in DOMAIN Bounds(e), Bounds(e)[i].mean.limits = {}
    PROVE  LET n == Bounds(e)[i] IN IsTyped(n) /\ Valued(n) /\ n.type \in Integers /\ IsBoundOf(n, n.type)
  <1>. DEFINE n == Bounds(e)[i]
  <1>1. IsTyped(n)
    BY BoundsAreTyped
  <1>2. CASE e.kind = "range"
    <2>1. Bounds(e) = <<e.lower, e.upper>>
      BY <1>2 DEF Bounds
    <2>2. n = e.lower \/ n = e.upper
      BY <2>1
    <2>3. Bounded(n, e.type)
      BY <1>2, <2>2 DEF MeantElement
    <2>. HIDE DEF n
    <2>4. Valued(n) /\ n.type \in Integers /\ IsBoundOf(n, n.type)
      BY <2>3 DEF Bounded, IsBoundOf, n
    <2>. QED  BY <1>1, <2>4 DEF n
  <1>3. CASE e.kind # "range"
    <2>1. Bounds(e) = <<e>>
      BY <1>3 DEF Bounds
    <2>2. n = e
      BY <2>1
    <2>3. Valued(e) /\ IsExpression(e) /\ e.mean.limits = {}
      BY <1>3, <2>2 DEF MeantElement, IsElement
    <2>4. IsBoundOf(e, e.type)
      BY <2>3 DEF IsExpression, IsBoundOf
    <2>. QED  BY <1>1, <2>2, <2>3, <2>4
  <1>. QED  BY <1>2, <1>3

(* An element has its bits in the set that is meant, computed or generated. *)
LEMMA ElementYields ==
    ASSUME NEW e, IsElement(e), MeantElement(e), ~ElementError(e),
           \A i \in DOMAIN Bounds(e) : Bounds(e)[i].mean.limits = {},
           NEW m \in DOMAIN Memories, ElementSet(e, m) # Undef
    PROVE  /\ ElementSet(e, m) \subseteq Word
           /\ ElementCode(e, m) = ElementSet(e, m)
           /\ \A i \in DOMAIN Bounds(e) : Bounds(e)[i].code.at[m].calls = Bounds(e)[i].mean.at[m].calls
  <1>. DEFINE v == BoundMeans(e, m)
              x == BoundValues(e, m)
  <1>1. e.type \in Integers
    BY DEF ElementError
  <1>2. DOMAIN v = DOMAIN Bounds(e) /\ DOMAIN x = DOMAIN Bounds(e)
    BY DEF BoundMeans, BoundValues
  <1>3. ASSUME NEW i \in DOMAIN Bounds(e), v[i] \in Word
        PROVE  /\ x[i] = v[i] /\ v[i] # Undef /\ Bounds(e)[i].code.at[m].calls = Bounds(e)[i].mean.at[m].calls
               /\ isLiteral(Bounds(e)[i]) => Bounds(e)[i].val = v[i]
    <2>. DEFINE n == Bounds(e)[i]
    <2>1. v[i] = n.mean.at[m].v /\ x[i] = Visited(n).at[m].v
      BY DEF BoundMeans, BoundValues
    <2>2. v[i] # Undef
      <3>1. v[i] \in Int
        BY <1>3 DEF Word, Ones
      <3>. QED  BY <3>1, UndefAssumption
    <2>3. IsTyped(n) /\ n.mean.limits = {} /\ Valued(n) /\ n.type \in Integers /\ IsBoundOf(n, n.type)
      BY <1>1, BoundsAreValued
    <2>. HIDE DEF n, v, x
    <2>4. /\ Visited(n).at[m].v = n.mean.at[m].v /\ n.code.at[m].calls = n.mean.at[m].calls
          /\ isLiteral(n) => n.val = n.mean.at[m].v
      BY <2>1, <2>2, <2>3, BoundYields
    <2>. QED  BY <2>1, <2>2, <2>4 DEF n
  <1>4. CASE e.kind = "range"
    <2>1. Bounds(e) = <<e.lower, e.upper>> /\ DOMAIN Bounds(e) = {1, 2} /\ Len(v) = 2
      <3>1. Bounds(e) = <<e.lower, e.upper>>
        BY <1>4 DEF Bounds
      <3>. QED  BY <3>1 DEF BoundMeans
    <2>. HIDE DEF v, x
    <2>2. v[1] \in Word /\ v[2] \in Word /\ v[1] <= v[2] /\ ElementSet(e, m) = v[1] .. v[2]
      <3>1. {v[1], v[2]} \subseteq Word /\ ~(v[1] > v[2]) /\ ElementSet(e, m) = v[1] .. v[2]
        BY <2>1 DEF ElementSet, ElementMeaning, v
      <3>2. v[1] \in Word /\ v[2] \in Word
        BY <3>1
      <3>3. v[1] \in Int /\ v[2] \in Int
        BY <3>2 DEF Word, Ones
      <3>4. v[1] <= v[2]
        BY <3>1, <3>3
      <3>. QED  BY <3>1, <3>2, <3>4
    <2>3. /\ RangeLiteral(v[1], v[2], Bits["SET"]) = v[1] .. v[2]
          /\ RangeShifts(v[1], v[2], Bits["SET"]) \subseteq Word
          /\ RangeExpression(v[1], v[2], Bits["SET"]) = v[1] .. v[2]
          /\ v[1] .. v[2] \subseteq Word
      BY <2>2, BitsOfElement
    <2>4. /\ x[1] = v[1] /\ x[2] = v[2] /\ x[1] # Undef /\ x[2] # Undef
          /\ \A i \in DOMAIN Bounds(e) : Bounds(e)[i].code.at[m].calls = Bounds(e)[i].mean.at[m].calls
      BY <1>3, <2>1, <2>2
    <2>5. CASE IsConstant(e)
      <3>1. isLiteral(Bounds(e)[1]) /\ isLiteral(Bounds(e)[2])
        BY <2>1, <2>5 DEF IsConstant
      <3>2. e.lower.val = v[1] /\ e.upper.val = v[2]
        BY <1>3, <2>1, <2>2, <3>1
      <3>3. ElementCode(e, m) = RangeLiteral(v[1], v[2], Bits["SET"])
        BY <1>4, <2>5, <3>2 DEF ElementCode, ElementBits
      <3>. QED  BY <2>2, <2>3, <2>4, <3>3
    <2>6. CASE ~IsConstant(e)
      <3>1. ElementCode(e, m) = Shifted(e, x)
        BY <2>6 DEF ElementCode, x
      <3>2. ~\E n \in DOMAIN x : x[n] = Undef
        BY <1>2, <2>1, <2>4
      <3>3. Shifted(e, x) = RangeExpression(v[1], v[2], Bits["SET"])
        BY <1>4, <2>3, <2>4, <3>2 DEF Shifted
      <3>. QED  BY <2>2, <2>3, <2>4, <3>1, <3>3
    <2>. QED  BY <2>5, <2>6
  <1>5. CASE e.kind # "range"
    <2>1. Bounds(e) = <<e>> /\ DOMAIN Bounds(e) = {1} /\ Len(v) = 1
      <3>1. Bounds(e) = <<e>>
        BY <1>5 DEF Bounds
      <3>. QED  BY <3>1 DEF BoundMeans
    <2>. HIDE DEF v, x
    <2>2. v[1] \in Word /\ v[1] \in Int /\ ElementSet(e, m) = {v[1]}
      <3>1. v[1] \in Word /\ ElementSet(e, m) = v[1] .. v[1]
        BY <2>1 DEF ElementSet, ElementMeaning, v
      <3>2. v[1] \in Int
        BY <3>1 DEF Word, Ones
      <3>. QED  BY <3>1, <3>2
    <2>3. Shl({0}, v[1], Bits["SET"]) = {v[1]} /\ {v[1]} \subseteq Word
      BY <2>2, BitsOfElement
    <2>4. /\ x[1] = v[1] /\ x[1] # Undef
          /\ \A i \in DOMAIN Bounds(e) : Bounds(e)[i].code.at[m].calls = Bounds(e)[i].mean.at[m].calls
      BY <1>3, <2>1, <2>2
    <2>5. CASE IsConstant(e)
      <3>1. isLiteral(e) /\ Bounds(e)[1] = e
        BY <2>1, <2>5 DEF IsConstant
      <3>2. e.val = v[1]
        BY <1>3, <2>1, <2>2, <3>1
      <3>3. ElementCode(e, m) = {v[1]}
        BY <1>5, <2>5, <3>2 DEF ElementCode, ElementBits
      <3>. QED  BY <2>2, <2>3, <2>4, <3>3
    <2>6. CASE ~IsConstant(e)
      <3>1. ElementCode(e, m) = Shifted(e, x)
        BY <2>6 DEF ElementCode, x
      <3>2. ~\E n \in DOMAIN x : x[n] = Undef
        BY <1>2, <2>1, <2>4
      <3>3. Shifted(e, x) = Shl({0}, v[1], Bits["SET"])
        BY <1>5, <2>2, <2>4, <3>2 DEF Shifted
      <3>. QED  BY <2>2, <2>3, <2>4, <3>1, <3>3
    <2>. QED  BY <2>5, <2>6
  <1>. QED  BY <1>4, <1>5

-----------------------------------------------------------------------------
(* Sets *)

(* Parts that are united, unless one is undefined *)
AllUnited(parts) == IF Undef \in parts THEN Undef ELSE UNION parts

(* The bounds of the elements, and the calls of all of them *)
SetBounds(elements) == {p \in (DOMAIN elements) \X (1 .. 2) : p[2] \in DOMAIN Bounds(elements[p[1]])}
MeanCalls(elements, m) == [p \in SetBounds(elements) |-> Bounds(elements[p[1]])[p[2]].mean.at[m].calls]
CodeCalls(elements, m) == [p \in SetBounds(elements) |-> Bounds(elements[p[1]])[p[2]].code.at[m].calls]
Counted(elements, calls) == Cardinality({c \in SetBounds(elements) \X (1 .. MaxSize) : c[2] <= calls[c[1]]})

(* What a set means in a memory *)
LEMMA SetMeanAt ==
    ASSUME NEW elements, NEW m \in DOMAIN Memories
    PROVE  /\ SetMean(elements).at[m].v = AllUnited({ElementSet(elements[k], m) : k \in DOMAIN elements})
           /\ SetMean(elements).at[m].calls = Counted(elements, MeanCalls(elements, m))
  <1>. DEFINE calls(p) == Bounds(elements[p[1]])[p[2]].mean.at[m].calls
              all == SetBounds(elements) \X (1 .. MaxSize)
              parts == AllUnited({ElementSet(elements[k], m) : k \in DOMAIN elements})
              count == Cardinality({c \in all : c[2] <= calls(c[1])})
  <1>1. SetMean(elements).at[m] = [v |-> parts, calls |-> count]
    BY Zenon DEF SetMean, Mean, United, Calls, AllUnited, ElementSet, BoundMeans, SetBounds
  <1>2. ASSUME NEW c \in all PROVE calls(c[1]) = MeanCalls(elements, m)[c[1]]
    BY DEF MeanCalls
  <1>3. count = Counted(elements, MeanCalls(elements, m))
    <2>. HIDE DEF all, calls
    <2>1. {c \in all : c[2] <= calls(c[1])} = {c \in all : c[2] <= MeanCalls(elements, m)[c[1]]}
      BY <1>2
    <2>. QED  BY <2>1 DEF Counted, all
  <1>. HIDE DEF parts, count
  <1>. QED  BY <1>1, <1>3 DEF parts

(* What its code yields *)
LEMMA SetCodeAt ==
    ASSUME NEW elements, NEW m \in DOMAIN Memories,
           \A n \in SetNodes(elements) : isLiteral(n) \/ Visited(n).ll = "i32"
    PROVE  SetExpressionCode(elements).at[m] =
             [v |-> AllUnited({ElementCode(elements[k], m) : k \in DOMAIN elements}),
              calls |-> Counted(elements, CodeCalls(elements, m))]
  <1>. DEFINE value(e) == [n \in DOMAIN Bounds(e) |-> Visited(Bounds(e)[n]).at[m].v]
              bits(e) == IF IsConstant(e) THEN ElementBits(e) ELSE Shifted(e, value(e))
              calls(e, n) == Bounds(e)[n].code.at[m].calls
              all == SetBounds(elements) \X (1 .. MaxSize)
              fits(n) == isLiteral(n) \/ Visited(n).ll = "i32"
  <1>1. \A k \in DOMAIN elements : \A n \in DOMAIN Bounds(elements[k]) : fits(Bounds(elements[k])[n])
    BY DEF SetNodes
  <1>2. SetExpressionCode(elements).at[m] = [v |-> United(elements, bits), calls |-> Calls(elements, calls)]
    BY <1>1, Zenon DEF SetExpressionCode, Code, United, Calls
  <1>3. United(elements, bits) = AllUnited({ElementCode(elements[k], m) : k \in DOMAIN elements})
    BY Zenon DEF United, AllUnited, ElementCode, BoundValues
  <1>4. Calls(elements, calls) = Cardinality({c \in all : c[2] <= calls(elements[c[1][1]], c[1][2])})
    BY Zenon DEF Calls, SetBounds
  <1>5. ASSUME NEW c \in all PROVE calls(elements[c[1][1]], c[1][2]) = CodeCalls(elements, m)[c[1]]
    BY DEF CodeCalls
  <1>. HIDE DEF all, calls
  <1>6. {c \in all : c[2] <= calls(elements[c[1][1]], c[1][2])} = {c \in all : c[2] <= CodeCalls(elements, m)[c[1]]}
    BY <1>5
  <1>. QED  BY <1>2, <1>3, <1>4, <1>6 DEF Counted, all

(* There are finitely many calls. *)
LEMMA CallsAreCounted ==
    ASSUME NEW elements, IsFiniteSet(DOMAIN elements), NEW calls
    PROVE  Counted(elements, calls) \in Nat
  <1>. DEFINE pairs == (DOMAIN elements) \X (1 .. 2)
              all == SetBounds(elements) \X (1 .. MaxSize)
              counted == {c \in all : c[2] <= calls[c[1]]}
  <1>1. IsFiniteSet(1 .. 2) /\ IsFiniteSet(1 .. MaxSize)
    <2>1. MaxSize \in Int
      BY ExpressionsAssumption
    <2>2. \A n \in Int : IsFiniteSet(1 .. n)
      BY FS_Interval
    <2>3. 2 \in Int
      OBVIOUS
    <2>. QED  BY <2>1, <2>2, <2>3, Zenon
  <1>2. IsFiniteSet(pairs)
    BY <1>1, FS_Product
  <1>3. SetBounds(elements) \subseteq pairs
    BY DEF SetBounds
  <1>. HIDE DEF pairs
  <1>4. IsFiniteSet(SetBounds(elements))
    BY <1>2, <1>3, FS_Subset
  <1>5. IsFiniteSet(all)
    BY <1>1, <1>4, FS_Product
  <1>6. counted \subseteq all
    OBVIOUS
  <1>. HIDE DEF all
  <1>7. IsFiniteSet(counted)
    <2>. HIDE DEF counted
    <2>. QED  BY <1>5, <1>6, FS_Subset
  <1>8. Cardinality(counted) \in Nat
    <2>. HIDE DEF counted
    <2>. QED  BY <1>7, FS_CardinalityType
  <1>. QED  BY <1>8 DEF Counted, all

(* Literals call nothing. *)
LEMMA NothingIsCounted ==
    ASSUME NEW elements, NEW calls, \A p \in SetBounds(elements) : calls[p] = 0
    PROVE  Counted(elements, calls) = 0
  <1>. DEFINE all == SetBounds(elements) \X (1 .. MaxSize)
              counted == {c \in all : c[2] <= calls[c[1]]}
  <1>1. ASSUME NEW c \in all PROVE ~(c[2] <= calls[c[1]])
    <2>1. calls[c[1]] = 0 /\ c[2] \in 1 .. MaxSize
      OBVIOUS
    <2>. QED  BY <2>1, ExpressionsAssumption
  <1>. HIDE DEF all
  <1>2. counted = {}
    BY <1>1
  <1>. QED  BY <1>2, FS_EmptySet DEF Counted, all

(* What a set of valid elements means in a memory, what is computed and what *)
(* is generated are the same.                                                *)
LEMMA SetYieldsAt ==
    ASSUME NEW elements, \A k \in DOMAIN elements : IsElement(elements[k]) /\ MeantElement(elements[k]),
           \A k \in DOMAIN elements : ~ElementError(elements[k]),
           \A n \in SetNodes(elements) : n.mean.limits = {},
           NEW m \in DOMAIN Memories, SetMean(elements).at[m].v # Undef
    PROVE  /\ SetMean(elements).at[m].v \in SUBSET Word
           /\ SetMean(elements).at[m].v = AllUnited({ElementCode(elements[k], m) : k \in DOMAIN elements})
           /\ SetMean(elements).at[m].v = UNION {ElementCode(elements[k], m) : k \in DOMAIN elements}
           /\ MeanCalls(elements, m) = CodeCalls(elements, m)
  <1>. DEFINE sets == {ElementSet(elements[k], m) : k \in DOMAIN elements}
              codes == {ElementCode(elements[k], m) : k \in DOMAIN elements}
  <1>1. SetMean(elements).at[m].v = AllUnited(sets)
    BY SetMeanAt
  <1>2. Undef \notin sets /\ AllUnited(sets) = UNION sets
    BY <1>1 DEF AllUnited
  <1>3. ASSUME NEW k \in DOMAIN elements
        PROVE  /\ ElementSet(elements[k], m) \subseteq Word
               /\ ElementCode(elements[k], m) = ElementSet(elements[k], m)
               /\ \A i \in DOMAIN Bounds(elements[k]) :
                     Bounds(elements[k])[i].code.at[m].calls = Bounds(elements[k])[i].mean.at[m].calls
    <2>1. ElementSet(elements[k], m) # Undef
      BY <1>2
    <2>2. \A i \in DOMAIN Bounds(elements[k]) : Bounds(elements[k])[i].mean.limits = {}
      BY DEF SetNodes
    <2>. QED  BY <2>1, <2>2, ElementYields
  <1>4. sets = codes
    BY <1>3
  <1>5. UNION sets \in SUBSET Word
    BY <1>3
  <1>6. MeanCalls(elements, m) = CodeCalls(elements, m)
    <2>1. ASSUME NEW p \in SetBounds(elements)
          PROVE  Bounds(elements[p[1]])[p[2]].mean.at[m].calls = Bounds(elements[p[1]])[p[2]].code.at[m].calls
      <3>1. p[1] \in DOMAIN elements /\ p[2] \in DOMAIN Bounds(elements[p[1]])
        BY DEF SetBounds
      <3>. QED  BY <1>3, <3>1
    <2>. QED  BY <2>1 DEF MeanCalls, CodeCalls
  <1>7. AllUnited(sets) = UNION codes
    BY <1>2, <1>4
  <1>8. AllUnited(sets) = AllUnited(codes)
    BY <1>4
  <1>. HIDE DEF sets, codes
  <1>9. SetMean(elements).at[m].v \in SUBSET Word /\ SetMean(elements).at[m].v = AllUnited(codes)
        /\ SetMean(elements).at[m].v = UNION codes
    BY <1>1, <1>2, <1>5, <1>7, <1>8
  <1>. QED  BY <1>6, <1>9 DEF codes

(* What a set makes *)
LEMMA SetIsValued ==
    ASSUME NEW elements, IsFiniteSet(DOMAIN elements),
           \A k \in DOMAIN elements : IsElement(elements[k]) /\ MeantElement(elements[k]),
           \A k \in DOMAIN elements : ~ElementError(elements[k]),
           NEW mean, mean = SetMean(elements), mean.limits = {},
           NEW bits, bits = UNION {ElementBits(elements[k]) : k \in DOMAIN elements},
           NEW node, node = IF \A k \in DOMAIN elements : IsConstant(elements[k]) THEN Literal(bits, "SET", mean)
                            ELSE Node("SET", SetExpressionCode(elements), mean)
    PROVE  Valued(node)
  <1>1. /\ \A n \in SetNodes(elements) : /\ n.mean.limits = {} /\ n.code.ll = getLLVMType[n.type] /\ Folded(n)
                                         /\ isLiteral(n) \/ n.type = "INTEGER"
        /\ mean.type = "SET"
    BY SetFacts, SetMeanParts
  <1>2. ASSUME NEW m \in DOMAIN Memories, mean.at[m].v # Undef
        PROVE  /\ mean.at[m].v \in ValuesOf(mean.type)
               /\ mean.at[m].v = AllUnited({ElementCode(elements[k], m) : k \in DOMAIN elements})
               /\ mean.at[m].v = UNION {ElementCode(elements[k], m) : k \in DOMAIN elements}
               /\ MeanCalls(elements, m) = CodeCalls(elements, m)
    <2>1. /\ mean.at[m].v \in SUBSET Word
          /\ mean.at[m].v = AllUnited({ElementCode(elements[k], m) : k \in DOMAIN elements})
          /\ mean.at[m].v = UNION {ElementCode(elements[k], m) : k \in DOMAIN elements}
          /\ MeanCalls(elements, m) = CodeCalls(elements, m)
      BY <1>1, <1>2, SetYieldsAt
    <2>. QED  BY <1>1, <2>1, KindsOfValues
  <1>3. CASE \A k \in DOMAIN elements : IsConstant(elements[k])
    <2>1. node = Literal(bits, "SET", mean)
      BY <1>3
    <2>2. ASSUME NEW m \in DOMAIN Memories, mean.at[m].v # Undef PROVE bits = mean.at[m].v
      <3>1. \A k \in DOMAIN elements : ElementCode(elements[k], m) = ElementBits(elements[k])
        BY <1>3 DEF ElementCode
      <3>2. {ElementCode(elements[k], m) : k \in DOMAIN elements} = {ElementBits(elements[k]) : k \in DOMAIN elements}
        BY <3>1
      <3>. QED  BY <1>2, <2>2, <3>2
    <2>3. ASSUME NEW m \in DOMAIN Memories PROVE mean.at[m].calls = 0
      <3>1. ASSUME NEW p \in SetBounds(elements) PROVE Bounds(elements[p[1]])[p[2]].mean.at[m].calls = 0
        <4>. DEFINE e == elements[p[1]]
                    n == Bounds(e)[p[2]]
        <4>1. p[1] \in DOMAIN elements /\ p[2] \in DOMAIN Bounds(e)
          BY DEF SetBounds
        <4>2. isLiteral(n) /\ n.mean.limits = {}
          <5>1. n \in SetNodes(elements)
            BY <4>1 DEF SetNodes
          <5>. QED  BY <1>1, <1>3, <4>1, <5>1 DEF IsConstant
        <4>3. IsElement(e) /\ MeantElement(e) /\ e.type \in Integers
          BY <4>1 DEF ElementError
        <4>4. Valued(n)
          <5>. HIDE DEF e
          <5>. QED  BY <4>1, <4>2, <4>3, BoundsAreValued
        <4>. QED  BY <4>2, <4>4 DEF Valued, ValuedAt
      <3>2. \A p \in SetBounds(elements) : MeanCalls(elements, m)[p] = 0
        BY <3>1 DEF MeanCalls
      <3>3. Counted(elements, MeanCalls(elements, m)) = 0
        BY <3>2, NothingIsCounted
      <3>. QED  BY <3>3, SetMeanAt
    <2>4. MeansLiteral(bits, mean)
      BY <1>2, <2>2, <2>3 DEF MeansLiteral
    <2>. QED  BY <2>1, <2>4, LiteralHasValue, Zenon
  <1>4. CASE ~(\A k \in DOMAIN elements : IsConstant(elements[k]))
    <2>. DEFINE code == SetExpressionCode(elements)
    <2>1. node = Node("SET", code, mean)
      BY <1>4
    <2>2. ~isLiteral(node) /\ node.mean = mean /\ node.code = code /\ node.type = "SET"
      BY <2>1 DEF Node, isLiteral
    <2>3. ASSUME NEW n \in SetNodes(elements) PROVE isLiteral(n) \/ Visited(n).ll = "i32"
      BY <1>1, <2>3, LLVMTypes DEF Visited
    <2>4. ASSUME NEW m \in DOMAIN Memories PROVE ValuedAt(node, m)
      <3>1. code.at[m] = [v |-> AllUnited({ElementCode(elements[k], m) : k \in DOMAIN elements}),
                          calls |-> Counted(elements, CodeCalls(elements, m))]
        BY <2>3, SetCodeAt
      <3>2. mean.at[m].calls = Counted(elements, MeanCalls(elements, m)) /\ mean.at[m].calls \in Nat
        <4>1. mean.at[m].calls = Counted(elements, MeanCalls(elements, m))
          BY SetMeanAt
        <4>2. \A calls : Counted(elements, calls) \in Nat
          BY CallsAreCounted
        <4>. QED  BY <4>1, <4>2
      <3>3. ASSUME mean.at[m].v # Undef PROVE Yields(code.at[m], "SET", mean.at[m].v, mean.at[m].calls)
        <4>1. code.at[m] = [v |-> mean.at[m].v, calls |-> mean.at[m].calls]
          BY <1>2, <3>1, <3>2, <3>3
        <4>. QED  BY <4>1 DEF Yields, Holds
      <3>4. Fit(mean.at[m].v, mean.type) # Undef => mean.at[m].v # Undef
        BY FitIsSame
      <3>. HIDE DEF code
      <3>. QED  BY <1>2, <2>2, <3>2, <3>3, <3>4 DEF ValuedAt
    <2>. QED  BY <2>2, <2>4 DEF Valued
  <1>. QED  BY <1>3, <1>4

-----------------------------------------------------------------------------
(* What is folded means what the operator means. *)

LEMMA UnaryKeepsMean ==
    ASSUME NEW op, NEW n, NEW mean, NEW k \in foldUnary(op, n, mean)
    PROVE  k.mean = mean
  <1>1. \A val, t : /\ Literal(val, t, mean).mean = mean
                    /\ \A c : [Literal(val, t, mean) EXCEPT !.cast = c].mean = mean
    BY DEF Literal
  <1>2. \A value : \E val, t : NewInteger(value, mean) = Literal(val, t, mean)
    BY DEF NewInteger
  <1>3. \E val, t : k = [Literal(val, t, mean) EXCEPT !.cast = n.cast]
    <2>1. CASE n.type = "BOOLEAN"
      BY <2>1, Zenon DEF foldUnary, Integers, RealTypes
    <2>2. CASE n.type \in Integers
      <3>1. k = [NewInteger(-n.val, mean) EXCEPT !.cast = n.cast]
        BY <2>2 DEF foldUnary, Integers, RealTypes
      <3>. QED  BY <1>2, <3>1
    <2>3. CASE n.type \in RealTypes
      BY <2>3 DEF foldUnary, Integers, RealTypes
    <2>4. CASE n.type = "SET"
      BY <2>4 DEF foldUnary, Integers, RealTypes
    <2>. QED  BY <2>1, <2>2, <2>3, <2>4 DEF foldUnary
  <1>. QED  BY <1>1, <1>3

LEMMA FoldKeepsMean ==
    ASSUME NEW op, NEW l, IsNode(l), NEW r, IsNode(r), NEW result, NEW mean, NEW k \in fold(op, l, r, result, mean)
    PROVE  k.mean = mean
  <1>1. \A val, t : Literal(val, t, mean).mean = mean
    BY DEF Literal
  <1>2. \A t, code : Node(t, code, mean).mean = mean
    BY DEF Node
  <1>3. \A n \in {l, r} : [n EXCEPT !.mean = mean].mean = mean
    <2>1. Kept(l, mean).mean = mean /\ Kept(r, mean).mean = mean
      BY KeptNode
    <2>. QED  BY <2>1 DEF Kept
  <1>4. \A t : [l EXCEPT !.cast = t, !.mean = mean].mean = mean
    <2>. TAKE t
    <2>1. l = [kind |-> l.kind, type |-> l.type, cast |-> l.cast, val |-> l.val, code |-> l.code, mean |-> l.mean]
      BY DEF IsNode
    <2>. QED  BY <2>1
  <1>5. \A value, t : NewInteger(value, mean).mean = mean /\ NewNumber(value, t, mean).mean = mean
    BY <1>1 DEF NewInteger, NewNumber
  <1>6. k \in foldBooleanOp(op, l, r, mean) => k.mean = mean
    BY <1>1, <1>3, Zenon DEF foldBooleanOp
  <1>7. k \in foldSetOp(op, l, r, result, mean) \cup foldRelationOp(op, l, r, mean) => k.mean = mean
    BY <1>1, Zenon DEF foldSetOp, foldRelationOp
  <1>8. \A neutral, zeros : k \in foldBinaryOp(op, l, r, neutral, zeros, result, mean) => k.mean = mean
    BY <1>1, <1>3, <1>5, Zenon DEF foldBinaryOp
  <1>9. k \in foldSubOp(l, r, result, mean) => k.mean = mean
    BY <1>2, <1>3, <1>5, Zenon DEF foldSubOp
  <1>10. k \in foldDivModOp(op, l, r, result, mean) => k.mean = mean
    BY <1>1, <1>3, Zenon DEF foldDivModOp
  <1>11. k \in foldFDivOp(l, r, result, mean) => k.mean = mean
    BY <1>1, <1>4, Zenon DEF foldFDivOp
  <1>12. \/ k \in foldBooleanOp(op, l, r, mean) \/ k \in foldSetOp(op, l, r, result, mean)
         \/ k \in foldRelationOp(op, l, r, mean) \/ \E neutral, zeros : k \in foldBinaryOp(op, l, r, neutral, zeros, result, mean)
         \/ k \in foldSubOp(l, r, result, mean) \/ k \in foldDivModOp(op, l, r, result, mean)
         \/ k \in foldFDivOp(l, r, result, mean)
    BY Zenon DEF fold
  <1>. QED  BY <1>6, <1>7, <1>8, <1>9, <1>10, <1>11, <1>12

-----------------------------------------------------------------------------
(* The inductive invariant *)

AreMeant == \A k \in DOMAIN stack : MeantElement(stack[k])
MInv == IInv /\ AreMeant /\ AssignmentKeepsValue

(* A node is pushed while the parser is parsing. *)
LEMMA PushMeans ==
    ASSUME IInv, AreMeant, NEW n \in 0 .. Len(stack), NEW node, MeantElement(node), stack' = Append(Pop(n), node)
    PROVE  AreMeant'
  <1>1. \A k \in DOMAIN stack' : (k \in DOMAIN stack /\ stack'[k] = stack[k]) \/ stack'[k] = node
    BY PushedNodes
  <1>. QED  BY <1>1 DEF AreMeant

LEMMA EmptyMeans ==
    ASSUME stack' = <<>>
    PROVE  AreMeant'
  <1>1. DOMAIN stack' = {}
    BY EmptySeq
  <1>. QED  BY <1>1 DEF AreMeant

LEMMA ParsingMeans ==
    ASSUME phase' # "assigned"
    PROVE  AssignmentKeepsValue'
  BY DEF AssignmentKeepsValue

(* An expression that has its value is an element that is meant. *)
LEMMA ValuedIsMeant ==
    ASSUME NEW node, node.kind # "range", node.mean.limits = {} => Valued(node)
    PROVE  MeantElement(node)
  BY DEF MeantElement

(* The nodes on top of the stack have their values. *)
LEMMA TopIsValued ==
    ASSUME IInv, AreMeant, NEW n \in Nat \ {0}, AreExpressions(n), NEW k \in 1 .. n, Top(k).mean.limits = {}
    PROVE  Valued(Top(k))
  <1>1. Len(stack) \in Nat /\ DOMAIN stack = 1 .. Len(stack)
    BY StackIsSequence
  <1>2. Len(stack) >= n /\ Top(k).kind # "range"
    BY DEF AreExpressions
  <1>3. Len(stack) + 1 - k \in DOMAIN stack
    BY <1>1, <1>2
  <1>4. MeantElement(Top(k))
    BY <1>3 DEF AreMeant, Top
  <1>. QED  BY <1>2, <1>4 DEF MeantElement

-----------------------------------------------------------------------------
(* The calls of the parser *)

LEMMA LiteralMeans ==
    ASSUME IInv, AreMeant, NEW type \in DOMAIN Literals, NEW value \in Literals[type], onLiteral(type, value)
    PROVE  AreMeant' /\ phase' = "parsing"
  <1>. DEFINE mean == Constant(value, type)
              node == Literal(value, type, mean)
  <1>1. value \in ValuesOf(type)
    BY ExpressionsAssumption
  <1>2. mean.type = type /\ \A m \in DOMAIN Memories : mean.at[m].v = value /\ mean.at[m].calls = 0
    BY DEF Constant, Mean
  <1>3. node.kind # "range" /\ node = Literal(value, type, mean)
    BY DEF Literal
  <1>4. stack' = Append(Pop(0), node) /\ phase' = "parsing"
    BY DEF onLiteral, Push, Count
  <1>. HIDE DEF mean, node
  <1>5. Valued(node)
    BY <1>1, <1>2, <1>3, LiteralIsValued
  <1>6. MeantElement(node)
    BY <1>3, <1>5, ValuedIsMeant
  <1>. QED  BY <1>4, <1>6, StackIsSequence, PushMeans

(* A variable holds its value. *)
LEMMA StoredIsHeld ==
    ASSUME NEW t \in Types, NEW v \in ValuesOf(t)
    PROVE  Holds(Stored(v, t), t, v)
  <1>1. v # Undef
    BY ValuesAreDefined
  <1>2. CASE t \in Integers
    <2>1. v \in Signed(Bits[t]) /\ v \in Int /\ Bits[t] \in Nat \ {0} /\ t # "BYTE"
      BY <1>2, KindsOfValues, BitsOfReals DEF Integers
    <2>2. Wrap(v, Bits[t]) = v
      BY <2>1, WrapFits
    <2>. QED  BY <1>1, <1>2, <2>1, <2>2 DEF Stored, Holds
  <1>3. CASE t = "BYTE"
    <2>1. v \in 0 .. 2 ^ Bits["BYTE"] - 1 /\ v \in ValuesOf("BYTE") /\ v \in Int
      <3>1. v \in 0 .. 2 ^ Bits["BYTE"] - 1 /\ v \in ValuesOf("BYTE")
        BY <1>3, KindsOfValues
      <3>. QED  BY <3>1
    <2>2. 2 ^ Bits["BYTE"] \in Nat /\ 2 ^ Bits["BYTE"] > 0
      BY BitsOfReals, PowerIsPositive
    <2>3. v % 2 ^ Bits["BYTE"] = v
      BY <2>1, <2>2, SmallModulo
    <2>4. Holds(Wrap(v, Bits["BYTE"]), "BYTE", v)
      BY <2>1, <2>3, ByteIsHeld
    <2>. QED  BY <1>1, <1>3, <2>4 DEF Stored
  <1>4. CASE t \notin Integers \cup {"BYTE"}
    BY <1>1, <1>4 DEF Stored, Holds
  <1>. QED  BY <1>2, <1>3, <1>4

LEMMA ReferenceIsValued ==
    ASSUME NEW x \in DOMAIN VarType, NEW calls \in Nat
    PROVE  MeantElement(Reference(x, calls))
  <1>. DEFINE t == VarType[x]
              code == Code(getLLVMType[t], [m \in DOMAIN Memories |-> [v |-> Stored(Memories[m][x], t), calls |-> calls]])
              mean == Mean(t, FALSE, [m \in DOMAIN Memories |-> [v |-> Memories[m][x], calls |-> calls]], {})
              node == Node(t, code, mean)
  <1>1. t \in Types /\ \A m \in DOMAIN Memories : Memories[m][x] \in ValuesOf(t)
    BY ExpressionsAssumption
  <1>2. /\ \A m \in DOMAIN Memories : code.at[m] = [v |-> Stored(Memories[m][x], t), calls |-> calls]
        /\ \A m \in DOMAIN Memories : mean.at[m] = [v |-> Memories[m][x], calls |-> calls]
        /\ mean.type = t
    BY DEF Code, Mean
  <1>3. Reference(x, calls) = node
    BY DEF Reference
  <1>. HIDE DEF t, code, mean
  <1>4. node.kind # "range" /\ ~isLiteral(node) /\ node.mean = mean /\ node.code = code /\ node.type = t
    BY DEF Node, isLiteral
  <1>. HIDE DEF node
  <1>5. ASSUME NEW m \in DOMAIN Memories PROVE ValuedAt(node, m)
    <2>. DEFINE d == Memories[m][x]
    <2>1. /\ d \in ValuesOf(t) /\ mean.at[m] = [v |-> d, calls |-> calls]
          /\ code.at[m] = [v |-> Stored(d, t), calls |-> calls]
      BY <1>1, <1>2
    <2>. HIDE DEF d
    <2>2. Yields(code.at[m], t, d, calls)
      BY <1>1, <2>1, StoredIsHeld DEF Yields
    <2>. QED  BY <1>2, <1>4, <2>1, <2>2 DEF ValuedAt
  <1>6. Valued(node)
    BY <1>4, <1>5 DEF Valued
  <1>. QED  BY <1>3, <1>4, <1>6, ValuedIsMeant

LEMMA UnaryMeans ==
    ASSUME IInv, AreMeant, NEW op \in {"-", "~"}, onUnaryExpression(op)
    PROVE  AreMeant' /\ phase' # "assigned"
  <1>. DEFINE n == Top(1)
              mean == UnaryMean(op, n)
              folded == foldUnary(op, n, mean)
              new == Node(n.type, UnaryCode(op, n.type, n), mean)
  <1>1. AreExpressions(1) /\ 1 \in 0 .. Len(stack) /\ IsExpression(n)
    BY TopNodes DEF onUnaryExpression
  <1>2. /\ phase' # "assigned"
        /\ \/ stack' = <<>>
           \/ ~FoldUnaryError(op, n) /\ \E node \in folded : stack' = Append(Pop(1), node)
           \/ folded = {} /\ stack' = Append(Pop(1), new)
    BY DEF onUnaryExpression, Push, Count
  <1>3. mean.limits = {} => Valued(n)
    BY <1>1, UnaryLimits, TopIsValued
  <1>4. mean = UnaryMean(op, n)
    OBVIOUS
  <1>. HIDE DEF n, mean
  <1>5. CASE stack' = <<>>
    BY <1>2, <1>5, EmptyMeans
  <1>6. ASSUME ~FoldUnaryError(op, n), NEW node \in folded, stack' = Append(Pop(1), node) PROVE AreMeant'
    <2>1. node.mean = mean /\ node.kind # "range"
      BY <1>1, <1>4, <1>6, UnaryFolded, UnaryKeepsMean
    <2>2. mean.limits = {} => Valued(node)
      BY <1>1, <1>3, <1>4, <1>6, UnaryFoldedIsValued
    <2>3. MeantElement(node)
      BY <2>1, <2>2, ValuedIsMeant
    <2>. QED  BY <1>1, <1>6, <2>3, PushMeans
  <1>7. CASE folded = {} /\ stack' = Append(Pop(1), new)
    <2>1. new.mean = mean /\ new.kind # "range"
      BY DEF Node
    <2>2. mean.limits = {} => Valued(new)
      BY <1>1, <1>3, <1>4, <1>7, UnaryIsValued
    <2>. HIDE DEF new
    <2>3. MeantElement(new) /\ stack' = Append(Pop(1), new)
      BY <1>7, <2>1, <2>2, ValuedIsMeant
    <2>. QED  BY <1>1, <1>2, <2>3, PushMeans
  <1>. QED  BY <1>2, <1>5, <1>6, <1>7

LEMMA BinaryMeans ==
    ASSUME IInv, AreMeant, NEW op, onBinaryExpression(op)
    PROVE  AreMeant' /\ phase' # "assigned"
  <1>. DEFINE l == Top(2)
              r == Top(1)
              typing == Typing(op, l.type, r.type)
              mean == BinaryMean(op, l, r, typing)
              folded == fold(op, l, r, typing.result, mean)
              new == Node(typing.result, BinaryCode(op, CastTo(typing.common, l), CastTo(typing.common, r)), mean)
  <1>1. AreExpressions(2) /\ 2 \in 0 .. Len(stack) /\ IsExpression(l) /\ IsExpression(r)
    BY TopNodes DEF onBinaryExpression
  <1>2. /\ phase' # "assigned"
        /\ \/ stack' = <<>>
           \/ /\ typing.result # None /\ ~FoldError(op, l, r)
              /\ \/ \E node \in folded : stack' = Append(Pop(2), node)
                 \/ folded = {} /\ stack' = Append(Pop(2), new)
    BY DEF onBinaryExpression, Push, Stop, CastTo
  <1>3. mean = BinaryMean(op, l, r, typing) /\ typing = Typing(op, l.type, r.type)
    OBVIOUS
  <1>4. mean.limits = {} => Valued(l) /\ Valued(r)
    <2>1. mean.limits = {} => l.mean.limits = {} /\ r.mean.limits = {}
      BY <1>3, BinaryLimits
    <2>2. l.mean.limits = {} => Valued(l)
      BY <1>1, TopIsValued
    <2>3. r.mean.limits = {} => Valued(r)
      BY <1>1, TopIsValued
    <2>. QED  BY <2>1, <2>2, <2>3
  <1>. HIDE DEF l, r, typing, mean
  <1>5. CASE stack' = <<>>
    BY <1>2, <1>5, EmptyMeans
  <1>6. CASE typing.result # None /\ ~FoldError(op, l, r)
    <2>1. mean.limits = {} => Applicable(op, l, r, typing, mean)
      BY <1>1, <1>3, <1>4, <1>6 DEF Applicable, Accepted
    <2>2. IsNode(l) /\ IsNode(r) /\ Accepted(op, l, r, typing)
      BY <1>1, <1>3, <1>6 DEF IsExpression, IsTyped, Accepted
    <2>3. ASSUME NEW node \in folded, stack' = Append(Pop(2), node) PROVE AreMeant'
      <3>1. node.mean = mean
        BY <2>2, <2>3, FoldKeepsMean
      <3>2. node.kind # "range"
        BY <1>3, <1>6, <2>2, <2>3, FoldIsExpression
      <3>3. mean.limits = {} => Valued(node)
        BY <1>6, <2>1, <2>3, FoldIsValued
      <3>4. MeantElement(node)
        BY <3>1, <3>2, <3>3, ValuedIsMeant
      <3>. QED  BY <1>1, <2>3, <3>4, PushMeans
    <2>4. ASSUME folded = {}, stack' = Append(Pop(2), new) PROVE AreMeant'
      <3>1. new.mean = mean /\ new.kind # "range"
        BY DEF Node
      <3>2. mean.limits = {} => Valued(new)
        BY <2>1, <2>4, InstructionIsValued
      <3>. HIDE DEF new
      <3>3. MeantElement(new)
        BY <3>1, <3>2, ValuedIsMeant
      <3>. QED  BY <1>1, <2>4, <3>3, PushMeans
    <2>. QED  BY <1>2, <1>5, <2>3, <2>4
  <1>. QED  BY <1>2, <1>5, <1>6

(* A bound that is cast to a wider integer type keeps its value. *)
LEMMA BoundIsValued ==
    ASSUME NEW n, IsExpression(n), n.mean.limits = {} => Valued(n), NEW t, NEW type,
           \/ t = n.type /\ type = n.type
           \/ {n.type, t} \subseteq Integers /\ Rank(n.type) <= Rank(t)
           \/ {n.type, type, t} \cap (Integers \cup RealTypes) = {}
    PROVE  Bounded(cast(n, t), type)
  <1>1. IsNode(n) /\ (n.mean.limits = {} => n.cast \in {None, n.type})
    BY DEF IsExpression, IsTyped
  <1>2. CASE n.type = t
    <2>1. cast(n, t) = n
      BY <1>2 DEF cast
    <2>2. IsBoundOf(n, type) \/ n.mean.limits # {}
      BY <1>1, <1>2 DEF IsBoundOf
    <2>. QED  BY <2>1, <2>2 DEF Bounded
  <1>3. CASE n.type # t
    <2>. DEFINE k == [n EXCEPT !.cast = t]
    <2>1. cast(n, t) = k
      <3>1. t \notin RealTypes
        BY <1>3 DEF Integers, RealTypes
      <3>. QED  BY <1>3, <3>1 DEF cast
    <2>2. /\ (isLiteral(k) <=> isLiteral(n))
          /\ k.type = n.type /\ k.cast = t /\ k.val = n.val /\ k.code = n.code /\ k.mean = n.mean
      BY <1>1, CastNode
    <2>. HIDE DEF k
    <2>3. Valued(n) => Valued(k)
      BY <2>2 DEF Valued, ValuedAt
    <2>4. IsBoundOf(k, type)
      BY <1>3, <2>2 DEF IsBoundOf
    <2>. QED  BY <2>1, <2>2, <2>3, <2>4 DEF Bounded
  <1>. QED  BY <1>2, <1>3

LEMMA RangeMeans ==
    ASSUME IInv, AreMeant, onRangeExpression
    PROVE  AreMeant' /\ phase' # "assigned"
  <1>. DEFINE l == Top(2)
              r == Top(1)
              lower == IF Size[l.type] < Size[r.type] THEN cast(l, r.type) ELSE l
              upper == IF Size[l.type] > Size[r.type] THEN cast(r, l.type) ELSE r
              type == IF Size[l.type] < Size[r.type] THEN r.type ELSE l.type
              element == [kind |-> "range", lower |-> lower, upper |-> upper, type |-> type]
  <1>1. AreExpressions(2) /\ 2 \in 0 .. Len(stack) /\ IsExpression(l) /\ IsExpression(r)
    BY TopNodes DEF onRangeExpression
  <1>2. /\ phase' # "assigned"
        /\ \/ stack' = <<>>
           \/ /\ {l.type, r.type} \subseteq Integers \/ {l.type, r.type} = {"CHAR"}
              /\ stack' = Append(Pop(2), element)
    BY DEF onRangeExpression, Push, Stop
  <1>3. l.mean.limits = {} => Valued(l)
    BY <1>1, TopIsValued
  <1>4. r.mean.limits = {} => Valued(r)
    BY <1>1, TopIsValued
  <1>. HIDE DEF l, r
  <1>5. CASE stack' = <<>>
    BY <1>2, <1>5, EmptyMeans
  <1>6. ASSUME {l.type, r.type} \subseteq Integers \/ {l.type, r.type} = {"CHAR"}, stack' = Append(Pop(2), element)
        PROVE  AreMeant'
    <2>1. /\ lower = cast(l, l.type) \/ (lower = cast(l, r.type) /\ Size[l.type] < Size[r.type])
          /\ upper = cast(r, r.type) \/ (upper = cast(r, l.type) /\ Size[r.type] < Size[l.type])
          /\ type \in {l.type, r.type}
      <3>1. Size[l.type] \in Nat /\ Size[r.type] \in Nat
        <4>1. \A t \in Integers \cup {"CHAR"} : Size[t] \in Nat
          BY DEF Size, Integers
        <4>. QED  BY <1>6, <4>1
      <3>. QED  BY <3>1 DEF cast
    <2>. HIDE DEF lower, upper, type
    <2>2. CASE {l.type, r.type} = {"CHAR"}
      <3>1. l.type = "CHAR" /\ r.type = "CHAR" /\ "CHAR" \notin Integers \cup RealTypes
        BY <2>2 DEF Integers, RealTypes
      <3>2. Bounded(cast(l, "CHAR"), "CHAR")
        BY <1>1, <1>3, <3>1, BoundIsValued
      <3>3. Bounded(cast(r, "CHAR"), "CHAR")
        BY <1>1, <1>4, <3>1, BoundIsValued
      <3>4. type = "CHAR" /\ lower = cast(l, "CHAR") /\ upper = cast(r, "CHAR")
        BY <2>1, <3>1
      <3>5. Bounded(lower, type) /\ Bounded(upper, type)
        BY <3>2, <3>3, <3>4
      <3>6. MeantElement(element)
        BY <3>5 DEF MeantElement
      <3>. HIDE DEF element
      <3>. QED  BY <1>1, <1>6, <3>6, PushMeans
    <2>3. CASE {l.type, r.type} \subseteq Integers
      <3>1. \A s, t \in Integers : Size[s] < Size[t] => Rank(s) <= Rank(t)
        BY Ranks DEF Integers, Size
      <3>2. \A s \in Integers : Rank(s) <= Rank(s)
        BY Ranks DEF Integers
      <3>3. Bounded(lower, type)
        <4>1. PICK t \in {l.type, r.type} : lower = cast(l, t) /\ Rank(l.type) <= Rank(t)
          BY <2>1, <2>3, <3>1, <3>2
        <4>2. Bounded(cast(l, t), type)
          BY <1>1, <1>3, <2>3, <4>1, BoundIsValued
        <4>. QED  BY <4>1, <4>2
      <3>4. Bounded(upper, type)
        <4>1. PICK t \in {l.type, r.type} : upper = cast(r, t) /\ Rank(r.type) <= Rank(t)
          BY <2>1, <2>3, <3>1, <3>2
        <4>2. Bounded(cast(r, t), type)
          BY <1>1, <1>4, <2>3, <4>1, BoundIsValued
        <4>. QED  BY <4>1, <4>2
      <3>5. MeantElement(element)
        BY <3>3, <3>4 DEF MeantElement
      <3>. HIDE DEF element
      <3>. QED  BY <1>1, <1>6, <3>5, PushMeans
    <2>. QED  BY <1>6, <2>2, <2>3
  <1>. QED  BY <1>2, <1>5, <1>6

LEMMA SetMeans ==
    ASSUME IInv, AreMeant, NEW n \in 0 .. 2, onSetExpression(n)
    PROVE  AreMeant' /\ phase' # "assigned"
  <1>. DEFINE elements == SubSeq(stack, Len(stack) - n + 1, Len(stack))
              mean == SetMean(elements)
              bits == UNION {ElementBits(elements[k]) : k \in DOMAIN elements}
              node == IF \A k \in DOMAIN elements : IsConstant(elements[k]) THEN Literal(bits, "SET", mean)
                      ELSE Node("SET", SetExpressionCode(elements), mean)
  <1>1. n \in 0 .. Len(stack)
    BY StackIsSequence DEF onSetExpression
  <1>2. /\ phase' # "assigned"
        /\ \/ stack' = <<>>
           \/ (\A k \in DOMAIN elements : ~ElementError(elements[k])) /\ stack' = Append(Pop(n), node)
    BY DEF onSetExpression, Push, Count
  <1>3. /\ IsFiniteSet(DOMAIN elements)
        /\ \A k \in DOMAIN elements : IsElement(elements[k]) /\ MeantElement(elements[k])
    <2>1. /\ DOMAIN elements = 1 .. Len(elements) /\ Len(elements) \in Nat
          /\ \A k \in DOMAIN elements : \E i \in DOMAIN stack : elements[k] = stack[i]
      BY <1>1, ElementsOfSet
    <2>. HIDE DEF elements
    <2>2. \A k \in Nat : IsFiniteSet(1 .. k)
      BY FS_Interval
    <2>3. IsFiniteSet(DOMAIN elements)
      BY <2>1, <2>2
    <2>. QED  BY <2>1, <2>3 DEF IInv, AreMeant
  <1>4. mean = SetMean(elements) /\ bits = UNION {ElementBits(elements[k]) : k \in DOMAIN elements}
    OBVIOUS
  <1>. HIDE DEF elements, mean, bits
  <1>5. CASE stack' = <<>>
    BY <1>2, <1>5, EmptyMeans
  <1>6. CASE (\A k \in DOMAIN elements : ~ElementError(elements[k])) /\ stack' = Append(Pop(n), node)
    <2>1. node.kind # "range" /\ node.mean = mean
      BY DEF Literal, Node
    <2>2. mean.limits = {} => Valued(node)
      BY <1>3, <1>4, <1>6, SetIsValued
    <2>. HIDE DEF node
    <2>3. MeantElement(node) /\ stack' = Append(Pop(n), node)
      BY <1>6, <2>1, <2>2, ValuedIsMeant
    <2>. QED  BY <1>1, <1>2, <2>3, PushMeans
  <1>. QED  BY <1>2, <1>5, <1>6

(* A type that takes an expression in an assignment is one that keeps what   *)
(* it means, if it fits where it may not.                                    *)
LEMMA AssignedFits ==
    ASSUME NEW s \in Types, NEW t, isTypeIncluded(s, t), {t, s} \subseteq Numeric, s # t,
           NEW u, Includes(s, u), NEW v \in ValuesOf(s), Fit(v, s) = v,
           t \in RealTypes \cup {"BYTE"} => Fit(v, t) # Undef
    PROVE  IsCast(s, t) /\ Fit(v, t) # Undef
  <1>1. IsCast(s, t)
    BY DEF isTypeIncluded, IsCast, Integers, RealTypes
  <1>2. CASE t \in RealTypes \cup {"BYTE"}
    BY <1>1, <1>2
  <1>3. CASE t \notin RealTypes \cup {"BYTE"}
    <2>1. t \in Integers /\ t # "BYTE" /\ t \in Types
      BY <1>3 DEF Numeric, Types
    <2>2. s \in Integers \cup {"BYTE"} /\ Rank(s) <= Rank(t)
      <3>1. s \in Integers \cup {"BYTE"} /\ (s \in Integers => Size[s] <= Size[t])
        BY <2>1 DEF isTypeIncluded, Integers, RealTypes
      <3>2. \A x, y \in Integers : Size[x] <= Size[y] => Rank(x) <= Rank(y)
        BY Ranks DEF Integers, Size
      <3>3. \A y \in Integers : Rank("BYTE") <= Rank(y)
        BY Ranks DEF Integers
      <3>. QED  BY <2>1, <3>1, <3>2, <3>3
    <2>3. Includes(t, s)
      <3>1. s \notin RealTypes /\ t \notin RealTypes
        BY <2>1, <2>2 DEF Integers, RealTypes
      <3>. QED  BY <2>2, <3>1 DEF Includes
    <2>4. v # Undef
      BY ValuesAreDefined
    <2>5. Fit(v, t) = v
      BY <2>3, <2>4, FitsLarger
    <2>. QED  BY <1>1, <2>4, <2>5
  <1>. QED  BY <1>2, <1>3

(* What an assignment stores *)
LEMMA AssignedIsMeant ==
    ASSUME NEW n, IsExpression(n), n.mean.limits = {}, Valued(n), NEW type, isAssignmentCompatible(type, n),
           ~IsInexact(n, type), NEW m \in DOMAIN Memories,
           NEW v, v = Fit(Fit(n.mean.at[m].v, n.mean.type), IF type = "BYTE" THEN "BYTE" ELSE n.mean.type),
           v # Undef, type \notin RealTypes \/ Fit(v, type) # Undef
    PROVE  Denoted(Operand(cast(n, type)).at[m].v, type) = v
  <1>. DEFINE d == n.mean.at[m].v
              s == n.type
  <1>1. IsTyped(n) /\ s \in Types /\ Includes(s, n.mean.type) /\ n.cast \in {None, s}
    BY DEF IsExpression, IsTyped, IsNode
  <1>2. Meant(n, m) /\ v = d /\ (type \in RealTypes \cup {"BYTE"} => Fit(d, type) # Undef)
    <2>. DEFINE fit == Fit(d, n.mean.type)
                t == IF type = "BYTE" THEN "BYTE" ELSE n.mean.type
    <2>1. v = Fit(fit, t)
      OBVIOUS
    <2>. HIDE DEF fit, t
    <2>2. v = fit /\ fit # Undef
      BY <2>1, FitIsSame
    <2>3. v = d
      <3>. HIDE DEF d
      <3>. QED  BY <2>2, FitIsSame DEF fit
    <2>4. type = "BYTE" => Fit(d, type) # Undef
      <3>. HIDE DEF d
      <3>. QED  BY <2>1, <2>2, <2>3 DEF t
    <2>. QED  BY <2>2, <2>3, <2>4 DEF fit, Meant
  <1>3. d \in ValuesOf(s) /\ Fit(d, s) = d
    BY <1>1, <1>2, NodeYields
  <1>4. s = type \/ ({type, s} \subseteq Numeric /\ isTypeIncluded(s, type))
    BY <1>1 DEF isAssignmentCompatible
  <1>5. type \in Types /\ (s = type \/ (IsCast(s, type) /\ Fit(d, type) # Undef))
    <2>1. CASE s = type
      BY <1>1, <2>1
    <2>2. CASE s # type
      <3>. HIDE DEF d, s
      <3>1. IsCast(s, type) /\ Fit(d, type) # Undef
        BY <1>1, <1>2, <1>3, <1>4, <2>2, AssignedFits
      <3>. QED  BY <3>1 DEF IsCast, Types
    <2>. QED  BY <2>1, <2>2
  <1>. DEFINE x == Operand(cast(n, type)).at[m]
  <1>6. d \in ValuesOf(type) /\ Yields(x, type, d, n.mean.at[m].calls)
    BY <1>2, <1>5, OperandYields
  <1>7. Holds(x.v, type, d)
    BY <1>6 DEF Yields
  <1>. HIDE DEF x, d, s
  <1>8. x.v # Undef
    BY <1>5, <1>6, <1>7, HeldIsDefined
  <1>9. Denoted(x.v, type) = d
    BY <1>7, <1>8 DEF Holds, Denoted
  <1>. QED  BY <1>2, <1>9 DEF x

LEMMA AssignmentMeans ==
    ASSUME IInv, AreMeant, NEW type, onAssignment(type)
    PROVE  AreMeant' /\ AssignmentKeepsValue'
  <1>1. CASE stack' = <<>> /\ phase' = "rejected"
    BY <1>1, EmptyMeans, ParsingMeans
  <1>2. CASE /\ isAssignmentCompatible(type, Top(1)) /\ stack' = stack /\ phase' = "assigned" /\ Len(stack) = 1
             /\ stored' = [type |-> type, code |-> Operand(cast(Top(1), type))] /\ AreExpressions(1)
    <2>1. AreMeant'
      BY <1>2 DEF AreMeant
    <2>. DEFINE n == Top(1)
    <2>2. stack'[1] = n /\ n = stack[1]
      BY <1>2 DEF Top
    <2>3. IsExpression(n)
      BY <1>2, TopNodes
    <2>4. n.mean.limits = {} => Valued(n)
      BY <1>2, TopIsValued
    <2>5. stored'.type = type /\ stored'.code = Operand(cast(n, type))
      BY <1>2
    <2>. HIDE DEF n
    <2>6. ASSUME n.mean.limits = {}, ~IsInexact(n, type), NEW m \in DOMAIN Memories
          PROVE  LET v == Fit(Fit(n.mean.at[m].v, n.mean.type), IF type = "BYTE" THEN "BYTE" ELSE n.mean.type)
                 IN  v # Undef /\ (type \notin RealTypes \/ Fit(v, type) # Undef)
                       => Denoted(Operand(cast(n, type)).at[m].v, type) = v
      BY <1>2, <2>3, <2>4, <2>6, AssignedIsMeant DEF n
    <2>7. AssignmentKeepsValue'
      BY <2>2, <2>5, <2>6 DEF AssignmentKeepsValue, IsInexact
    <2>. QED  BY <2>1, <2>7
  <1>. QED  BY <1>1, <1>2 DEF onAssignment, Stop

-----------------------------------------------------------------------------
(* The invariants *)

(* The inductive invariant: the expressions that the parser holds have, in   *)
(* every memory, a meaning of their type, and literals and code this value,  *)
(* whatever was folded, cast or left out on the way.                         *)
THEOREM MeaningInvariant == Spec => []MInv
  <1>1. Init => MInv
    <2>1. Init => DOMAIN stack = {} /\ phase # "assigned"
      BY EmptySeq DEF Init
    <2>. QED  BY <2>1, EmptySeq DEF MInv, IInv, AreMeant, AssignmentKeepsValue, Init
  <1>2. MInv /\ IInv' /\ [Next]_vars => MInv'
    <2>. SUFFICES ASSUME MInv, IInv', [Next]_vars PROVE AreMeant' /\ AssignmentKeepsValue'
      BY DEF MInv
    <2>. USE DEF MInv
    <2>1. ASSUME NEW type \in DOMAIN Literals, NEW value \in Literals[type], onLiteral(type, value)
          PROVE  AreMeant' /\ AssignmentKeepsValue'
      BY <2>1, LiteralMeans, ParsingMeans
    <2>2. ASSUME NEW x \in DOMAIN VarType \ Functions, onQualifiedExpression(x)
          PROVE  AreMeant' /\ AssignmentKeepsValue'
      <3>1. MeantElement(Reference(x, 0))
        BY ReferenceIsValued
      <3>2. stack' = Append(Pop(0), Reference(x, 0)) /\ phase' = "parsing"
        BY <2>2 DEF onQualifiedExpression, Push, Count
      <3>. QED  BY <3>1, <3>2, StackIsSequence, PushMeans, ParsingMeans
    <2>3. ASSUME NEW f \in Functions, onCall(f)
          PROVE  AreMeant' /\ AssignmentKeepsValue'
      <3>1. MeantElement(Reference(f, 1))
        BY ReferenceIsValued, ExpressionsAssumption
      <3>2. stack' = Append(Pop(0), Reference(f, 1)) /\ phase' = "parsing"
        BY <2>3 DEF onCall, Push, Count
      <3>. QED  BY <3>1, <3>2, StackIsSequence, PushMeans, ParsingMeans
    <2>4. ASSUME NEW op \in {"-", "~"}, onUnaryExpression(op) PROVE AreMeant' /\ AssignmentKeepsValue'
      BY <2>4, UnaryMeans, ParsingMeans
    <2>5. ASSUME NEW op \in Relations \cup {"IN", "+", "-", "*", "/", "DIV", "MOD", "&", "OR"}, onBinaryExpression(op)
          PROVE AreMeant' /\ AssignmentKeepsValue'
      BY <2>5, BinaryMeans, ParsingMeans
    <2>6. ASSUME onRangeExpression PROVE AreMeant' /\ AssignmentKeepsValue'
      BY <2>6, RangeMeans, ParsingMeans
    <2>7. ASSUME NEW n \in 0 .. 2, onSetExpression(n) PROVE AreMeant' /\ AssignmentKeepsValue'
      BY <2>7, SetMeans, ParsingMeans
    <2>8. ASSUME NEW type \in Targets, onAssignment(type) PROVE AreMeant' /\ AssignmentKeepsValue'
      BY <2>8, AssignmentMeans
    <2>9. CASE UNCHANGED vars
      BY <2>9 DEF vars, AreMeant, AssignmentKeepsValue
    <2>. QED  BY <2>1, <2>2, <2>3, <2>4, <2>5, <2>6, <2>7, <2>8, <2>9 DEF Next
  <1>. QED  BY <1>1, <1>2, ExpressionInvariant, PTL DEF Spec

(* Code computes what the expression means and calls the functions it names  *)
(* as often, and does not trap, where that is a value of its type and the    *)
(* compiler does not depart from the language: for any widths of the types,  *)
(* variables, literals and expressions, of any size.                         *)
THEOREM GeneratedIsAlwaysMeant == Spec => []GeneratedIsMeant
  <1>1. MInv => GeneratedIsMeant
    <2>. SUFFICES ASSUME MInv, NEW k \in DOMAIN stack, stack[k].kind # "range", stack[k].mean.limits = {},
                         NEW m \in DOMAIN Memories, Meant(stack[k], m)
                  PROVE  LET n == stack[k]
                             v == Fit(n.mean.at[m].v, n.mean.type)
                         IN  Denoted(n.code.at[m].v, n.type) = v /\ n.code.at[m].calls = n.mean.at[m].calls
      BY DEF GeneratedIsMeant, AllExpressions, IsMeant, Agrees, Meant
    <2>. DEFINE n == stack[k]
                d == n.mean.at[m].v
                c == n.code.at[m]
                calls == n.mean.at[m].calls
    <2>1. IsTyped(n) /\ Valued(n)
      BY DEF MInv, IInv, AreMeant, IsElement, IsExpression, MeantElement
    <2>2. n.type \in Types
      BY <2>1 DEF IsTyped, IsNode
    <2>3. d \in ValuesOf(n.type) /\ Yields(c, n.type, d, calls)
      BY <2>1, NodeYields
    <2>4. Fit(d, n.mean.type) = d
      <3>1. Fit(d, n.mean.type) # Undef
        BY DEF Meant
      <3>. HIDE DEF d
      <3>. QED  BY <3>1, FitIsSame
    <2>5. c.calls = calls /\ Holds(c.v, n.type, d)
      <3>. HIDE DEF c, d, calls
      <3>. QED  BY <2>3 DEF Yields
    <2>6. Denoted(c.v, n.type) = d
      <3>. HIDE DEF c, d, n
      <3>1. c.v # Undef
        BY <2>2, <2>3, <2>5, HeldIsDefined
      <3>. QED  BY <2>5, <3>1 DEF Holds, Denoted
    <2>. QED  BY <2>4, <2>5, <2>6
  <1>. QED  BY <1>1, MeaningInvariant, PTL

(* An assignment that is accepted stores what the expression means, if it    *)
(* fits: for any widths, variables, literals and expressions.                *)
THEOREM AssignmentAlwaysKeepsValue == Spec => []AssignmentKeepsValue
  <1>1. MInv => AssignmentKeepsValue
    BY DEF MInv
  <1>. QED  BY <1>1, MeaningInvariant, PTL

=============================================================================
