----------------------------- MODULE Arithmetic -----------------------------
(***************************************************************************)
(* The arithmetic of the compiler and of the code it generates: two's      *)
(* complement integers of w bits, C++ and LLVM division, and sets as words *)
(* of w bits, that is, as the sets of the bits that are one.               *)
(***************************************************************************)
EXTENDS Integers

Signed(w) == -(2 ^ (w - 1)) .. 2 ^ (w - 1) - 1
Wrap(n, w) == ((n + 2 ^ (w - 1)) % 2 ^ w) - 2 ^ (w - 1)
Abs(n) == IF n < 0 THEN -n ELSE n

(* Quotient and remainder of C++ and of sdiv and srem: rounded to zero. *)
SDiv(x, y) == IF (x < 0) = (y < 0) THEN Abs(x) \div Abs(y) ELSE -(Abs(x) \div Abs(y))
SRem(x, y) == x - y * SDiv(x, y)

-----------------------------------------------------------------------------
(* DIV and MOD of constants, and as instructions *)

floor_div(x, y) ==
    LET d == SDiv(x, y)
    IN  IF SRem(x, y) # 0 THEN d - (IF (x < 0) # (y < 0) THEN 1 ELSE 0) ELSE d

euclidean_mod(x, y) == LET r == SRem(x, y) IN IF r < 0 THEN r + y ELSE r

(* The sign of x xor y, spread over all bits, is added unless the division is exact. *)
createDiv(x, y) ==
    LET div == SDiv(x, y)
        sign == IF (x < 0) # (y < 0) THEN -1 ELSE 0
    IN  (IF x - div * y = 0 THEN 0 ELSE sign) + div

createMod(x, y) == LET rem == SRem(x, y) IN (IF rem < 0 THEN y ELSE 0) + rem

-----------------------------------------------------------------------------
(* Sets *)

Ones(w) == 0 .. w - 1
Shl(s, n, w) == {i + n : i \in s} \cap Ones(w)
LShr(s, n) == {i \in {j - n : j \in s} : i >= 0}

(* {lower .. upper} of constants, as shifts of a bitset, ... *)
RangeLiteral(lower, upper, w) ==
    LShr(Shl(LShr(Ones(w), lower), w - 1 - upper + lower, w), w - 1 - upper)

(* ... and as instructions, which are undefined when a shift is too far. *)
RangeShifts(lower, upper, w) == {lower, w - 1 - upper + lower}
RangeExpression(lower, upper, w) ==
    Shl(LShr(Shl(Ones(w), lower, w), w - 1 - upper + lower), lower, w)
=============================================================================
