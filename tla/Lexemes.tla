------------------------------ MODULE Lexemes ------------------------------
(***************************************************************************)
(* The vocabulary of the language, as a report would define it, without    *)
(* any state: which texts are identifiers, numbers, strings and symbols,   *)
(* what they stand for, and where comments begin and end.  The scanner is  *)
(* compared with it.                                                       *)
(***************************************************************************)
EXTENDS Integers, Sequences, FiniteSets, SequencesExt, TLC

CONSTANTS CharBits,     \* width of a character literal
          ShortBits, IntBits, LongBits,  \* widths of the integer types
          FloatLow, FloatHigh,           \* the powers of ten that the real types reach
          DoubleLow, DoubleHigh

ASSUME WidthsAssumption == /\ {CharBits, ShortBits, IntBits, LongBits} \subseteq Nat \ {0}
                           /\ ShortBits < IntBits /\ IntBits < LongBits /\ CharBits < LongBits

ASSUME RangesAssumption == /\ {FloatLow, FloatHigh, DoubleLow, DoubleHigh} \subseteq Int
                           /\ DoubleLow <= FloatLow /\ FloatHigh <= DoubleHigh

Newline == "\n"
Blanks == {" ", Newline}
Quote == "\""
Backslash == "\\"

Digits == {"0", "1", "2", "3", "4", "5", "6", "7", "8", "9"}
HexLetters == {"A", "B", "C", "D", "E", "F", "a", "b", "c", "d", "e", "f"}
HexDigits == Digits \cup HexLetters
Letters == HexLetters \cup {"H", "I", "N", "O", "R", "X", "g", "n"}
Keywords == {<<"O", "R">>, <<"I", "F">>, <<"O", "F">>, <<"D", "O">>, <<"I", "N">>}

Singles == {"&", "*", "/", "+", "-", "=", "#", "<", ">", ";", ",", ":", ".", "(", ")",
            "[", "]", "{", "}", "^", "|", "~"}
(* The symbols of several characters, and their names. *)
Compound == [s \in {<<"<", "=">>, <<">", "=">>, <<":", "=">>, <<".", ".">>, <<".", ".", ".">>} |->
               CASE s = <<"<", "=">> -> "<="
                 [] s = <<">", "=">> -> ">="
                 [] s = <<":", "=">> -> ":="
                 [] s = <<".", ".">> -> ".."
                 [] s = <<".", ".", ".">> -> "..."]

MaxSigned(bits) == 2 ^ (bits - 1) - 1
MaxUnsigned(bits) == 2 ^ bits - 1
AsSigned(n, bits) == IF n % (2 ^ bits) > MaxSigned(bits) THEN (n % (2 ^ bits)) - 2 ^ bits ELSE n % (2 ^ bits)

Consists(s, S) == \A k \in DOMAIN s : s[k] \in S
From(s, k) == SubSeq(s, k, Len(s))

DigitValue == [c \in HexDigits |->
    CHOOSE n \in 0 .. 15 : c \in <<{"0"}, {"1"}, {"2"}, {"3"}, {"4"}, {"5"}, {"6"}, {"7"}, {"8"}, {"9"},
                                  {"A", "a"}, {"B", "b"}, {"C", "c"}, {"D", "d"}, {"E", "e"}, {"F", "f"}>>[n + 1]]
ValueIn(base, s) ==
    LET value[n \in 0 .. Len(s)] == IF n = 0 THEN 0 ELSE base * value[n - 1] + DigitValue[s[n]]
    IN  value[Len(s)]

-----------------------------------------------------------------------------
IsIdent(s) == s # <<>> /\ s[1] \in Letters \cup {"_"} /\ Consists(s, Letters \cup Digits \cup {"_"})

IsDecimal(s) == s # <<>> /\ Consists(s, Digits) /\ ValueIn(10, s) <= MaxSigned(LongBits)

(* digit {hexDigit} and a suffix *)
IsHex(s, suffix, bits) ==
    /\ Len(s) > 1 /\ s[1] \in Digits /\ Consists(Front(s), HexDigits) /\ Last(s) = suffix
    /\ ValueIn(16, Front(s)) <= MaxUnsigned(bits)

LongScales == {"D", "d"}
Scales == LongScales \cup {"E", "e"}
IsScale(s) == \/ s = <<>>
              \/ /\ s[1] \in Scales
                 /\ LET digits == IF Len(s) > 1 /\ s[2] \in {"+", "-"} THEN From(s, 3) ELSE From(s, 2)
                    IN  digits # <<>> /\ Consists(digits, Digits)

HasRealForm(s) == \E point \in 2 .. Len(s) :
    /\ s[point] = "." /\ Consists(SubSeq(s, 1, point - 1), Digits)
    /\ \E last \in point .. Len(s) :
         Consists(SubSeq(s, point + 1, last), Digits) /\ IsScale(From(s, last + 1))

(* The power of ten that the kth character of a real number counts *)
Scale(s) ==
    LET scales == {k \in DOMAIN s : s[k] \in Scales}
        at == CHOOSE k \in scales : TRUE
        signed == s[at + 1] \in {"+", "-"}
        size == ValueIn(10, From(s, IF signed THEN at + 2 ELSE at + 1))
    IN  IF scales = {} THEN 0 ELSE IF s[at + 1] = "-" THEN -size ELSE size
Weight(s, k) ==
    LET point == CHOOSE i \in DOMAIN s : s[i] = "."
    IN  Scale(s) + point - k - IF k < point THEN 1 ELSE 0

(* Its digits that are not zero *)
Significant(s) == {k \in DOMAIN s : s[k] \in Digits \ {"0"} /\ \A i \in 1 .. k : s[i] \notin Scales}
Exceeds(s, high) == \E k \in Significant(s) : Weight(s, k) > high
Vanishes(s, low) == \A k \in Significant(s) : Weight(s, k) < low

IsReal(s) == HasRealForm(s) /\ ~Exceeds(s, DoubleHigh)

(* Escaped(s)[k]: the k-th character follows the backslash of an escape. *)
Escaped(s) == LET escaped[k \in 1 .. Len(s)] ==
                    k > 1 /\ s[k - 1] = Backslash /\ ~escaped[k - 1]
              IN  escaped

IsString(s) == /\ Len(s) > 1 /\ s[1] = Quote /\ Last(s) = Quote
               /\ \A k \in 2 .. Len(s) : s[k] = Quote => (Escaped(s)[k] <=> k < Len(s))

IsNumber(s) == IsDecimal(s) \/ IsHex(s, "H", LongBits) \/ IsHex(s, "X", CharBits) \/ IsReal(s)
IsLexeme(s) == \/ IsIdent(s) \/ IsNumber(s) \/ IsString(s)
               \/ Len(s) = 1 /\ s[1] \in Singles
               \/ s \in DOMAIN Compound

-----------------------------------------------------------------------------
(* What a lexeme stands for. *)

EscapeValue == [c \in {"n", Quote, Backslash} |-> IF c = "n" THEN Newline ELSE c]
(* The characters of a string: an escape of two characters stands for one. *)
Contents(s) ==
    LET value(k) == IF ~Escaped(s)[k] THEN IF s[k] = Backslash THEN <<>> ELSE <<s[k]>>
                    ELSE IF s[k] \in DOMAIN EscapeValue THEN <<EscapeValue[s[k]]>>
                    ELSE <<Backslash, s[k]>>
        from[k \in 2 .. Len(s)] == IF k = Len(s) THEN <<>> ELSE value(k) \o from[k + 1]
    IN  from[2]

(* The smallest real type, unless the scale asks for the larger one: the     *)
(* digits stand for the exact number, and none of them for a number that is  *)
(* too small for both types.                                                 *)
RealMeaning(s) ==
    LET long == Range(s) \cap LongScales # {}
        fits == ~Exceeds(s, FloatHigh) /\ (Vanishes(s, FloatLow) => Vanishes(s, DoubleLow))
    IN  [kind |-> IF long \/ ~fits THEN "double" ELSE "real",
         value |-> IF Vanishes(s, DoubleLow) THEN <<>> ELSE s]

IntegerKind(short, int) == IF short THEN "short" ELSE IF int THEN "int" ELSE "long"

Meaning(s) ==
    CASE s \in Keywords -> [kind |-> "keyword", value |-> s]
      [] s \notin Keywords /\ IsIdent(s) -> [kind |-> "ident", value |-> s]
      [] IsDecimal(s) -> LET n == ValueIn(10, s)
                         IN  [kind |-> IntegerKind(n <= MaxSigned(ShortBits), n <= MaxSigned(IntBits)), value |-> n]
      [] IsHex(s, "H", LongBits) ->
           LET n == ValueIn(16, Front(s))
           IN  [kind |-> IntegerKind(n <= MaxUnsigned(ShortBits), n <= MaxUnsigned(IntBits)), value |-> n]
      [] IsHex(s, "X", CharBits) -> [kind |-> "char", value |-> ValueIn(16, Front(s))]
      [] IsReal(s) -> RealMeaning(s)
      [] IsString(s) -> LET c == Contents(s)
                        IN  [kind |-> IF Len(c) < 2 THEN "char" ELSE "string", value |-> c]
      [] Len(s) = 1 /\ s[1] \in Singles -> [kind |-> s[1], value |-> s]
      [] s \in DOMAIN Compound -> [kind |-> Compound[s], value |-> s]

-----------------------------------------------------------------------------
(* Comments nest.  What is known after a character of a text: how many     *)
(* comments are open, and where the last bracket ended.                    *)
After(s, before, k) ==
    LET pair(c, d) == before.ended # k - 1 /\ s[k - 1] = c /\ s[k] = d
    IN  IF pair("(", "*") THEN [open |-> before.open + 1, ended |-> k]
        ELSE IF pair("*", ")") /\ before.open > 0 THEN [open |-> before.open - 1, ended |-> k]
        ELSE before
(* The same for the kth character of a text that is read from `from' on. *)
Nesting(s, from) ==
    LET after[k \in from - 1 .. Len(s)] ==
          IF k = from - 1 THEN [open |-> 0, ended |-> k] ELSE After(s, after[k - 1], k)
    IN  after

(* The text between two places is blank but for comments and the           *)
(* characters at `bad'.                                                    *)
IsGap(s, from, to, bad) ==
    LET after == Nesting(s, from)
        inComment(k) == \/ after[k].open > 0 \/ after[k - 1].open > 0
                        \/ k < to /\ s[k] = "(" /\ after[k + 1].open > 0
    IN  /\ after[to].open = 0
        /\ \A k \in from .. to : s[k] \in Blanks \/ k \in bad \/ inComment(k)

(* The place of the kth character of a text. *)
Line(s, k) == 1 + Cardinality({i \in 1 .. k - 1 : s[i] = Newline})
Column(s, k) == LET ends == {0} \cup {i \in 1 .. k - 1 : s[i] = Newline}
                IN  k - (CHOOSE i \in ends : \A j \in ends : j <= i)
=============================================================================
