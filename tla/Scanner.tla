------------------------------ MODULE Scanner ------------------------------
(***************************************************************************)
(* The scanner, one iteration of its loops per step: a stream of           *)
(* characters with one character ch_ of look-ahead that keeps its value at *)
(* the end of the file, and the loops of scanToken, scanComment,           *)
(* scanIdent, scanNumber and scanString.                                   *)
(***************************************************************************)
EXTENDS Lexemes, TLC

CONSTANT Files          \* texts to be scanned

ASSUME FilesAssumption == \A f \in Files : f \in Seq(STRING)

VARIABLES file,
          in,           \* the stream: characters read, ch_, eof_, lineNo_, charNo_
          mode,         \* the loop that the scanner is in, or how it ended
          depth,        \* calls of scanComment
          begin,        \* the place where the current token begins
          lexeme,       \* the characters it has collected
          real,         \* isFloat of scanNumber
          tokens,       \* the tokens so far
          bad           \* the characters that were reported

vars == <<file, in, mode, depth, begin, lexeme, real, tokens, bad>>

Ended == {"done", "exit"}

-----------------------------------------------------------------------------
(* The stream *)

(* Mutant: the line ends when its last character is read. *)
ReadLineEarly(s) ==
    IF s.at < Len(file)
      THEN LET c == file[s.at + 1]
           IN  [s EXCEPT !.at = @ + 1, !.ch = c,
                         !.line = IF c = Newline THEN @ + 1 ELSE @,
                         !.col = IF c = Newline THEN 1 ELSE @ + 1]
      ELSE [s EXCEPT !.eof = TRUE]
(* Counting stops at the end of the file, where the code goes on. *)
Read(s) ==
    IF s.at < Len(file)
      THEN [s EXCEPT !.at = @ + 1, !.ch = file[s.at + 1],
                     !.line = IF s.ch = Newline THEN @ + 1 ELSE @,
                     !.col = IF s.ch = Newline THEN 1 ELSE @ + 1]
      ELSE [s EXCEPT !.eof = TRUE]

(* Back to the position at: neither ch_ nor the column goes back, and at *)
(* the end of the file the stream has failed and stays where it is.      *)
Seek(s, at) == IF s.eof THEN s ELSE [s EXCEPT !.at = at]

LastRead(s) == IF s.eof THEN s.at ELSE s.at - 1

(* The token from begin to the character before ch_. *)
Token(start, s, ok, meaning) ==
    [kind |-> meaning.kind, value |-> meaning.value, from |-> start.at, to |-> LastRead(s),
     line |-> start.line, col |-> start.col, ok |-> ok]

Emit(start, s, ok, meaning) ==
    /\ tokens' = Append(tokens, Token(start, s, ok, meaning))
    /\ in' = s
    /\ mode' = "scan"

Loop(name, s) == mode' = name /\ in' = s

-----------------------------------------------------------------------------
(* scanToken *)

SkipBlank == /\ mode = "scan" /\ ~in.eof /\ in.ch \in Blanks
             /\ in' = Read(in)
             /\ UNCHANGED <<file, mode, depth, begin, lexeme, real, tokens, bad>>

BadCharacter == /\ mode = "scan" /\ ~in.eof
                /\ in.ch \notin Blanks \cup Letters \cup Digits \cup Singles \cup {"_", Quote}
                /\ bad' = bad \cup {in.at}
                /\ in' = Read(in)
                /\ UNCHANGED <<file, mode, depth, begin, lexeme, real, tokens>>

Symbol(chars, s) ==
    Emit(in, s, TRUE, [kind |-> IF Len(chars) = 1 THEN chars[1] ELSE Compound[chars], value |-> chars])

scanSymbol ==
    /\ mode = "scan" /\ ~in.eof /\ in.ch \in Singles
    /\ LET r1 == Read(in)
           r2 == Read(r1)
           r3 == Read(r2)
       IN  \/ in.ch \notin {"<", ">", ":", ".", "("} /\ Symbol(<<in.ch>>, r1)
           \/ in.ch = "(" /\ r1.ch # "*" /\ Symbol(<<"(">>, r1)
           \/ in.ch \in {"<", ">", ":"} /\ r1.ch # "=" /\ Symbol(<<in.ch>>, r1)
           \/ in.ch \in {"<", ">", ":"} /\ r1.ch = "=" /\ Symbol(<<in.ch, "=">>, r2)
           \/ in.ch = "." /\ ~(~r1.eof /\ r1.ch = ".") /\ Symbol(<<".">>, r1)
           \/ in.ch = "." /\ ~r1.eof /\ r1.ch = "." /\ ~(~r2.eof /\ r2.ch = ".")
                /\ Symbol(<<".", ".">>, r2)
           \/ in.ch = "." /\ ~r1.eof /\ r1.ch = "." /\ ~r2.eof /\ r2.ch = "."
                /\ Symbol(<<".", ".", ".">>, r3)
    /\ UNCHANGED <<file, depth, begin, lexeme, real, bad>>

EndOfFile == /\ mode = "scan" /\ in.eof
             /\ tokens' = Append(tokens, Token(in, in, TRUE, [kind |-> "eof", value |-> <<>>]))
             /\ mode' = "done"
             /\ UNCHANGED <<file, in, depth, begin, lexeme, real, bad>>

-----------------------------------------------------------------------------
(* scanComment: the depth is the number of its active calls. *)

BeginComment == /\ mode = "scan" /\ ~in.eof /\ in.ch = "(" /\ Read(in).ch = "*"
                /\ begin' = in /\ depth' = 1
                /\ Loop("comment", Read(Read(in)))
                /\ UNCHANGED <<file, lexeme, real, tokens, bad>>

(* Mutant: a comment in a comment is text. *)
OpenFlat == /\ mode = "comment" /\ in.ch = "("
            /\ in' = Read(in)
            /\ UNCHANGED <<file, mode, depth, begin, lexeme, real, tokens, bad>>
OpenComment ==
    /\ mode = "comment" /\ in.ch = "("
    /\ LET r == Read(in)
       IN  IF r.ch = "*" THEN in' = Read(r) /\ depth' = depth + 1
                         ELSE in' = r /\ UNCHANGED depth
    /\ UNCHANGED <<file, mode, begin, lexeme, real, tokens, bad>>

(* The return from the outermost call goes on with scanToken. *)
CloseComment ==
    /\ mode = "comment" /\ in.ch = "*"
    /\ LET r == Read(in)
       IN  \/ r.ch = ")" /\ in' = Read(r) /\ depth' = depth - 1
                /\ mode' = IF depth = 1 THEN "scan" ELSE "comment"
           \/ r.ch # ")" /\ in' = r /\ mode' = (IF r.eof THEN "exit" ELSE "comment") /\ UNCHANGED depth
    /\ UNCHANGED <<file, begin, lexeme, real, tokens, bad>>

(* Mutant: the end of the file is not looked for. *)
SkipCommentAlways ==
    /\ mode = "comment" /\ in.ch \notin {"(", "*"}
    /\ in' = Read(in)
    /\ UNCHANGED <<file, mode, depth, begin, lexeme, real, tokens, bad>>
SkipComment ==
    /\ mode = "comment" /\ in.ch \notin {"(", "*"}
    /\ IF in.eof THEN mode' = "exit" /\ UNCHANGED in
                 ELSE in' = Read(in) /\ UNCHANGED mode
    /\ UNCHANGED <<file, depth, begin, lexeme, real, tokens, bad>>

-----------------------------------------------------------------------------
BeginIdent == /\ mode = "scan" /\ ~in.eof /\ in.ch \in Letters \cup {"_"}
              /\ begin' = in /\ lexeme' = <<in.ch>>
              /\ Loop("ident", Read(in))
              /\ UNCHANGED <<file, depth, real, tokens, bad>>

scanIdent ==
    /\ mode = "ident"
    /\ \/ /\ ~in.eof /\ in.ch \in Letters \cup Digits \cup {"_"}
          /\ lexeme' = Append(lexeme, in.ch)
          /\ Loop("ident", Read(in)) /\ UNCHANGED tokens
       \/ /\ ~(~in.eof /\ in.ch \in Letters \cup Digits \cup {"_"})
          /\ Emit(begin, in, TRUE, [kind |-> IF lexeme \in Keywords THEN "keyword" ELSE "ident", value |-> lexeme])
          /\ UNCHANGED lexeme
    /\ UNCHANGED <<file, depth, begin, real, bad>>

-----------------------------------------------------------------------------
(* scanNumber *)

BeginNumber == /\ mode = "scan" /\ ~in.eof /\ in.ch \in Digits
               /\ begin' = in /\ lexeme' = <<>> /\ real' = FALSE
               /\ Loop("number", in)
               /\ UNCHANGED <<file, depth, tokens, bad>>

InNumber == ~in.eof /\ in.ch \in HexDigits

(* Mutant: a point always belongs to the number. *)
PointAlways ==
    /\ mode = "number" /\ InNumber
    /\ LET r == Read(in)
           point == r.ch = "."
           next == IF point THEN Read(r) ELSE r
       IN  /\ real' = (real \/ point)
           /\ lexeme' = lexeme \o <<in.ch>> \o IF point THEN <<".">> ELSE <<>>
           /\ in' = next
    /\ UNCHANGED <<file, mode, depth, begin, tokens, bad>>

(* A digit, and the point or the sign after it.  A point before a second *)
(* one is not part of the number.                                        *)
ScanDigit ==
    /\ mode = "number" /\ InNumber
    /\ LET r == Read(in)
           point == r.ch = "."
           range == point /\ Read(r).ch = "."
           next == IF range THEN Seek(Read(r), r.at) ELSE IF point THEN Read(r) ELSE r
           sign == ~range /\ (real \/ point) /\ next.ch \in {"+", "-"}
       IN  /\ real' = (real \/ (point /\ ~range))
           /\ lexeme' = lexeme \o <<in.ch>> \o (IF point /\ ~range THEN <<".">> ELSE <<>>)
                               \o (IF sign THEN <<next.ch>> ELSE <<>>)
           /\ in' = IF sign THEN Read(next) ELSE next
    /\ UNCHANGED <<file, mode, depth, begin, tokens, bad>>

(* The smallest type whose largest value is not exceeded *)
Integer(n, short, int) ==
    IF n > int THEN [kind |-> "long", value |-> AsSigned(n, LongBits)]
    ELSE IF n > short THEN [kind |-> "int", value |-> AsSigned(n, IntBits)]
    ELSE [kind |-> "short", value |-> AsSigned(n, ShortBits)]

(* boost::convert fails on a text that is not a number of the base as a *)
(* whole, or whose value needs more bits.                               *)
Converts(s, base, bits) ==
    /\ s # <<>> /\ Consists(s, IF base = 16 THEN HexDigits ELSE Digits)
    /\ ValueIn(base, s) <= MaxUnsigned(bits)

(* As a float, unless the scale asks for a double, or only a double is not *)
(* zero, or the number is too large.  The digits stand for what is kept of *)
(* them, and zero has none.                                                *)
FloatToken(s) ==
    LET Fits(high) == HasRealForm(lexeme) /\ ~Exceeds(lexeme, high)
        Rounded(low) == IF Vanishes(lexeme, low) THEN <<>> ELSE lexeme
        isLong == Range(lexeme) \cap LongScales # {}
        float == ~isLong /\ Fits(FloatHigh) /\ (Vanishes(lexeme, FloatLow) => Vanishes(lexeme, DoubleLow))
        double == Fits(DoubleHigh)
    IN  Emit(begin, s, float \/ double,
             [kind |-> IF float THEN "real" ELSE "double",
              value |-> IF float THEN Rounded(FloatLow) ELSE IF double THEN Rounded(DoubleLow) ELSE <<>>])

IntegerToken(s, base) ==
    LET ok == Converts(lexeme, base, LongBits)
        largest(bits) == IF base = 16 THEN MaxUnsigned(bits) ELSE MaxSigned(bits)
    IN  Emit(begin, s, ok, Integer(IF ok THEN ValueIn(base, lexeme) ELSE 0, largest(ShortBits), largest(IntBits)))

CharToken(s) ==
    LET ok == Converts(lexeme, 16, CharBits)
    IN  Emit(begin, s, ok, [kind |-> "char", value |-> IF ok THEN ValueIn(16, lexeme) ELSE 0])

FinishNumber ==
    /\ mode = "number" /\ ~InNumber
    /\ \/ real /\ in.ch \in {"H", "X"} /\ Emit(begin, Read(in), FALSE, [kind |-> "undefined", value |-> <<>>])
       \/ real /\ in.ch \notin {"H", "X"} /\ FloatToken(in)
       \/ ~real /\ in.ch = "X" /\ CharToken(Read(in))
       \/ ~real /\ in.ch = "H" /\ IntegerToken(Read(in), 16)
       \/ ~real /\ in.ch \notin {"H", "X"} /\ IntegerToken(in, 10)
    /\ UNCHANGED <<file, depth, begin, lexeme, real, bad>>

-----------------------------------------------------------------------------
(* scanString *)

BeginString == /\ mode = "scan" /\ ~in.eof /\ in.ch = Quote
               /\ begin' = in /\ lexeme' = <<>>
               /\ Loop("string", Read(in))
               /\ UNCHANGED <<file, depth, real, tokens, bad>>

(* At the end of the file the loop goes on for ever, and the characters *)
(* that it collects there are left out.                                 *)
StringCharacter ==
    /\ mode = "string" /\ in.ch # Quote
    /\ LET escape == in.ch = Backslash
           r == IF escape THEN Read(in) ELSE in
       IN  /\ in' = Read(r)
           /\ lexeme' = IF in.eof THEN lexeme
                        ELSE Append(lexeme, in.ch) \o (IF escape THEN <<r.ch>> ELSE <<>>)
    /\ UNCHANGED <<file, mode, depth, begin, real, tokens, bad>>

(* boost::replace_all of a pattern of two characters: from left to right, *)
(* without overlaps, and what it has put in is not searched.              *)
replace_all(s, c, by) ==
    LET from[k \in 1 .. Len(s) + 1] ==
          IF k > Len(s) THEN <<>>
          ELSE IF k < Len(s) /\ s[k] = Backslash /\ s[k + 1] = c THEN by \o from[k + 2]
          ELSE <<s[k]>> \o from[k + 1]
    IN  from[1]

(* Mutant: the quotes are forgotten. *)
unescapeAllButQuotes(s) ==
    LET replace(t, c) == replace_all(t, c, <<EscapeValue[c]>>)
    IN  replace(replace(replace_all(s, "0", <<>>), Backslash), "n")
(* One escape after the other, over the whole text; "\0" is the empty *)
(* string for C++.                                                    *)
unescape(s) ==
    LET replace(t, c) == replace_all(t, c, <<EscapeValue[c]>>)
    IN  replace(replace(replace(replace_all(s, "0", <<>>), Quote), Backslash), "n")

FinishString ==
    /\ mode = "string" /\ in.ch = Quote
    /\ LET contents == unescape(lexeme)
       IN  Emit(begin, Read(in), TRUE,
                [kind |-> IF Len(contents) < 2 THEN "char" ELSE "string", value |-> contents])
    /\ UNCHANGED <<file, depth, begin, lexeme, real, bad>>

-----------------------------------------------------------------------------
Start == [at |-> 0, ch |-> "none", eof |-> FALSE, line |-> 1, col |-> 0]

Init == /\ file \in Files
        /\ in = Read(Start)
        /\ mode = "scan" /\ depth = 0 /\ begin = Start /\ lexeme = <<>> /\ real = FALSE
        /\ tokens = <<>> /\ bad = {}

scanToken == SkipBlank \/ BadCharacter \/ scanSymbol \/ BeginComment \/ BeginIdent \/ BeginNumber
               \/ BeginString \/ EndOfFile
scanComment == OpenComment \/ CloseComment \/ SkipComment
scanNumber == ScanDigit \/ FinishNumber
scanString == StringCharacter \/ FinishString

Next == scanToken \/ scanComment \/ scanIdent \/ scanNumber \/ scanString

(* The scanner runs until it returns: nothing else holds it up. *)
Spec == Init /\ [][Next]_vars /\ WF_vars(Next)

-----------------------------------------------------------------------------
Text(t) == SubSeq(file, t.from, t.to)

(* Known departures, each seen in the text itself. *)

(* A sign after a real number without a scale is taken for part of it. *)
SignAfterReal(s) == \E k \in 2 .. Len(s) : s[k] \in {"+", "-"} /\ IsReal(SubSeq(s, 1, k - 1))
(* A point after a number at the very end of a file is lost. *)
PointAtEnd(s, last) == last = Len(file) /\ Last(s) = "."
(* A quote that ends the file closes any string, itself included. *)
QuoteAtEnd(s, last) == last = Len(file) /\ s[1] = Quote
(* A decimal number between the limits of signed and unsigned integers. *)
TooLarge(s) == Consists(s, Digits) /\ ValueIn(10, s) > MaxSigned(LongBits)
(* A hexadecimal number that is only unsigned a number of its type. *)
OnlyUnsigned(m) == m.kind \in {"short", "int", "long"} /\
    m.value > MaxSigned([short |-> ShortBits, int |-> IntBits, long |-> LongBits][m.kind])
(* An escaped backslash before a character that can be escaped, or "\0". *)
EscapesInterfere(s) == s[1] = Quote /\ \E k \in 2 .. Len(s) : s[k - 1] = Backslash /\ s[k] \in {Backslash, "0"}

(* A lexeme that starts where the token starts.  The point of a number is *)
(* not followed by another one.                                           *)
Candidate(from, to) == /\ IsLexeme(SubSeq(file, from, to))
                       /\ ~(to < Len(file) /\ IsReal(SubSeq(file, from, to)) /\ file[to] = "." /\ file[to + 1] = ".")

(* The longest candidate, but for the departures; or a token that is      *)
(* rejected where the longest candidate runs into a letter, a digit or a  *)
(* second point, which no program has.                                    *)
IsLongest(t) ==
    LET lexemes == {to \in t.from .. Len(file) : Candidate(t.from, to)}
        Longest(to) == \A longer \in lexemes : longer <= to
        RunsOn(to) == to < Len(file) /\ file[to + 1] \in Letters \cup Digits \cup {"."}
    IN  t.kind = "eof" \/ PointAtEnd(Text(t), t.to) \/
        IF t.ok THEN \/ t.to \in lexemes /\ Longest(t.to)
                     \/ QuoteAtEnd(Text(t), t.to) \/ TooLarge(Text(t))
                ELSE \/ \A to \in lexemes : Longest(to) => RunsOn(to)
                     \/ SignAfterReal(Text(t))

(* Every token is the longest lexeme of the language that starts at its   *)
(* first character: look-ahead, ranges after numbers and escapes in       *)
(* strings never split or join lexemes.  A number is only rejected where  *)
(* that lexeme runs into what no program has after it.                    *)
TokensAreLongest == \A i \in DOMAIN tokens : IsLongest(tokens[i])

(* Between two tokens, and at the end, there are blanks, nested comments  *)
(* that are closed, and characters that were reported; the scanner gives  *)
(* up only in a comment that is not closed.                               *)
NothingIsLost ==
    LET last(i) == IF i = 0 THEN 0 ELSE tokens[i].to
        gapUntil(i, end) == IsGap(file, last(i - 1) + 1, end, bad)
    IN  /\ \A i \in DOMAIN tokens :
             gapUntil(i, IF tokens[i].kind = "eof" THEN Len(file) ELSE tokens[i].from - 1)
        /\ mode = "exit" => Nesting(file, begin.at)[Len(file)].open > 0

(* A token has the meaning of its text, but for the departures. *)
IsMeant(t) ==
    t.ok /\ t.kind # "eof" /\ IsLexeme(Text(t)) =>
      \/ [kind |-> t.kind, value |-> t.value] = Meaning(Text(t))
      \/ EscapesInterfere(Text(t)) \/ OnlyUnsigned(Meaning(Text(t)))
      \/ PointAtEnd(Text(t), t.to)

(* Every token stands for what its text means: the kind and value of a    *)
(* number, and the characters of a string after the passes that replace   *)
(* escapes.                                                               *)
TokensAreMeant == \A i \in DOMAIN tokens : IsMeant(tokens[i])

(* Tokens know their place, but for the columns after a number that is   *)
(* followed by a range: the point is counted twice.                      *)
PositionsAreExact == \A i \in DOMAIN tokens :
    LET t == tokens[i]
        afterRange == \E k \in 1 .. i - 1 : tokens[k].line = t.line /\ tokens[k + 1].kind \in {"..", "..."}
    IN  t.kind # "eof" => t.line = Line(file, t.from) /\ (t.col = Column(file, t.from) \/ afterRange)

(* Every file is scanned to its end, or to the exit in a comment that is  *)
(* not closed, unless it ends in a string, or in a comment with an        *)
(* opening parenthesis: those two loops do not look for the end.          *)
ScanningEnds == <>(\/ mode \in Ended
                   \/ mode = "string" /\ in.eof
                   \/ mode = "comment" /\ in.eof /\ in.ch = "(")
=============================================================================
