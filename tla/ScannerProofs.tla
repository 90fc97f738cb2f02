---------------------------- MODULE ScannerProofs ----------------------------
(***************************************************************************)
(* Proofs about the scanner, for texts of every length: nothing between    *)
(* two tokens is lost, tokens know their places, and every token is the    *)
(* longest lexeme that begins where it begins and means what its text      *)
(* means.                                                                  *)
(***************************************************************************)
EXTENDS Scanner, SequenceTheorems, FiniteSetTheorems, TLAPS

-----------------------------------------------------------------------------
(* Induction over the natural numbers, for a set.                          *)
LEMMA NatSet ==
    ASSUME NEW S, 0 \in S, \A n \in Nat : n \in S => n + 1 \in S
    PROVE  Nat \subseteq S
  <1> DEFINE T == {n \in Nat : n \notin S}
  <1>1. SUFFICES ASSUME T # {} PROVE FALSE
    OBVIOUS
  <1>2. PICK n \in T : \A m \in T : ~(<<m, n>> \in OpToRel(<, Nat))
    BY <1>1, NatLessThanWellFounded, WFMin
  <1>3. \A m \in T : ~(m < n)
    BY <1>2 DEF OpToRel
  <1>4. n # 0 /\ n - 1 \in Nat /\ n - 1 < n
    BY DEF T
  <1>5. n - 1 \in S
    BY <1>3, <1>4
  <1>6. (n - 1) + 1 \in S
    BY <1>4, <1>5
  <1> QED
    BY <1>4, <1>6

-----------------------------------------------------------------------------
(* Comments                                                                *)

Fresh(from) == [open |-> 0, ended |-> from - 1]
Depths == [open : Nat, ended : Int]

\* A character changes the number of open comments by at most one.
LEMMA AfterType ==
    ASSUME NEW s, NEW k \in Int, NEW before \in Depths
    PROVE  After(s, before, k) \in Depths
  BY DEF After, Depths

\* The function Nesting satisfies its recursive definition.
LEMMA NestingExists ==
    ASSUME NEW s \in Seq(STRING), NEW from \in 1 .. Len(s) + 1
    PROVE  Nesting(s, from) =
             [k \in from - 1 .. Len(s) |->
                IF k = from - 1 THEN Fresh(from) ELSE After(s, Nesting(s, from)[k - 1], k)]
  <1> DEFINE Is(g, n) == g = [k \in from - 1 .. n |-> IF k = from - 1 THEN Fresh(from) ELSE After(s, g[k - 1], k)]
             S == {i \in Nat : \E g : Is(g, from - 1 + i)}
  <1>1. 0 \in S
    <2>1. Is([k \in from - 1 .. from - 1 |-> Fresh(from)], from - 1 + 0)
      OBVIOUS
    <2> QED
      BY <2>1
  <1>2. ASSUME NEW i \in Nat, i \in S PROVE i + 1 \in S
    <2> DEFINE n == from - 1 + i
    <2>1. PICK g : Is(g, n)
      BY <1>2
    <2> DEFINE h == [k \in from - 1 .. n + 1 |-> IF k = n + 1 THEN After(s, g[n], n + 1) ELSE g[k]]
    <2>2. n \in Int /\ from - 1 <= n
      OBVIOUS
    <2>3. \A k \in from - 1 .. n : h[k] = g[k]
      BY <2>2
    <2>4. ASSUME NEW k \in from - 1 .. n + 1
          PROVE  h[k] = IF k = from - 1 THEN Fresh(from) ELSE After(s, h[k - 1], k)
      <3>1. CASE k = n + 1
        BY <2>2, <2>3, <3>1
      <3>2. CASE k # n + 1
        <4>1. k \in from - 1 .. n /\ (k # from - 1 => k - 1 \in from - 1 .. n)
          BY <2>2, <3>2
        <4>2. g[k] = IF k = from - 1 THEN Fresh(from) ELSE After(s, g[k - 1], k)
          BY <2>1, <4>1
        <4> QED
          BY <2>3, <4>1, <4>2
      <3> QED
        BY <3>1, <3>2
    <2>5. Is(h, n + 1)
      BY <2>4, Zenon
    <2>6. n + 1 = from - 1 + (i + 1)
      BY <2>2
    <2> HIDE DEF Is, h, n
    <2>7. Is(h, from - 1 + (i + 1))
      BY <2>5, <2>6
    <2> QED
      BY <2>7
  <1>3. PICK g : Is(g, Len(s))
    <2>1. Len(s) - from + 1 \in Nat /\ from - 1 + (Len(s) - from + 1) = Len(s)
      OBVIOUS
    <2> HIDE DEF Is
    <2>2. Len(s) - from + 1 \in S
      BY <1>1, <1>2, <2>1, NatSet, Zenon
    <2> QED
      BY <2>1, <2>2
  <1> QED
    BY <1>3 DEF Nesting, Fresh

\* What is known after the characters, one after the other.
LEMMA NestingStep ==
    ASSUME NEW s \in Seq(STRING), NEW from \in 1 .. Len(s) + 1
    PROVE  /\ Nesting(s, from)[from - 1] = Fresh(from)
           /\ \A k \in from .. Len(s) : Nesting(s, from)[k] = After(s, Nesting(s, from)[k - 1], k)
           /\ \A k \in from - 1 .. Len(s) : Nesting(s, from)[k] \in Depths
  <1> DEFINE A == Nesting(s, from)
             S == {i \in Nat : \A k \in from - 1 .. Len(s) : k = from - 1 + i => A[k] \in Depths}
  <1>1. A = [k \in from - 1 .. Len(s) |-> IF k = from - 1 THEN Fresh(from) ELSE After(s, A[k - 1], k)]
    BY NestingExists
  <1> HIDE DEF A
  <1>2. A[from - 1] = Fresh(from)
    BY <1>1
  <1>3. \A k \in from .. Len(s) : A[k] = After(s, A[k - 1], k)
    BY <1>1
  <1>4. 0 \in S
    <2>1. A[from - 1] \in Depths
      BY <1>2 DEF Fresh, Depths
    <2>2. \A k \in from - 1 .. Len(s) : k = from - 1 + 0 => k = from - 1
      OBVIOUS
    <2> QED
      BY <2>1, <2>2
  <1>5. ASSUME NEW i \in Nat, i \in S PROVE i + 1 \in S
    <2>1. SUFFICES ASSUME NEW k \in from - 1 .. Len(s), k = from - 1 + (i + 1) PROVE A[k] \in Depths
      OBVIOUS
    <2>2. k \in from .. Len(s) /\ k - 1 \in from - 1 .. Len(s) /\ k - 1 = from - 1 + i
      BY <2>1
    <2>3. A[k - 1] \in Depths
      BY <1>5, <2>2
    <2> QED
      BY <1>3, <2>2, <2>3, AfterType
  <1>6. Nat \subseteq S
    <2> HIDE DEF S
    <2> QED
      BY <1>4, <1>5, NatSet, Zenon
  <1>7. ASSUME NEW k \in from - 1 .. Len(s) PROVE A[k] \in Depths
    <2>1. k - from + 1 \in Nat /\ from - 1 + (k - from + 1) = k
      OBVIOUS
    <2> QED
      BY <1>6, <2>1
  <1> QED
    BY <1>2, <1>3, <1>7 DEF A

-----------------------------------------------------------------------------
(* Gaps                                                                    *)

\* Nothing is a gap.
LEMMA EmptyGap ==
    ASSUME NEW s \in Seq(STRING), NEW e \in 0 .. Len(s), NEW b
    PROVE  IsGap(s, e + 1, e, b)
  <1>1. e + 1 \in 1 .. Len(s) + 1 /\ (e + 1) - 1 = e
    OBVIOUS
  <1>2. Nesting(s, e + 1)[e].open = 0
    <2>1. Nesting(s, e + 1)[(e + 1) - 1] = Fresh(e + 1)
      BY <1>1, NestingStep
    <2> QED
      BY <1>1, <2>1 DEF Fresh
  <1> QED
    BY <1>1, <1>2 DEF IsGap

\* Another report leaves a gap a gap.
LEMMA GapReported ==
    ASSUME NEW s, NEW from, NEW e, NEW b, NEW c, b \subseteq c, IsGap(s, from, e, b)
    PROVE  IsGap(s, from, e, c)
  BY DEF IsGap

\* A blank, or a character that was reported, goes on with a gap.
LEMMA GapNext ==
    ASSUME NEW s \in Seq(STRING), NEW from \in 1 .. Len(s) + 1, NEW e \in from - 1 .. Len(s) - 1, NEW b,
           IsGap(s, from, e, b), s[e + 1] \in Blanks \/ e + 1 \in b, s[e + 1] \notin {"*", ")"}
    PROVE  IsGap(s, from, e + 1, b)
  <1> DEFINE N == Nesting(s, from)
  <1>1. e + 1 \in from .. Len(s) /\ e \in from - 1 .. Len(s) /\ (e + 1) - 1 = e
    OBVIOUS
  <1>2. N[e + 1] = After(s, N[e], e + 1) /\ N[e] \in Depths
    BY <1>1, NestingStep
  <1>3. N[e].open = 0
    BY DEF IsGap
  <1>4. N[e + 1].open = 0
    BY <1>1, <1>2, <1>3 DEF After, Depths
  <1>5. ASSUME NEW k \in from .. e + 1
        PROVE  \/ s[k] \in Blanks \/ k \in b \/ N[k].open > 0 \/ N[k - 1].open > 0
               \/ k < e + 1 /\ s[k] = "(" /\ N[k + 1].open > 0
    <2>1. CASE k = e + 1
      BY <2>1
    <2>2. CASE k # e + 1
      <3>1. k \in from .. e /\ (k < e => k < e + 1)
        BY <2>2
      <3> QED
        BY <3>1 DEF IsGap
    <2> QED
      BY <2>1, <2>2
  <1> QED
    BY <1>4, <1>5 DEF IsGap

\* What character k, the next after i, makes of what is known after i: a
\* comment is opened, or closed, or neither.
Continues(s, from, i, k) ==
    LET before == Nesting(s, from)[i]
        after == Nesting(s, from)[k]
    IN  /\ before \in Depths /\ after \in Depths
        /\ before.ended = i => after = before
        /\ before.ended # i /\ s[i] = "(" /\ s[k] = "*"
             => after.open = before.open + 1 /\ after.ended = k
        /\ before.ended # i /\ s[i] = "*" /\ s[k] = ")" /\ before.open > 0
             => after.open = before.open - 1 /\ after.ended = k
        /\ ~(s[i] = "(" /\ s[k] = "*") /\ ~(s[i] = "*" /\ s[k] = ")") => after = before

\* One character after the other, a comment is opened or closed, or neither.
LEMMA NestingCases ==
    ASSUME NEW s, s \in Seq(STRING), NEW from \in 1 .. Len(s) + 1, NEW i \in from - 1 .. Len(s) - 1,
           NEW k, k = i + 1
    PROVE  Continues(s, from, i, k)
  <1> DEFINE N == Nesting(s, from)
  <1>1. /\ i \in Int /\ k \in Int /\ k - 1 = i
        /\ k \in from .. Len(s) /\ i \in from - 1 .. Len(s) /\ k \in from - 1 .. Len(s)
    OBVIOUS
  <1>2. N[k] = After(s, N[i], k) /\ N[i] \in Depths /\ N[k] \in Depths
    BY <1>1, NestingStep
  <1> HIDE DEF N
  <1> QED
    <2>1. N[i].ended = i => N[k] = N[i]
      BY <1>1, <1>2 DEF After
    <2>2. N[i].ended # i /\ s[i] = "(" /\ s[k] = "*" => N[k].open = N[i].open + 1 /\ N[k].ended = k
      BY <1>1, <1>2 DEF After
    <2>3. N[i].ended # i /\ s[i] = "*" /\ s[k] = ")" /\ N[i].open > 0
            => N[k].open = N[i].open - 1 /\ N[k].ended = k
      BY <1>1, <1>2 DEF After
    <2>4. ~(s[i] = "(" /\ s[k] = "*") /\ ~(s[i] = "*" /\ s[k] = ")") => N[k] = N[i]
      BY <1>1, <1>2 DEF After
    <2> QED
      BY <1>2, <2>1, <2>2, <2>3, <2>4 DEF N, Continues

\* A bracket ends no later than the text that is read.
LEMMA EndedBefore ==
    ASSUME NEW s \in Seq(STRING), NEW from \in 1 .. Len(s) + 1, NEW i \in from - 1 .. Len(s)
    PROVE  Nesting(s, from)[i].ended <= i
  <1> DEFINE N == Nesting(s, from)
             S == {n \in Nat : \A k \in from - 1 .. Len(s) : k = from - 1 + n => N[k].ended <= k}
  <1>1. 0 \in S
    <2>0. N[from - 1] = Fresh(from)
      BY NestingStep
    <2>1. N[from - 1].ended = from - 1
      BY <2>0 DEF Fresh
    <2>2. \A k \in from - 1 .. Len(s) : k = from - 1 + 0 => k = from - 1
      OBVIOUS
    <2> QED
      BY <2>1, <2>2
  <1>2. ASSUME NEW n \in Nat, n \in S PROVE n + 1 \in S
    <2>1. SUFFICES ASSUME NEW k \in from - 1 .. Len(s), k = from - 1 + (n + 1) PROVE N[k].ended <= k
      OBVIOUS
    <2>2. /\ k \in from .. Len(s) /\ k - 1 \in from - 1 .. Len(s) /\ k - 1 = from - 1 + n
      BY <2>1
    <2>3. N[k - 1].ended <= k - 1 /\ N[k] = After(s, N[k - 1], k) /\ N[k - 1] \in Depths
      BY <1>2, <2>2, NestingStep
    <2> HIDE DEF N
    <2> QED
      BY <2>3 DEF After, Depths
  <1>3. Nat \subseteq S
    <2> HIDE DEF S
    <2> QED
      BY <1>1, <1>2, NatSet, Zenon
  <1>4. i - from + 1 \in Nat /\ from - 1 + (i - from + 1) = i
    OBVIOUS
  <1> QED
    BY <1>3, <1>4

\* A first comment has been opened by a bracket that ends at j.
Opened(s, from, j) ==
    /\ Nesting(s, from)[j].open = 1 /\ Nesting(s, from)[j].ended = j
    /\ j < Len(s) => Nesting(s, from)[j + 1].open = 1 /\ Nesting(s, from)[j + 1].ended # j + 1

\* A comment opens after a gap.
LEMMA CommentOpens ==
    ASSUME NEW s, s \in Seq(STRING), NEW from \in 1 .. Len(s) + 1, NEW h \in from - 1 .. Len(s) - 2,
           NEW i, NEW j, i = h + 1, j = i + 1,
           Nesting(s, from)[h].open = 0, s[i] = "(", s[j] = "*"
    PROVE  Opened(s, from, j)
  <1> DEFINE N == Nesting(s, from)
             k == j + 1
  <1>1. /\ i \in from - 1 .. Len(s) - 1 /\ (j < Len(s) => j \in from - 1 .. Len(s) - 1)
        /\ h \in from - 1 .. Len(s)
    OBVIOUS
  <1>2. /\ Continues(s, from, h, i) /\ Continues(s, from, i, j)
        /\ j < Len(s) => Continues(s, from, j, k)
    BY <1>1, NestingCases
  <1>3. N[i].open = 0 /\ N[i].ended # i
    <2>1. N[h].ended <= h /\ N[h].ended \in Int
      BY <1>1, <1>2, EndedBefore DEF Continues, Depths
    <2> QED
      BY <1>2, <2>1 DEF Continues
  <1>4. N[j].open = 1 /\ N[j].ended = j
    BY <1>2, <1>3 DEF Continues
  <1>5. j < Len(s) => N[k].open = 1 /\ N[k].ended # k
    BY <1>1, <1>2, <1>4 DEF Continues
  <1> QED
    BY <1>4, <1>5 DEF Opened

\* A comment after a gap goes on with it, up to the bracket that closes it.
LEMMA CommentCloses ==
    ASSUME NEW s \in Seq(STRING), NEW from \in 1 .. Len(s) + 1, NEW e \in from - 1 .. Len(s), NEW b,
           IsGap(s, from, e, b), s[e + 1] = "(", NEW c \in e + 3 .. Len(s),
           \A k \in e + 2 .. c - 1 : Nesting(s, from)[k].open > 0, Nesting(s, from)[c].open = 0
    PROVE  IsGap(s, from, c, b)
  <1> DEFINE N == Nesting(s, from)
  <1>1. ASSUME NEW k \in from .. c
        PROVE  \/ s[k] \in Blanks \/ k \in b \/ N[k].open > 0 \/ N[k - 1].open > 0
               \/ k < c /\ s[k] = "(" /\ N[k + 1].open > 0
    <2>1. CASE k \in from .. e
      <3>1. k < e => k < c
        BY <2>1
      <3> QED
        BY <2>1, <3>1 DEF IsGap
    <2>2. CASE k = e + 1
      BY <2>2
    <2>3. CASE k \in e + 2 .. c - 1
      BY <2>3
    <2>4. CASE k = c
      BY <2>4
    <2> QED
      BY <2>1, <2>2, <2>3, <2>4
  <1> QED
    BY <1>1 DEF IsGap

-----------------------------------------------------------------------------
(* Lines and columns                                                       *)

\* The next character is on the same line, or on the next.
LEMMA LineNext ==
    ASSUME NEW s \in Seq(STRING), NEW k \in Nat \ {0}
    PROVE  /\ Line(s, 1) = 1 /\ Line(s, k) \in Nat
           /\ Line(s, k + 1) = IF s[k] = Newline THEN Line(s, k) + 1 ELSE Line(s, k)
  <1> DEFINE E(n) == {i \in 1 .. n - 1 : s[i] = Newline}
  <1>1. E(1) = {}
    OBVIOUS
  <1>2. IsFiniteSet(E(k)) /\ Cardinality(E(k)) \in Nat
    <2>1. IsFiniteSet(1 .. k - 1) /\ E(k) \subseteq 1 .. k - 1
      BY FS_Interval
    <2> QED
      BY <2>1, FS_Subset, FS_CardinalityType
  <1>3. E(k + 1) = IF s[k] = Newline THEN E(k) \cup {k} ELSE E(k)
    OBVIOUS
  <1>4. k \notin E(k)
    OBVIOUS
  <1> HIDE DEF E
  <1>5. Cardinality(E(k) \cup {k}) = Cardinality(E(k)) + 1
    BY <1>2, <1>4, FS_AddElement
  <1>6. Cardinality(E(1)) = 0
    BY <1>1, FS_EmptySet
  <1>7. Line(s, 1) = 1 + Cardinality(E(1)) /\ Line(s, k) = 1 + Cardinality(E(k))
          /\ Line(s, k + 1) = 1 + Cardinality(E(k + 1))
    BY DEF Line, E
  <1> QED
    BY <1>2, <1>3, <1>5, <1>6, <1>7

\* Where the last line before a character ends.
LEMMA LastLine ==
    ASSUME NEW s \in Seq(STRING), NEW k \in Nat \ {0}
    PROVE  \E e \in {0} \cup {i \in 1 .. k - 1 : s[i] = Newline} :
             \A j \in {0} \cup {i \in 1 .. k - 1 : s[i] = Newline} : j <= e
  <1> DEFINE ends == {0} \cup {i \in 1 .. k - 1 : s[i] = Newline}
             D == {d \in Nat : k - d \in ends}
  <1>1. k \in D
    OBVIOUS
  <1>2. PICK d \in D : \A m \in D : ~(<<m, d>> \in OpToRel(<, Nat))
    <2>1. D \subseteq Nat /\ D # {}
      BY <1>1
    <2> HIDE DEF D
    <2> QED
      BY <2>1, NatLessThanWellFounded, WFMin
  <1>3. \A m \in D : ~(m < d)
    BY <1>2 DEF OpToRel
  <1>4. ASSUME NEW j \in ends PROVE j <= k - d
    <2>1. j \in Nat /\ j <= k
      OBVIOUS
    <2>2. k - j \in Nat /\ k - (k - j) = j
      BY <2>1
    <2>3. k - j \in D
      BY <2>2
    <2>4. ~(k - j < d) /\ d \in Nat
      BY <1>3, <2>3
    <2> QED
      BY <2>1, <2>4
  <1>5. k - d \in ends
    OBVIOUS
  <1> QED
    BY <1>4, <1>5

\* The next character is in the next column, or in the first.
LEMMA ColumnNext ==
    ASSUME NEW s \in Seq(STRING), NEW k \in Nat \ {0}
    PROVE  /\ Column(s, 1) = 1
           /\ Column(s, k + 1) = IF s[k] = Newline THEN 1 ELSE Column(s, k) + 1
  <1> DEFINE Ends(n) == {0} \cup {i \in 1 .. n - 1 : s[i] = Newline}
             IsLast(n, e) == e \in Ends(n) /\ \A j \in Ends(n) : j <= e
             LastEnd(n) == CHOOSE e \in Ends(n) : \A j \in Ends(n) : j <= e
  <1>1. ASSUME NEW n \in Nat \ {0} PROVE IsLast(n, LastEnd(n))
    <2>1. \E e \in Ends(n) : \A j \in Ends(n) : j <= e
      BY LastLine
    <2> QED
      BY <2>1
  <1>2. ASSUME NEW n \in Nat \ {0}, NEW e, IsLast(n, e) PROVE Column(s, n) = n - e
    <2>0. IsLast(n, LastEnd(n))
      BY <1>1
    <2> HIDE DEF LastEnd
    <2>1. e \in Nat /\ LastEnd(n) \in Nat
      BY <1>2, <2>0
    <2>2. e <= LastEnd(n) /\ LastEnd(n) <= e
      BY <1>2, <2>0
    <2>3. Column(s, n) = n - LastEnd(n)
      BY DEF Column, LastEnd
    <2> QED
      BY <2>1, <2>2, <2>3
  <1>3. IsLast(1, 0)
    OBVIOUS
  <1>4. CASE s[k] = Newline
    <2>1. IsLast(k + 1, k)
      BY <1>4
    <2> HIDE DEF IsLast
    <2> QED
      BY <1>2, <1>3, <1>4, <2>1
  <1>5. CASE s[k] # Newline
    <2>1. PICK e : IsLast(k, e)
      BY <1>1
    <2>2. Ends(k + 1) = Ends(k) /\ e \in Nat
      BY <1>5, <2>1
    <2>3. IsLast(k + 1, e)
      BY <2>1, <2>2
    <2> HIDE DEF IsLast
    <2>4. Column(s, k) = k - e /\ Column(s, k + 1) = (k + 1) - e
      BY <1>2, <2>1, <2>3
    <2> QED
      BY <1>2, <1>3, <1>5, <2>2, <2>4
  <1> QED
    BY <1>4, <1>5

-----------------------------------------------------------------------------
(* The inductive invariant                                                 *)

\* A stream that is at a character of the file, or at its last one when it
\* has ended.
Streams == [at : Nat, ch : STRING \cup {"none"}, eof : BOOLEAN, line : Nat, col : Int]
Positioned(s) == /\ s \in Streams /\ s.at \in 1 .. Len(file) /\ s.ch = file[s.at]
                 /\ s.eof => s.at = Len(file)
                 /\ s.line = Line(file, s.at)
NoText == Len(file) = 0 /\ in.at = 0 /\ in.eof /\ mode \in {"scan", "done"}

Modes == {"scan", "comment", "ident", "number", "string"} \cup Ended
Inside == {"comment", "ident", "number", "string"}
Shape == /\ file \in Seq(STRING)
         /\ mode \in Modes
         /\ in \in Streams
         /\ Positioned(in) \/ NoText
         /\ mode \in Inside => Positioned(begin)
         /\ depth \in Nat
         /\ tokens \in Seq({tokens[i] : i \in DOMAIN tokens})

\* Where the last token ends; what follows up to a place is a gap.
To == IF tokens = <<>> THEN 0 ELSE tokens[Len(tokens)].to
Gap(e) == /\ To \in Nat /\ To <= e /\ e <= Len(file)
          /\ IsGap(file, To + 1, e, bad)

\* The comments that are open at ch_ of s are d calls of scanComment, for a
\* text that is read from `from' on and has a comment at start.
Depth(from, start, s, d) ==
    LET N == Nesting(file, from)
    IN  /\ N[s.at].open = d
        /\ ~s.eof => N[s.at].ended # s.at
        /\ \A k \in start + 1 .. s.at : N[k].open > 0
InComment == /\ depth > 0 /\ file[begin.at] = "(" /\ begin.at < in.at
             /\ Depth(To + 1, begin.at, in, depth) /\ Depth(begin.at, begin.at, in, depth)

Gaps == /\ mode = "scan" => Gap(LastRead(in))
        /\ mode \in Inside => Gap(begin.at - 1)
        /\ mode = "comment" => InComment

\* The column is right, unless a range came before on the line, or comes
\* next after a number.
Exact(s) == s.col = Column(file, s.at)
RangeOn(line) == \E k \in 1 .. Len(tokens) - 1 : tokens[k].line = line /\ tokens[k + 1].kind \in {"..", "..."}
Placed(s) == Exact(s) \/ RangeOn(s.line)
BeforeRange == /\ ~in.eof /\ in.at < Len(file) /\ file[in.at] = "." /\ file[in.at + 1] = "."
               /\ \/ mode = "number"
                  \/ mode = "scan" /\ tokens # <<>> /\ tokens[Len(tokens)].line = in.line
Places == /\ mode \notin Ended => Placed(in) \/ BeforeRange \/ NoText
          /\ mode \in Inside => Placed(begin)
          /\ mode = "number" => begin.line = in.line

IInv == Shape /\ Gaps /\ Places /\ NothingIsLost /\ PositionsAreExact

-----------------------------------------------------------------------------
(* Reading a character                                                     *)

\* From the characters of a file, reading leads to the next one, or to the
\* end of the file, and keeps count of lines and columns.
LEMMA ReadNext ==
    ASSUME file \in Seq(STRING), NEW s, Positioned(s)
    PROVE  /\ Positioned(Read(s))
           /\ s.at < Len(file) => /\ Read(s).at = s.at + 1 /\ ~Read(s).eof /\ ~s.eof
                                  /\ Read(s).ch = file[s.at + 1]
           /\ s.at = Len(file) => Read(s) = [s EXCEPT !.eof = TRUE]
           /\ ~s.eof => LastRead(Read(s)) = s.at
           /\ s.ch # Newline => Read(s).line = s.line
           /\ Exact(s) => Exact(Read(s))
           /\ Read(s).line = s.line \/ Exact(Read(s))
  <1>1. s \in Streams /\ s.at \in 1 .. Len(file) /\ Len(file) \in Nat
    BY DEF Positioned
  <1>2. CASE s.at < Len(file)
    <2> DEFINE c == file[s.at + 1]
               line == IF s.ch = Newline THEN s.line + 1 ELSE s.line
               col == IF s.ch = Newline THEN 1 ELSE s.col + 1
               r == [s EXCEPT !.at = @ + 1, !.ch = c, !.line = line, !.col = col]
    <2>1. Read(s) = r
      BY <1>2 DEF Read
    <2>2. c \in STRING /\ line \in Nat /\ col \in Int
      BY <1>1, <1>2 DEF Streams
    <2>3. s.ch = file[s.at] /\ s.line = Line(file, s.at) /\ ~s.eof
      BY <1>1, <1>2 DEF Positioned, Streams
    <2> HIDE DEF c, line, col
    <2>4. /\ r \in Streams /\ r.at = s.at + 1 /\ r.ch = c /\ r.eof = s.eof
          /\ r.line = line /\ r.col = col
      <3>1. r.at = s.at + 1 /\ r.ch = c /\ r.line = line /\ r.col = col
        BY <1>1 DEF Streams
      <3>2. r.eof = s.eof
        BY <1>1 DEF Streams
      <3>3. s.at + 1 \in Nat
        BY <1>1
      <3>4. r \in Streams
        BY <1>1, <2>2, <3>3 DEF Streams
      <3> QED
        BY <3>1, <3>2, <3>4
    <2> HIDE DEF r
    <2>a. s.at \in Nat \ {0}
      BY <1>1
    <2>5. r.line = Line(file, s.at + 1)
      BY <2>a, <2>3, <2>4, LineNext DEF line
    <2>6. Column(file, s.at + 1) = IF s.ch = Newline THEN 1 ELSE Column(file, s.at) + 1
      BY <2>a, <2>3, ColumnNext
    <2>7. Positioned(r)
      BY <1>1, <1>2, <2>3, <2>4, <2>5 DEF Positioned, c
    <2>8. LastRead(r) = s.at
      BY <1>1, <2>3, <2>4 DEF LastRead
    <2>9. (Exact(s) => Exact(r)) /\ (r.line = s.line \/ Exact(r))
      BY <2>4, <2>6 DEF Exact, line, col
    <2> QED
      BY <1>2, <2>1, <2>3, <2>4, <2>7, <2>8, <2>9 DEF c, line
  <1>3. CASE s.at = Len(file)
    <2>1. Read(s) = [s EXCEPT !.eof = TRUE]
      BY <1>1, <1>3 DEF Read
    <2>2. Positioned(Read(s)) /\ LastRead(Read(s)) = s.at /\ Read(s).line = s.line
      BY <1>1, <1>3, <2>1 DEF Positioned, LastRead, Streams
    <2>3. Exact(s) => Exact(Read(s))
      BY <1>1, <2>1 DEF Exact, Streams
    <2> QED
      BY <1>1, <1>3, <2>1, <2>2, <2>3
  <1> QED
    BY <1>1, <1>2, <1>3

\* A place stays one that is known, whatever is read.
LEMMA ReadPlaced ==
    ASSUME file \in Seq(STRING), NEW s, Positioned(s), Placed(s)
    PROVE  Placed(Read(s))
  BY ReadNext DEF Placed

-----------------------------------------------------------------------------
(* Tokens                                                                  *)

\* A token is put after the others.
LEMMA Appended ==
    ASSUME NEW s, s \in Seq({s[i] : i \in DOMAIN s}), NEW t
    PROVE  LET r == Append(s, t)
           IN  /\ DOMAIN s = 1 .. Len(s) /\ Len(s) \in Nat
               /\ DOMAIN r = 1 .. Len(s) + 1 /\ Len(r) = Len(s) + 1
               /\ \A i \in 1 .. Len(s) : r[i] = s[i]
               /\ r[Len(s) + 1] = t /\ r # <<>>
               /\ r \in Seq({r[i] : i \in DOMAIN r})
  <1> DEFINE T == {s[i] : i \in DOMAIN s} \cup {t}
             r == Append(s, t)
  <1>1. s \in Seq(T) /\ t \in T
    OBVIOUS
  <1> HIDE DEF T
  <1>2. r \in Seq(T) /\ DOMAIN r = 1 .. Len(s) + 1 /\ Len(r) = Len(s) + 1 /\ r[Len(s) + 1] = t
          /\ \A i \in 1 .. Len(s) : r[i] = s[i]
    BY <1>1, AppendProperties
  <1>3. DOMAIN s = 1 .. Len(s) /\ Len(s) \in Nat
    BY <1>1
  <1>4. r # <<>>
    BY <1>2, <1>3
  <1>5. r \in Seq({r[i] : i \in DOMAIN r})
    <2> DEFINE m == Len(s) + 1
               R == {r[i] : i \in 1 .. m}
    <2> HIDE DEF r
    <2>0. r \in [1 .. Len(r) -> T] /\ Len(r) = m
      BY <1>2
    <2>1. r = [i \in 1 .. m |-> r[i]] /\ m \in Nat
      BY <1>3, <2>0
    <2>2. \A i \in 1 .. m : r[i] \in R
      OBVIOUS
    <2> HIDE DEF R, m
    <2>3. r \in [1 .. m -> R]
      BY <2>1, <2>2
    <2>4. r \in Seq(R)
      BY <2>1, <2>3
    <2> QED
      BY <1>2, <2>4 DEF R, m, r
  <1> QED
    BY <1>2, <1>3, <1>4, <1>5

\* What a token must fit: the gap before it, and its place.
Ranges == {"..", "..."}
AfterNumber(line) == tokens # <<>> /\ tokens[Len(tokens)].line = line
Fits(t) == /\ To + 1 \in Nat
           /\ IsGap(file, To + 1, IF t.kind = "eof" THEN Len(file) ELSE t.from - 1, bad)
           /\ t.kind # "eof" =>
                /\ t.line = Line(file, t.from)
                /\ \/ t.col = Column(file, t.from) \/ RangeOn(t.line)
                   \/ AfterNumber(t.line) /\ t.kind \in Ranges

\* With a token that fits, nothing is lost and places are exact.
LEMMA TokenAdded ==
    ASSUME Shape, NothingIsLost, PositionsAreExact, NEW t, Fits(t),
           tokens' = Append(tokens, t), UNCHANGED <<file, bad>>, mode' # "exit"
    PROVE  /\ NothingIsLost' /\ PositionsAreExact' /\ To' = t.to
           /\ tokens' \in Seq({tokens'[i] : i \in DOMAIN tokens'})
           /\ tokens' # <<>> /\ tokens'[Len(tokens')] = t
           /\ \A line : RangeOn(line) => RangeOn(line)'
           /\ AfterNumber(t.line) /\ t.kind \in Ranges => RangeOn(t.line)'
  <1> DEFINE n == Len(tokens)
  <1>1. /\ DOMAIN tokens = 1 .. n /\ n \in Nat /\ DOMAIN tokens' = 1 .. n + 1 /\ Len(tokens') = n + 1
        /\ \A i \in 1 .. n : tokens'[i] = tokens[i]
        /\ tokens'[n + 1] = t /\ tokens' # <<>>
        /\ tokens' \in Seq({tokens'[i] : i \in DOMAIN tokens'})
    <2>1. tokens \in Seq({tokens[i] : i \in DOMAIN tokens})
      BY DEF Shape
    <2>2. LET r == Append(tokens, t)
          IN  /\ DOMAIN tokens = 1 .. Len(tokens) /\ Len(tokens) \in Nat
              /\ DOMAIN r = 1 .. Len(tokens) + 1 /\ Len(r) = Len(tokens) + 1
              /\ \A i \in 1 .. Len(tokens) : r[i] = tokens[i]
              /\ r[Len(tokens) + 1] = t /\ r # <<>>
              /\ r \in Seq({r[i] : i \in DOMAIN r})
      BY <2>1, Appended
    <2> QED
      BY <2>2
  <1>2. To = IF n = 0 THEN 0 ELSE tokens[n].to
    BY <1>1 DEF To, Shape
  <1>3. To' = t.to
    BY <1>1 DEF To
  <1>4. tokens # <<>> => n \in 1 .. n /\ n - 1 + 1 = n
    BY <1>1 DEF Shape
  <1>5. ASSUME NEW line, RangeOn(line) PROVE RangeOn(line)'
    <2>1. PICK k \in 1 .. n - 1 : tokens[k].line = line /\ tokens[k + 1].kind \in Ranges
      BY <1>5 DEF RangeOn, Ranges
    <2>2. k \in 1 .. n /\ k + 1 \in 1 .. n /\ k \in 1 .. (n + 1) - 1
      BY <1>1, <2>1
    <2>3. tokens'[k].line = line /\ tokens'[k + 1].kind \in Ranges
      BY <1>1, <2>1, <2>2
    <2> QED
      BY <1>1, <2>2, <2>3 DEF RangeOn, Ranges
  <1>6. ASSUME AfterNumber(t.line), t.kind \in Ranges PROVE RangeOn(t.line)'
    <2>1. n \in 1 .. n /\ n \in 1 .. (n + 1) - 1
      BY <1>1, <1>4, <1>6 DEF AfterNumber
    <2>2. tokens'[n].line = t.line /\ tokens'[n + 1].kind \in Ranges
      BY <1>1, <1>6, <2>1 DEF AfterNumber
    <2> QED
      BY <1>1, <2>1, <2>2 DEF RangeOn, Ranges
  <1>7. NothingIsLost'
    <2> DEFINE last(ts, i) == IF i = 0 THEN 0 ELSE ts[i].to
    <2>1. ASSUME NEW i \in 1 .. n + 1
          PROVE  IsGap(file, last(tokens', i - 1) + 1,
                       IF tokens'[i].kind = "eof" THEN Len(file) ELSE tokens'[i].from - 1, bad)
      <3>1. CASE i = n + 1
        <4>1. i - 1 = n /\ (n # 0 => n \in 1 .. n)
          BY <1>1, <3>1
        <4>2. last(tokens', i - 1) = To
          BY <1>1, <1>2, <4>1
        <4> QED
          BY <1>1, <3>1, <4>2 DEF Fits
      <3>2. CASE i # n + 1
        <4>1. i \in 1 .. n /\ (i - 1 # 0 => i - 1 \in 1 .. n)
          BY <1>1, <3>2
        <4>2. last(tokens', i - 1) = last(tokens, i - 1) /\ tokens'[i] = tokens[i]
          BY <1>1, <4>1
        <4>3. IsGap(file, last(tokens, i - 1) + 1,
                    IF tokens[i].kind = "eof" THEN Len(file) ELSE tokens[i].from - 1, bad)
          BY <1>1, <4>1 DEF NothingIsLost
        <4> QED
          BY <4>2, <4>3
      <3> QED
        BY <3>1, <3>2
    <2> QED
      BY <1>1, <2>1, SMTT(30) DEF NothingIsLost
  <1>8. PositionsAreExact'
    <2>1. ASSUME NEW i \in 1 .. n + 1, tokens'[i].kind # "eof"
          PROVE  /\ tokens'[i].line = Line(file, tokens'[i].from)
                 /\ \/ tokens'[i].col = Column(file, tokens'[i].from)
                    \/ \E k \in 1 .. i - 1 : tokens'[k].line = tokens'[i].line /\ tokens'[k + 1].kind \in Ranges
      <3>1. CASE i = n + 1
        <4>1. tokens'[i] = t /\ i - 1 = Len(tokens') - 1
          BY <1>1, <3>1
        <4>2. t.line = Line(file, t.from) /\ (t.col = Column(file, t.from) \/ RangeOn(t.line)')
          BY <1>5, <1>6, <2>1, <4>1 DEF Fits
        <4> QED
          BY <4>1, <4>2 DEF RangeOn, Ranges
      <3>2. CASE i # n + 1
        <4>1. i \in 1 .. n /\ \A k \in 1 .. i - 1 : k \in 1 .. n /\ k + 1 \in 1 .. n
          BY <1>1, <3>2
        <4>2. /\ tokens[i].kind # "eof" =>
                 /\ tokens[i].line = Line(file, tokens[i].from)
                 /\ \/ tokens[i].col = Column(file, tokens[i].from)
                    \/ \E k \in 1 .. i - 1 : tokens[k].line = tokens[i].line /\ tokens[k + 1].kind \in Ranges
          BY <1>1, <4>1 DEF PositionsAreExact, Ranges
        <4>3. tokens'[i] = tokens[i]
          BY <1>1, <4>1
        <4>4. \A k \in 1 .. i - 1 : tokens'[k] = tokens[k] /\ tokens'[k + 1] = tokens[k + 1]
          BY <1>1, <4>1
        <4> QED
          BY <2>1, <4>2, <4>3, <4>4
      <3> QED
        BY <3>1, <3>2
    <2> QED
      BY <1>1, <2>1 DEF PositionsAreExact, Ranges
  <1> QED
    BY <1>1, <1>3, <1>5, <1>6, <1>7, <1>8

\* Without a token, nothing is lost and places stay exact.
LEMMA NoTokenAdded ==
    ASSUME NothingIsLost, PositionsAreExact, UNCHANGED <<file, tokens>>, bad \subseteq bad',
           mode' = "exit" => Nesting(file, begin'.at)[Len(file)].open > 0
    PROVE  NothingIsLost' /\ PositionsAreExact'
  <1>1. PositionsAreExact'
    BY DEF PositionsAreExact
  <1>2. \A from, to : IsGap(file, from, to, bad) => IsGap(file, from, to, bad')
    BY GapReported
  <1>3. NothingIsLost'
    BY <1>2 DEF NothingIsLost
  <1> QED
    BY <1>1, <1>3

-----------------------------------------------------------------------------
(* Every step keeps the invariant                                          *)

\* The scanner starts at the first character, or at the end of an empty file.
LEMMA InitInvariant ==
    ASSUME Init PROVE IInv
  <1>1. file \in Seq(STRING) /\ Len(file) \in Nat
    BY FilesAssumption DEF Init
  <1>2. Start.at = 0 /\ Start.eof = FALSE /\ Start.line = 1 /\ Start.col = 0 /\ Start.ch = "none"
    BY DEF Start
  <1>3. tokens = <<>> /\ DOMAIN tokens = {} /\ mode = "scan" /\ depth = 0
    BY DEF Init
  <1>4. CASE Len(file) = 0
    <2>1. in = [at |-> 0, ch |-> "none", eof |-> TRUE, line |-> 1, col |-> 0]
      <3>1. in = Read(Start)
        BY DEF Init
      <3>2. Read(Start) = [Start EXCEPT !.eof = TRUE]
        BY <1>2, <1>4 DEF Read
      <3> QED
        BY <3>1, <3>2 DEF Start
    <2>a. in.at = 0 /\ in.eof
      BY <2>1
    <2>b. in \in Streams
      <3>1. 0 \in Nat /\ 1 \in Nat /\ 0 \in Int
        OBVIOUS
      <3> QED
        BY <2>1, <3>1, Zenon DEF Streams
    <2>2. NoText /\ in \in Streams /\ LastRead(in) = 0
      BY <1>3, <1>4, <2>a, <2>b DEF NoText, LastRead
    <2>3. Shape
      BY <1>1, <1>3, <2>2 DEF Shape, Modes, Inside
    <2>4. To = 0 /\ IsGap(file, 0 + 1, 0, bad)
      BY <1>1, <1>3, EmptyGap DEF To
    <2> QED
      BY <1>1, <1>3, <2>2, <2>3, <2>4 DEF IInv, Gaps, Gap, Places, Inside, NothingIsLost, PositionsAreExact
  <1>5. CASE Len(file) # 0
    <2>1. in = [at |-> 1, ch |-> file[1], eof |-> FALSE, line |-> 1, col |-> 1]
      <3>1. in = Read(Start) /\ 0 + 1 = 1
        BY DEF Init
      <3>2. Read(Start) = [Start EXCEPT !.at = 0 + 1, !.ch = file[0 + 1], !.line = 1, !.col = 0 + 1]
        BY <1>1, <1>2, <1>5 DEF Read, Newline
      <3> QED
        BY <3>1, <3>2 DEF Start
    <2>2. file[1] \in STRING /\ 1 \in 1 .. Len(file)
      BY <1>1, <1>5
    <2>3. Line(file, 1) = 1 /\ Column(file, 1) = 1
      BY <1>1, LineNext, ColumnNext
    <2>4. in \in Streams /\ Positioned(in) /\ LastRead(in) = 0
      BY <2>1, <2>2, <2>3 DEF Positioned, Streams, LastRead
    <2>5. Shape
      BY <1>1, <1>3, <2>4 DEF Shape, Modes, Inside
    <2>6. To = 0 /\ IsGap(file, 0 + 1, 0, bad)
      BY <1>1, <1>3, EmptyGap DEF To
    <2>7. Exact(in)
      BY <2>1, <2>3 DEF Exact
    <2> QED
      BY <1>1, <1>3, <2>4, <2>5, <2>6, <2>7
      DEF IInv, Gaps, Gap, Places, Placed, Inside, NothingIsLost, PositionsAreExact
  <1> QED
    BY <1>4, <1>5

\* A token from start to the character before the new ch_.
LEMMA EmitStep ==
    ASSUME IInv, NEW start, NEW s, NEW ok, NEW meaning,
           Emit(start, s, ok, meaning), UNCHANGED <<file, depth, bad>>,
           Positioned(start), Positioned(s), Gap(start.at - 1), meaning.kind # "eof",
           \/ Placed(start) /\ Placed(s)
           \/ /\ Placed(start) /\ s.line = start.line
              /\ ~s.eof /\ s.at < Len(file) /\ file[s.at] = "." /\ file[s.at + 1] = "."
           \/ AfterNumber(start.line) /\ meaning.kind \in Ranges /\ s.line = start.line
    PROVE  IInv'
  <1> DEFINE t == Token(start, s, ok, meaning)
  <1>1. /\ t.kind = meaning.kind /\ t.from = start.at /\ t.to = LastRead(s)
        /\ t.line = start.line /\ t.col = start.col
    BY DEF Token
  <1>2. tokens' = Append(tokens, t) /\ in' = s /\ mode' = "scan" /\ file' = file /\ depth' = depth /\ bad' = bad
    BY DEF Emit
  <1> HIDE DEF t
  <1>3. Shape /\ NothingIsLost /\ PositionsAreExact /\ file \in Seq(STRING) /\ Len(file) \in Nat
    BY DEF IInv, Shape
  <1>4. Fits(t)
    <2>1. To + 1 \in Nat /\ IsGap(file, To + 1, start.at - 1, bad)
      BY DEF Gap
    <2>2. t.line = Line(file, t.from)
      BY <1>1 DEF Positioned
    <2>3. t.col = Column(file, t.from) \/ RangeOn(t.line) \/ (AfterNumber(t.line) /\ t.kind \in Ranges)
      BY <1>1 DEF Placed, Exact
    <2> QED
      BY <1>1, <2>1, <2>2, <2>3 DEF Fits
  <1>5. /\ NothingIsLost' /\ PositionsAreExact' /\ To' = t.to
        /\ tokens' \in Seq({tokens'[i] : i \in DOMAIN tokens'})
        /\ tokens' # <<>> /\ tokens'[Len(tokens')] = t
        /\ \A line : RangeOn(line) => RangeOn(line)'
        /\ AfterNumber(t.line) /\ t.kind \in Ranges => RangeOn(t.line)'
    BY <1>2, <1>3, <1>4, TokenAdded
  <1>6. s \in Streams /\ s.at \in 1 .. Len(file) /\ LastRead(s) \in 0 .. Len(file)
    BY <1>3 DEF Positioned, LastRead, Streams
  <1>7. Positioned(in)'
    BY <1>2 DEF Positioned
  <1>8. Shape'
    BY <1>2, <1>3, <1>5, <1>6, <1>7 DEF Shape, Modes, Inside
  <1>9. Gaps'
    <2>1. LastRead(in)' = LastRead(s)
      BY <1>2 DEF LastRead
    <2>2. IsGap(file, LastRead(s) + 1, LastRead(s), bad)
      BY <1>3, <1>6, EmptyGap
    <2>3. Gap(LastRead(s))'
      BY <1>1, <1>2, <1>3, <1>5, <1>6, <2>2 DEF Gap
    <2> QED
      BY <1>2, <2>1, <2>3 DEF Gaps, Inside
  <1>10. Places'
    <2>1. Placed(in)' \/ BeforeRange'
      <3>1. CASE Placed(s)
        BY <1>2, <1>5, <3>1 DEF Placed, Exact
      <3>2. CASE s.line = start.line /\ ~s.eof /\ s.at < Len(file) /\ file[s.at] = "." /\ file[s.at + 1] = "."
        BY <1>1, <1>2, <1>5, <3>2 DEF BeforeRange
      <3>3. CASE AfterNumber(start.line) /\ meaning.kind \in Ranges /\ s.line = start.line
        BY <1>1, <1>2, <1>5, <3>3 DEF Placed
      <3> QED
        BY <3>1, <3>2, <3>3
    <2> QED
      BY <1>2, <2>1 DEF Places, Inside
  <1> QED
    BY <1>5, <1>8, <1>9, <1>10 DEF IInv

\* The loops that collect a token change nothing but ch_.
LEMMA InsideStep ==
    ASSUME IInv, UNCHANGED <<file, depth, tokens, bad>>, mode' \in {"ident", "number", "string"},
           Positioned(begin'), Placed(begin'), Gap(begin'.at - 1), Positioned(in'),
           mode' = "number" => begin'.line = in'.line,
           \/ Placed(in')
           \/ /\ mode' = "number" /\ ~in'.eof /\ in'.at < Len(file)
              /\ file[in'.at] = "." /\ file[in'.at + 1] = "."
    PROVE  IInv'
  <1>1. NothingIsLost' /\ PositionsAreExact'
    BY NoTokenAdded DEF IInv
  <1>2. Positioned(in)' /\ Positioned(begin)'
    BY DEF Positioned
  <1>3. in' \in Streams
    BY DEF Positioned
  <1>4. Shape'
    BY <1>2, <1>3 DEF IInv, Shape, Modes, Inside
  <1>5. Gap(begin.at - 1)'
    BY DEF Gap, To
  <1>6. mode' # "scan" /\ mode' # "comment" /\ mode' \notin Ended
    BY DEF Ended
  <1>7. Gaps'
    BY <1>5, <1>6 DEF Gaps
  <1>8. Placed(begin)' /\ (Placed(in') => Placed(in)')
    BY DEF Placed, Exact, RangeOn
  <1>9. Places'
    BY <1>6, <1>8 DEF Places, BeforeRange
  <1> QED
    BY <1>1, <1>4, <1>7, <1>9 DEF IInv

\* A place in the scanner's own loop.
LEMMA Scanning ==
    ASSUME IInv, mode = "scan", ~in.eof
    PROVE  /\ file \in Seq(STRING) /\ Len(file) \in Nat
           /\ Positioned(in) /\ in.ch = file[in.at] /\ in.at \in 1 .. Len(file)
           /\ LastRead(in) = in.at - 1 /\ Gap(in.at - 1)
           /\ Placed(in) \/ BeforeRange
           /\ Positioned(Read(in)) /\ (Placed(in) => Placed(Read(in)))
           /\ in.ch # "." => Placed(in)
  <1>1. file \in Seq(STRING) /\ Len(file) \in Nat /\ Positioned(in)
    BY DEF IInv, Shape, NoText
  <1>2. in.ch = file[in.at] /\ in.at \in 1 .. Len(file)
    BY <1>1 DEF Positioned
  <1>3. LastRead(in) = in.at - 1 /\ Gap(in.at - 1)
    BY DEF LastRead, IInv, Gaps
  <1>4. Placed(in) \/ BeforeRange
    BY DEF IInv, Places, Ended, NoText
  <1>5. Positioned(Read(in)) /\ (Placed(in) => Placed(Read(in)))
    BY <1>1, ReadNext, ReadPlaced
  <1>6. in.ch # "." => Placed(in)
    BY <1>2, <1>4 DEF BeforeRange
  <1> QED
    BY <1>1, <1>2, <1>3, <1>4, <1>5, <1>6

\* Blanks and reported characters make the gap longer.
LEMMA SkipStep ==
    ASSUME IInv, SkipBlank \/ BadCharacter
    PROVE  IInv'
  <1> DEFINE r == Read(in)
  <1>1. /\ mode = "scan" /\ ~in.eof /\ in' = r
        /\ UNCHANGED <<file, mode, depth, begin, tokens>> /\ bad \subseteq bad'
    BY DEF SkipBlank, BadCharacter
  <1>2. in.ch \in Blanks \/ in.at \in bad'
    BY DEF SkipBlank, BadCharacter
  <1>3. in.ch \notin {"*", ")", "."}
    BY DEF SkipBlank, BadCharacter, Blanks, Newline, Singles
  <1>4. /\ file \in Seq(STRING) /\ Len(file) \in Nat
        /\ Positioned(in) /\ in.ch = file[in.at] /\ in.at \in 1 .. Len(file)
        /\ Gap(in.at - 1) /\ Placed(r) /\ Positioned(r) /\ LastRead(r) = in.at
    BY <1>1, <1>3, Scanning, ReadNext
  <1>5. NothingIsLost' /\ PositionsAreExact'
    BY <1>1, NoTokenAdded DEF IInv
  <1>6. Shape'
    <2>1. Positioned(in)' /\ r \in Streams
      BY <1>1, <1>4 DEF Positioned
    <2> QED
      BY <1>1, <2>1 DEF IInv, Shape, Inside
  <1>7. Gap(LastRead(in))'
    <2>0. LastRead(in)' = in.at
      BY <1>1, <1>4 DEF LastRead
    <2>1. IsGap(file, To + 1, in.at - 1, bad') /\ To \in Nat /\ To <= in.at - 1
      BY <1>1, <1>4, GapReported DEF Gap
    <2> DEFINE from == To + 1
               e == in.at - 1
    <2>2. from \in 1 .. Len(file) + 1 /\ e \in from - 1 .. Len(file) - 1 /\ e + 1 = in.at
      BY <1>4, <2>1
    <2>3. IsGap(file, from, e, bad') /\ (file[e + 1] \in Blanks \/ e + 1 \in bad') /\ file[e + 1] \notin {"*", ")"}
      BY <1>2, <1>3, <1>4, <2>1, <2>2
    <2> HIDE DEF from, e
    <2>4. IsGap(file, from, e + 1, bad')
      BY <1>4, <2>2, <2>3, GapNext
    <2>5. IsGap(file, To + 1, in.at, bad') /\ To' = To /\ To <= in.at
      BY <1>1, <1>4, <2>1, <2>2, <2>4 DEF from, To
    <2> QED
      BY <1>1, <1>4, <2>0, <2>1, <2>5 DEF Gap
  <1>8. Places'
    <2>1. Placed(in)'
      BY <1>1, <1>4 DEF Placed, Exact, RangeOn
    <2> QED
      BY <1>1, <2>1 DEF Places, Inside
  <1> QED
    BY <1>1, <1>5, <1>6, <1>7, <1>8 DEF IInv, Gaps, Inside

\* At the end of the file the gap goes on to its last character.
LEMMA EndOfFileStep ==
    ASSUME IInv, EndOfFile
    PROVE  IInv'
  <1> DEFINE t == Token(in, in, TRUE, [kind |-> "eof", value |-> <<>>])
  <1>1. /\ mode = "scan" /\ in.eof /\ mode' = "done" /\ tokens' = Append(tokens, t)
        /\ UNCHANGED <<file, in, depth, begin, bad>>
    BY DEF EndOfFile
  <1>2. t.kind = "eof"
    BY DEF Token
  <1>3. in.at = Len(file) /\ Gap(in.at)
    BY <1>1 DEF IInv, Shape, Positioned, NoText, Gaps, LastRead
  <1> HIDE DEF t
  <1>4. Fits(t)
    BY <1>2, <1>3 DEF Fits, Gap
  <1>5. NothingIsLost' /\ PositionsAreExact' /\ tokens' \in Seq({tokens'[i] : i \in DOMAIN tokens'})
    BY <1>1, <1>4, TokenAdded DEF IInv
  <1>6. Shape'
    BY <1>1, <1>5 DEF IInv, Shape, Modes, Inside, Ended, Positioned, NoText
  <1> QED
    BY <1>1, <1>5, <1>6 DEF IInv, Gaps, Places, Inside, Ended

\* Identifiers, numbers and strings begin where the gap ends.
LEMMA BeginStep ==
    ASSUME IInv, BeginIdent \/ BeginNumber \/ BeginString
    PROVE  IInv'
  <1>1. /\ mode = "scan" /\ ~in.eof /\ begin' = in /\ mode' \in {"ident", "number", "string"}
        /\ in' = Read(in) \/ in' = in
        /\ UNCHANGED <<file, depth, tokens, bad>>
    BY DEF BeginIdent, BeginNumber, BeginString, Loop
  <1>2. in.ch # "."
    BY DEF BeginIdent, BeginNumber, BeginString, Letters, HexLetters, Digits, Quote
  <1>3. /\ Positioned(in) /\ Gap(in.at - 1) /\ Placed(in)
        /\ Positioned(Read(in)) /\ Placed(Read(in))
    BY <1>1, <1>2, Scanning
  <1>4. mode' = "number" => in' = in
    BY DEF BeginIdent, BeginNumber, BeginString, Loop
  <1> QED
    BY <1>1, <1>3, <1>4, InsideStep

\* A place in the loops that collect a token.
LEMMA Collecting ==
    ASSUME IInv, mode \in {"ident", "number", "string"}
    PROVE  /\ file \in Seq(STRING) /\ Len(file) \in Nat
           /\ Positioned(in) /\ in.ch = file[in.at] /\ in.at \in 1 .. Len(file)
           /\ Positioned(begin) /\ Placed(begin) /\ Gap(begin.at - 1)
           /\ mode = "number" => begin.line = in.line
           /\ Placed(in) \/ (BeforeRange /\ mode = "number")
           /\ Positioned(Read(in)) /\ (Placed(in) => Placed(Read(in)))
  <1>1. mode \in Inside /\ mode \notin Ended
    BY DEF Inside, Ended
  <1>2. file \in Seq(STRING) /\ Len(file) \in Nat /\ Positioned(in) /\ Positioned(begin)
    BY <1>1 DEF IInv, Shape, NoText
  <1>3. in.ch = file[in.at] /\ in.at \in 1 .. Len(file)
    BY <1>2 DEF Positioned
  <1>4. Gap(begin.at - 1) /\ Placed(begin) /\ (mode = "number" => begin.line = in.line)
    BY <1>1 DEF IInv, Gaps, Places
  <1>5. Placed(in) \/ (BeforeRange /\ mode = "number")
    BY <1>1, <1>2 DEF IInv, Places, NoText, BeforeRange
  <1>6. Positioned(Read(in)) /\ (Placed(in) => Placed(Read(in)))
    BY <1>2, ReadNext, ReadPlaced
  <1> QED
    BY <1>2, <1>3, <1>4, <1>5, <1>6

\* An identifier or keyword goes on, or is emitted.
LEMMA IdentStep ==
    ASSUME IInv, scanIdent
    PROVE  IInv'
  <1>1. mode = "ident" /\ UNCHANGED <<file, depth, begin, bad>>
    BY DEF scanIdent
  <1>2. /\ Positioned(begin) /\ Placed(begin) /\ Gap(begin.at - 1) /\ Positioned(in) /\ Placed(in)
        /\ Positioned(Read(in)) /\ Placed(Read(in))
    BY <1>1, Collecting
  <1>3. CASE Loop("ident", Read(in)) /\ UNCHANGED tokens
    BY <1>1, <1>2, <1>3, InsideStep DEF Loop
  <1>4. CASE Emit(begin, in, TRUE, [kind |-> IF lexeme \in Keywords THEN "keyword" ELSE "ident", value |-> lexeme])
    <2> DEFINE meaning == [kind |-> IF lexeme \in Keywords THEN "keyword" ELSE "ident", value |-> lexeme]
    <2>1. meaning.kind # "eof" /\ Emit(begin, in, TRUE, meaning)
      BY <1>4
    <2> HIDE DEF meaning
    <2> QED
      BY <1>1, <1>2, <2>1, EmitStep
  <1> QED
    BY <1>3, <1>4 DEF scanIdent

\* A string goes on, or is emitted.
LEMMA StringStep ==
    ASSUME IInv, StringCharacter \/ FinishString
    PROVE  IInv'
  <1>1. mode = "string" /\ UNCHANGED <<file, depth, begin, bad>>
    BY DEF StringCharacter, FinishString
  <1>2. /\ Positioned(begin) /\ Placed(begin) /\ Gap(begin.at - 1) /\ Positioned(in) /\ Placed(in)
        /\ Positioned(Read(in)) /\ Placed(Read(in)) /\ file \in Seq(STRING)
    BY <1>1, Collecting
  <1>3. CASE StringCharacter
    <2>1. mode' = mode /\ tokens' = tokens /\ (in' = Read(in) \/ in' = Read(Read(in)))
      BY <1>3 DEF StringCharacter
    <2>2. Positioned(in') /\ Placed(in')
      BY <1>2, <2>1, ReadNext, ReadPlaced
    <2> QED
      BY <1>1, <1>2, <2>1, <2>2, InsideStep
  <1>4. CASE FinishString
    <2> DEFINE contents == unescape(lexeme)
               meaning == [kind |-> IF Len(contents) < 2 THEN "char" ELSE "string", value |-> contents]
    <2>1. Emit(begin, Read(in), TRUE, meaning)
      BY <1>4 DEF FinishString
    <2>2. meaning.kind # "eof"
      OBVIOUS
    <2> HIDE DEF meaning
    <2> QED
      BY <1>1, <1>2, <2>1, <2>2, EmitStep
  <1> QED
    BY <1>3, <1>4

\* The digits, points and signs of a number are on one line, and a point
\* that is given back is followed by another one.
LEMMA DigitStep ==
    ASSUME IInv, ScanDigit
    PROVE  IInv'
  <1> DEFINE r == Read(in)
             rr == Read(r)
             point == r.ch = "."
             range == point /\ rr.ch = "."
             next == IF range THEN Seek(rr, r.at) ELSE IF point THEN rr ELSE r
             sign == ~range /\ (real \/ point) /\ next.ch \in {"+", "-"}
  <1>1. mode = "number" /\ mode' = mode /\ InNumber /\ UNCHANGED <<file, depth, begin, tokens, bad>>
    BY DEF ScanDigit
  <1>2. in' = IF sign THEN Read(next) ELSE next
    BY DEF ScanDigit
  <1>3. in.ch # "." /\ in.ch # Newline
    BY <1>1 DEF InNumber, HexDigits, HexLetters, Digits, Newline
  <1>4. /\ Positioned(begin) /\ Placed(begin) /\ Gap(begin.at - 1) /\ begin.line = in.line
        /\ Positioned(in) /\ file \in Seq(STRING) /\ Len(file) \in Nat
    BY <1>1, Collecting
  <1>5. Placed(in)
    BY <1>1, <1>3, Collecting DEF BeforeRange
  <1>6. Positioned(r) /\ Placed(r) /\ r.line = in.line
    BY <1>3, <1>4, <1>5, ReadNext, ReadPlaced
  <1>7. Positioned(rr) /\ Placed(rr) /\ (point => rr.line = in.line)
    <2>1. r.ch = "." => r.ch # Newline
      BY DEF Newline
    <2> QED
      BY <1>4, <1>6, <2>1, ReadNext, ReadPlaced
  <1>8. CASE range /\ ~rr.eof
    <2>1. in' = [rr EXCEPT !.at = r.at]
      BY <1>2, <1>8 DEF Seek
    <2>2. r.at < Len(file) /\ r.at \in 1 .. Len(file) /\ rr.ch = file[r.at + 1] /\ r.ch = file[r.at]
      <3>1. r.at \in 1 .. Len(file) /\ r.ch = file[r.at]
        BY <1>6 DEF Positioned
      <3>2. r.at # Len(file)
        <4>1. ASSUME r.at = Len(file) PROVE FALSE
          <5>1. rr = [r EXCEPT !.eof = TRUE]
            BY <1>4, <1>6, <4>1, ReadNext
          <5>2. rr.eof
            BY <1>6, <5>1 DEF Positioned, Streams
          <5> QED
            BY <1>8, <5>2
        <4> QED
          BY <4>1
      <3>3. r.at < Len(file)
        BY <1>4, <3>1, <3>2
      <3> QED
        BY <1>4, <1>6, <3>1, <3>3, ReadNext
    <2>3. rr \in Streams
      BY <1>7 DEF Positioned
    <2> HIDE DEF r, rr
    <2>4. in'.at = r.at /\ in'.ch = rr.ch /\ in'.line = rr.line
      BY <2>1, <2>3 DEF Streams
    <2>5. ~in'.eof
      BY <1>8, <2>1, <2>3 DEF Streams
    <2>6. in' \in Streams
      BY <2>1, <2>2, <2>3 DEF Streams
    <2>7. in'.line = Line(file, in'.at)
      BY <1>6, <1>7, <1>8, <2>4 DEF Positioned
    <2>8. Positioned(in')
      BY <1>8, <2>2, <2>4, <2>5, <2>6, <2>7 DEF Positioned
    <2> QED
      BY <1>1, <1>4, <1>7, <1>8, <2>2, <2>4, <2>5, <2>8, InsideStep
  <1>9. CASE ~(range /\ ~rr.eof)
    <2>1. next = r \/ (point /\ next = rr)
      BY <1>9 DEF Seek
    <2> HIDE DEF next
    <2>2. Positioned(next) /\ Placed(next) /\ next.line = in.line
      BY <1>6, <1>7, <2>1
    <2>3. sign => Positioned(Read(next)) /\ Placed(Read(next)) /\ Read(next).line = in.line
      <3>1. sign => next.ch # Newline
        BY DEF Newline
      <3> QED
        BY <1>4, <2>2, <3>1, ReadNext, ReadPlaced
    <2>4. Positioned(in') /\ Placed(in') /\ in'.line = in.line
      BY <1>2, <2>2, <2>3
    <2> QED
      BY <1>1, <1>4, <2>4, InsideStep
  <1> QED
    BY <1>8, <1>9

\* A number is emitted, of one kind or another.
LEMMA FinishNumberStep ==
    ASSUME IInv, FinishNumber
    PROVE  IInv'
  <1>1. mode = "number" /\ UNCHANGED <<file, depth, begin, bad>>
    BY DEF FinishNumber
  <1>2. PICK s, ok, meaning :
           /\ Emit(begin, s, ok, meaning) /\ meaning.kind # "eof"
           /\ s = in \/ (s = Read(in) /\ in.ch \in {"H", "X"})
    <2>1. CASE real /\ in.ch \in {"H", "X"} /\ Emit(begin, Read(in), FALSE, [kind |-> "undefined", value |-> <<>>])
      <3> DEFINE meaning == [kind |-> "undefined", value |-> <<>>]
      <3>1. Emit(begin, Read(in), FALSE, meaning) /\ meaning.kind # "eof"
        BY <2>1
      <3> HIDE DEF meaning
      <3> QED
        BY <2>1, <3>1
    <2>2. CASE FloatToken(in)
      BY <2>2 DEF FloatToken
    <2>3. CASE in.ch = "X" /\ CharToken(Read(in))
      BY <2>3 DEF CharToken
    <2>4. ASSUME NEW s, NEW base, IntegerToken(s, base)
          PROVE  \E ok, meaning : Emit(begin, s, ok, meaning) /\ meaning.kind # "eof"
      BY <2>4 DEF IntegerToken, Integer
    <2> QED
      BY <2>1, <2>2, <2>3, <2>4 DEF FinishNumber
  <1>3. /\ Positioned(begin) /\ Placed(begin) /\ Gap(begin.at - 1) /\ begin.line = in.line
        /\ Positioned(in) /\ in.ch = file[in.at] /\ Positioned(Read(in)) /\ (Placed(in) => Placed(Read(in)))
        /\ Placed(in) \/ BeforeRange
    BY <1>1, Collecting
  <1>4. CASE Placed(in)
    BY <1>1, <1>2, <1>3, <1>4, EmitStep
  <1>5. CASE BeforeRange
    <2>1. s = in
      BY <1>2, <1>3, <1>5 DEF BeforeRange
    <2>2. ~s.eof /\ s.at < Len(file) /\ file[s.at] = "." /\ file[s.at + 1] = "."
      BY <1>5, <2>1 DEF BeforeRange
    <2> QED
      BY <1>1, <1>2, <1>3, <2>1, <2>2, EmitStep
  <1> QED
    BY <1>3, <1>4, <1>5

\* A symbol of one, two or three characters is emitted.
LEMMA SymbolStep ==
    ASSUME IInv, scanSymbol
    PROVE  IInv'
  <1> DEFINE r1 == Read(in)
             r2 == Read(r1)
             r3 == Read(r2)
  <1>1. mode = "scan" /\ ~in.eof /\ UNCHANGED <<file, depth, bad>> /\ in.ch \in Singles
    BY DEF scanSymbol
  <1>2. /\ file \in Seq(STRING) /\ Len(file) \in Nat
        /\ Positioned(in) /\ in.ch = file[in.at] /\ in.at \in 1 .. Len(file) /\ Gap(in.at - 1)
        /\ Placed(in) \/ BeforeRange
    BY <1>1, Scanning
  <1>3. /\ Positioned(r1) /\ Positioned(r2) /\ Positioned(r3)
        /\ Placed(in) => Placed(r1) /\ Placed(r2) /\ Placed(r3)
    BY <1>2, ReadNext, ReadPlaced
  <1>4. /\ in.ch # Newline => r1.line = in.line
        /\ r1.ch # Newline => r2.line = r1.line
        /\ r2.ch # Newline => r3.line = r2.line
    BY <1>2, <1>3, ReadNext
  <1>5. BeforeRange => /\ in.ch = "." /\ ~r1.eof /\ r1.ch = "." /\ AfterNumber(in.line)
    <2>1. SUFFICES ASSUME BeforeRange PROVE in.ch = "." /\ ~r1.eof /\ r1.ch = "." /\ AfterNumber(in.line)
      OBVIOUS
    <2>2. in.at < Len(file) /\ file[in.at] = "." /\ file[in.at + 1] = "."
      BY <2>1 DEF BeforeRange
    <2>3. ~r1.eof /\ r1.ch = "."
      BY <1>2, <2>2, ReadNext
    <2> QED
      BY <1>1, <1>2, <2>1, <2>2, <2>3 DEF BeforeRange, AfterNumber
  <1> HIDE DEF r1, r2, r3
  <1>6. ASSUME NEW chars, NEW s, Symbol(chars, s), Positioned(s), Placed(in) => Placed(s),
               IF Len(chars) = 1 THEN chars[1] # "eof" ELSE Compound[chars] # "eof",
               \/ Placed(in)
               \/ s.line = in.line /\ AfterNumber(in.line) /\ Len(chars) # 1 /\ Compound[chars] \in Ranges
        PROVE  IInv'
    <2> DEFINE meaning == [kind |-> IF Len(chars) = 1 THEN chars[1] ELSE Compound[chars], value |-> chars]
    <2>1. Emit(in, s, TRUE, meaning)
      BY <1>6 DEF Symbol
    <2>2. meaning.kind # "eof" /\ (~Placed(in) => meaning.kind \in Ranges)
      BY <1>6
    <2> HIDE DEF meaning
    <2> QED
      BY <1>1, <1>2, <1>6, <2>1, <2>2, EmitStep
  <1>7. CASE Placed(in)
    <2>1. \/ Symbol(<<in.ch>>, r1)
          \/ in.ch \in {"<", ">", ":"} /\ Symbol(<<in.ch, "=">>, r2)
          \/ Symbol(<<".", ".">>, r2)
          \/ Symbol(<<".", ".", ".">>, r3)
      BY DEF scanSymbol, r1, r2, r3
    <2>2. ASSUME NEW chars \in DOMAIN Compound PROVE Len(chars) # 1 /\ Compound[chars] # "eof"
      BY DEF Compound
    <2>3. CASE Symbol(<<in.ch>>, r1)
      <3>1. Len(<<in.ch>>) = 1 /\ <<in.ch>>[1] # "eof"
        BY <1>1 DEF Singles
      <3> QED
        BY <1>3, <1>6, <1>7, <2>3, <3>1
    <2>4. CASE in.ch \in {"<", ">", ":"} /\ Symbol(<<in.ch, "=">>, r2)
      <3>1. <<in.ch, "=">> \in DOMAIN Compound
        BY <2>4 DEF Compound
      <3> QED
        BY <1>3, <1>6, <1>7, <2>2, <2>4, <3>1
    <2>5. <<".", ".">> \in DOMAIN Compound /\ <<".", ".", ".">> \in DOMAIN Compound
      BY DEF Compound
    <2>6. CASE Symbol(<<".", ".">>, r2)
      BY <1>3, <1>6, <1>7, <2>2, <2>5, <2>6
    <2>7. CASE Symbol(<<".", ".", ".">>, r3)
      BY <1>3, <1>6, <1>7, <2>2, <2>5, <2>7
    <2> QED
      BY <2>1, <2>3, <2>4, <2>6, <2>7
  <1>8. CASE BeforeRange
    <2>1. \/ Symbol(<<".", ".">>, r2)
          \/ r2.ch = "." /\ Symbol(<<".", ".", ".">>, r3)
      BY <1>5, <1>8 DEF scanSymbol, r1, r2, r3
    <2>2. Compound[<<".", ".">>] = ".." /\ Compound[<<".", ".", ".">>] = "..."
      BY DEF Compound
    <2>3. r1.line = in.line /\ r2.line = in.line /\ (r2.ch = "." => r3.line = in.line)
      BY <1>4, <1>5, <1>8 DEF Newline
    <2>4. CASE Symbol(<<".", ".">>, r2)
      BY <1>3, <1>5, <1>6, <1>8, <2>2, <2>3, <2>4 DEF Ranges
    <2>5. CASE r2.ch = "." /\ Symbol(<<".", ".", ".">>, r3)
      BY <1>3, <1>5, <1>6, <1>8, <2>2, <2>3, <2>5 DEF Ranges
    <2> QED
      BY <2>1, <2>4, <2>5
  <1> QED
    BY <1>2, <1>7, <1>8

\* A comment begins with its first bracket, at depth one.
LEMMA DepthBegins ==
    ASSUME file \in Seq(STRING), NEW from \in 1 .. Len(file) + 1, NEW s, Positioned(s), from <= s.at,
           Nesting(file, from)[s.at - 1].open = 0, s.ch = "(", Read(s).ch = "*"
    PROVE  Depth(from, s.at, Read(Read(s)), 1) /\ s.at < Read(Read(s)).at
  <1> DEFINE N == Nesting(file, from)
             h == s.at - 1
             i == s.at
             j == s.at + 1
             r == Read(s)
             rr == Read(r)
  <1>1. Len(file) \in Nat /\ s.at \in 1 .. Len(file) /\ s.ch = file[s.at] /\ s \in Streams
    BY DEF Positioned
  <1>2. s.at < Len(file)
    <2>1. ASSUME s.at = Len(file) PROVE FALSE
      <3>1. r = [s EXCEPT !.eof = TRUE]
        BY <2>1, ReadNext
      <3> QED
        BY <1>1, <3>1 DEF Streams
    <2> QED
      BY <1>1, <2>1
  <1>3. Positioned(r) /\ r.at = j /\ ~r.eof /\ r.ch = file[j]
    BY <1>2, ReadNext
  <1> HIDE DEF r
  <1>4. /\ N[j].open = 1 /\ N[j].ended = j
        /\ j < Len(file) => N[j + 1].open = 1 /\ N[j + 1].ended # j + 1
    <2>1. h \in from - 1 .. Len(file) - 2 /\ i = h + 1 /\ j = i + 1 /\ N[h].open = 0
      BY <1>1, <1>2
    <2>2. file[i] = "(" /\ file[j] = "*" /\ i \in Int /\ j \in Int /\ h \in Int
      BY <1>1, <1>3 DEF r
    <2> HIDE DEF h, i, j
    <2>3. Opened(file, from, j)
      BY <2>1, <2>2, CommentOpens
    <2> QED
      BY <2>3 DEF Opened
  <1>5. CASE j = Len(file)
    <2>1. rr = [r EXCEPT !.eof = TRUE]
      BY <1>3, <1>5, ReadNext
    <2>2. rr.at = j /\ rr.eof
      BY <1>3, <2>1 DEF Positioned, Streams
    <2>3. \A k \in i + 1 .. j : k = j
      BY <1>1
    <2> HIDE DEF rr
    <2>4. Depth(from, i, rr, 1) /\ i < rr.at
      BY <1>1, <1>4, <2>2, <2>3 DEF Depth
    <2> QED
      BY <2>4 DEF rr, r
  <1>6. CASE j < Len(file)
    <2>1. rr.at = j + 1 /\ ~rr.eof
      BY <1>3, <1>6, ReadNext
    <2>2. \A k \in i + 1 .. j + 1 : k = j \/ k = j + 1
      <3>1. i \in Int /\ j = i + 1
        BY <1>1
      <3> HIDE DEF i, j
      <3> QED
        BY <3>1
    <2> HIDE DEF rr
    <2>4. Depth(from, i, rr, 1) /\ i < rr.at
      BY <1>1, <1>4, <1>6, <2>1, <2>2, SMTT(60) DEF Depth
    <2> QED
      BY <2>4 DEF rr, r
  <1> QED
    BY <1>1, <1>2, <1>5, <1>6

\* A bracket that opens a comment makes one more, one that closes a
\* comment makes one less, and other characters leave the depth alone.
LEMMA DepthNext ==
    ASSUME file \in Seq(STRING), NEW from \in 1 .. Len(file) + 1, NEW s, Positioned(s),
           NEW start \in from .. Len(file), start < s.at, NEW d \in Nat \ {0}, Depth(from, start, s, d)
    PROVE  /\ s.ch = "(" /\ Read(s).ch = "*" => Depth(from, start, Read(Read(s)), d + 1)
           /\ s.ch = "*" /\ Read(s).ch = ")" /\ d > 1 => Depth(from, start, Read(Read(s)), d - 1)
           /\ s.ch = "*" /\ Read(s).ch = ")" /\ d = 1
                => /\ s.at < Len(file) /\ LastRead(Read(Read(s))) = s.at + 1
                   /\ Nesting(file, from)[s.at + 1].open = 0
           /\ ~(s.ch = "(" /\ Read(s).ch = "*") /\ ~(s.ch = "*" /\ Read(s).ch = ")")
                => Depth(from, start, Read(s), d)
  <1> DEFINE N == Nesting(file, from)
             i == s.at
             j == s.at + 1
             k == s.at + 2
             r == Read(s)
             rr == Read(r)
             opens == s.ch = "(" /\ r.ch = "*"
             closes == s.ch = "*" /\ r.ch = ")"
  <1>1. Len(file) \in Nat /\ i \in 1 .. Len(file) /\ s.ch = file[i] /\ s \in Streams
    BY DEF Positioned
  <1>2. N[i].open = d /\ (~s.eof => N[i].ended # i) /\ \A m \in start + 1 .. i : N[m].open > 0
    BY DEF Depth
  <1>3. CASE i = Len(file)
    <2>1. r = [s EXCEPT !.eof = TRUE]
      BY <1>3, ReadNext
    <2>2. r.at = i /\ r.eof /\ r.ch = s.ch
      BY <1>1, <2>1 DEF Streams
    <2> HIDE DEF r, i
    <2>3. Depth(from, start, r, d)
      BY <1>2, <2>2 DEF Depth
    <2>4. ~opens /\ ~closes
      BY <2>2
    <2> QED
      BY <2>3, <2>4 DEF r
  <1>4. CASE i < Len(file)
    <2>1. Positioned(r) /\ r.at = j /\ ~r.eof /\ ~s.eof /\ r.ch = file[j] /\ LastRead(rr) = j
      BY <1>4, ReadNext
    <2>2. rr.at = IF j < Len(file) THEN k ELSE j
      <3>1. CASE j < Len(file)
        <4>1. r.at < Len(file) /\ r.at + 1 = k
          BY <1>1, <2>1, <3>1
        <4>2. rr.at = r.at + 1
          BY <2>1, <4>1, ReadNext
        <4> QED
          BY <3>1, <4>1, <4>2
      <3>2. CASE j = Len(file)
        <4>1. rr = [r EXCEPT !.eof = TRUE]
          BY <2>1, <3>2, ReadNext
        <4> QED
          BY <2>1, <3>2, <4>1 DEF Positioned, Streams
      <3> QED
        BY <1>1, <1>4, <3>1, <3>2
    <2>3. j >= Len(file) => rr.eof
      <3>1. ASSUME j = Len(file) PROVE rr.eof
        <4>1. rr = [r EXCEPT !.eof = TRUE]
          BY <2>1, <3>1, ReadNext
        <4> QED
          BY <2>1, <4>1 DEF Positioned, Streams
      <3> QED
        BY <1>1, <1>4, <3>1
    <2> HIDE DEF r, rr
    <2>4. i \in from - 1 .. Len(file) - 1 /\ j = i + 1 /\ (j < Len(file) => j \in from - 1 .. Len(file) - 1) /\ k = j + 1
      BY <1>1, <1>4
    <2> HIDE DEF i, j, k
    <2>5. Continues(file, from, i, j) /\ (j < Len(file) => Continues(file, from, j, k))
      BY <2>4, NestingCases
    <2>6. N[i].ended <= i /\ N[i].ended \in Int
      BY <2>4, <2>5, EndedBefore DEF Continues, Depths
    <2>7. /\ opens => N[j].open = d + 1 /\ N[j].ended = j
          /\ closes => N[j].open = d - 1 /\ N[j].ended = j
          /\ ~opens /\ ~closes => N[j] = N[i]
      <3>1. i \in Int /\ j \in Int /\ N[i].open = d /\ N[i].open > 0
        BY <1>1, <1>2, <2>4 DEF i
      <3>2. opens => N[j].open = N[i].open + 1 /\ N[j].ended = j
        <4>1. opens => file[i] = "(" /\ file[j] = "*" /\ N[i].ended # i
          BY <1>1, <1>2, <2>1
        <4> HIDE DEF opens
        <4> QED
          BY <2>5, <3>1, <4>1 DEF Continues
      <3>3. closes => N[j].open = N[i].open - 1 /\ N[j].ended = j
        <4>1. closes => file[i] = "*" /\ file[j] = ")" /\ N[i].ended # i
          BY <1>1, <1>2, <2>1
        <4> HIDE DEF closes
        <4> QED
          BY <2>5, <3>1, <4>1 DEF Continues
      <3>4. ~opens /\ ~closes => N[j] = N[i]
        BY <1>1, <1>2, <2>1, <2>5, <3>1 DEF Continues
      <3> QED
        BY <3>1, <3>2, <3>3, <3>4
    <2>8. j < Len(file) /\ N[j].ended = j => N[k] = N[j]
      BY <2>5 DEF Continues
    <2>9. i \in Int /\ j \in Int /\ j = i + 1 /\ k = j + 1 /\ i < j /\ j # k
      BY <1>1, <2>4
    <2>10. \A m : m \in start + 1 .. j => m \in start + 1 .. i \/ m = j
      BY <2>9
    <2>11. \A m : m \in start + 1 .. k => m \in start + 1 .. i \/ m = j \/ m = k
      BY <2>9
    <2>12. ASSUME NEW e \in Nat \ {0}, N[j].open = e, N[j].ended = j PROVE Depth(from, start, rr, e)
      <3>1. CASE j < Len(file)
        <4>1. rr.at = k /\ N[k].open = e /\ N[k].ended # k
          BY <2>2, <2>8, <2>9, <2>12, <3>1
        <4>2. \A m \in start + 1 .. k : N[m].open > 0
          BY <1>2, <2>11, <2>12, <4>1
        <4> QED
          BY <4>1, <4>2 DEF Depth
      <3>2. CASE ~(j < Len(file))
        <4>1. rr.at = j /\ rr.eof
          BY <1>1, <2>2, <2>3, <2>9, <3>2
        <4>2. \A m \in start + 1 .. j : N[m].open > 0
          BY <1>2, <2>10, <2>12, <4>1
        <4> QED
          BY <2>12, <4>1, <4>2 DEF Depth
      <3> QED
        BY <3>1, <3>2
    <2>13. ASSUME ~opens, ~closes PROVE Depth(from, start, r, d)
      <3>1. N[j].open = d /\ N[j].ended # j
        BY <1>2, <2>6, <2>7, <2>9, <2>13
      <3>2. \A m \in start + 1 .. j : N[m].open > 0
        BY <1>2, <2>10, <3>1
      <3> QED
        BY <2>1, <3>1, <3>2 DEF Depth
    <2>14. opens => Depth(from, start, rr, d + 1)
      BY <2>7, <2>12
    <2>15. closes /\ d > 1 => Depth(from, start, rr, d - 1)
      BY <2>7, <2>12
    <2>16. closes /\ d = 1 => N[j].open = 0
      BY <2>7
    <2> QED
      BY <1>4, <2>1, <2>13, <2>14, <2>15, <2>16 DEF r, rr, j, i
  <1> QED
    BY <1>1, <1>3, <1>4

\* What the loop of scanComment keeps, for any stream and depth.
LEMMA CommentStays ==
    ASSUME IInv, UNCHANGED <<file, tokens, bad>>, mode' = "comment", depth' \in Nat \ {0},
           Positioned(begin'), Placed(begin'), Gap(begin'.at - 1), file[begin'.at] = "(", begin'.at < in'.at,
           Positioned(in'), Placed(in'),
           Depth(To + 1, begin'.at, in', depth'), Depth(begin'.at, begin'.at, in', depth')
    PROVE  IInv'
  <1>1. NothingIsLost' /\ PositionsAreExact'
    BY NoTokenAdded DEF IInv
  <1>2. Positioned(in)' /\ Positioned(begin)' /\ in' \in Streams
    BY DEF Positioned
  <1>3. Shape'
    BY <1>2 DEF IInv, Shape, Modes, Inside
  <1>4. Gap(begin.at - 1)' /\ To' = To
    BY DEF Gap, To
  <1>5. InComment'
    BY <1>4 DEF InComment, Depth
  <1>6. Gaps'
    BY <1>4, <1>5 DEF Gaps
  <1>7. Placed(begin)' /\ Placed(in)'
    BY DEF Placed, Exact, RangeOn
  <1>8. Places'
    BY <1>7 DEF Places
  <1> QED
    BY <1>1, <1>3, <1>6, <1>8 DEF IInv

\* A comment begins where the gap ends, at depth one.
LEMMA BeginCommentStep ==
    ASSUME IInv, BeginComment
    PROVE  IInv'
  <1> DEFINE rr == Read(Read(in))
  <1>1. /\ mode = "scan" /\ ~in.eof /\ in.ch = "(" /\ Read(in).ch = "*" /\ begin' = in /\ depth' = 1
        /\ mode' = "comment" /\ in' = rr /\ UNCHANGED <<file, tokens, bad>>
    BY DEF BeginComment, Loop
  <1>2. /\ file \in Seq(STRING) /\ Len(file) \in Nat /\ Positioned(in) /\ in.ch = file[in.at]
        /\ in.at \in 1 .. Len(file) /\ Gap(in.at - 1) /\ Placed(in) /\ Positioned(Read(in)) /\ Placed(Read(in))
    BY <1>1, Scanning
  <1>3. Positioned(rr) /\ Placed(rr)
    BY <1>2, ReadNext, ReadPlaced
  <1>4. To \in Nat /\ To <= in.at - 1 /\ Nesting(file, To + 1)[in.at - 1].open = 0
    BY <1>2 DEF Gap, IsGap
  <1>5. Nesting(file, in.at)[in.at - 1].open = 0
    <2>1. in.at \in 1 .. Len(file) + 1
      BY <1>2
    <2>2. Nesting(file, in.at)[in.at - 1] = Fresh(in.at)
      BY <1>2, <2>1, NestingStep
    <2> QED
      BY <2>2 DEF Fresh
  <1> HIDE DEF rr
  <1>6. Depth(To + 1, in.at, rr, 1) /\ Depth(in.at, in.at, rr, 1) /\ in.at < rr.at
    <2>1. To + 1 \in 1 .. Len(file) + 1 /\ To + 1 <= in.at /\ in.at \in 1 .. Len(file) + 1 /\ in.at <= in.at
      BY <1>2, <1>4
    <2> QED
      BY <1>1, <1>2, <1>4, <1>5, <2>1, DepthBegins DEF rr
  <1> QED
    BY <1>1, <1>2, <1>3, <1>6, CommentStays

\* A place in the loop of scanComment.
LEMMA Commenting ==
    ASSUME IInv, mode = "comment"
    PROVE  /\ file \in Seq(STRING) /\ Len(file) \in Nat /\ depth \in Nat \ {0}
           /\ Positioned(in) /\ Placed(in) /\ Positioned(Read(in)) /\ Placed(Read(in))
           /\ Positioned(Read(Read(in))) /\ Placed(Read(Read(in)))
           /\ Positioned(begin) /\ Placed(begin) /\ Gap(begin.at - 1) /\ file[begin.at] = "("
           /\ begin.at \in 1 .. Len(file) /\ begin.at < in.at /\ in.at \in 1 .. Len(file)
           /\ To \in Nat /\ To + 1 \in 1 .. Len(file) + 1 /\ To + 1 <= begin.at
           /\ Depth(To + 1, begin.at, in, depth) /\ Depth(begin.at, begin.at, in, depth)
           /\ in.at <= Read(in).at /\ in.at <= Read(Read(in)).at
  <1>1. file \in Seq(STRING) /\ Len(file) \in Nat /\ Positioned(in) /\ Positioned(begin) /\ InComment /\ depth \in Nat
    BY DEF IInv, Shape, NoText, Inside, Gaps
  <1>2. depth \in Nat \ {0}
    BY <1>1 DEF InComment
  <1>3. Placed(in) /\ Placed(begin) /\ Gap(begin.at - 1)
    BY <1>1 DEF IInv, Places, Gaps, Inside, Ended, NoText, BeforeRange
  <1>4. begin.at \in 1 .. Len(file) /\ in.at \in 1 .. Len(file)
    BY <1>1 DEF Positioned
  <1>5. To \in Nat /\ To + 1 \in 1 .. Len(file) + 1 /\ To + 1 <= begin.at
    BY <1>1, <1>3, <1>4 DEF Gap
  <1>6. Positioned(Read(in)) /\ Placed(Read(in)) /\ in.at <= Read(in).at
    <2>1. Positioned(Read(in)) /\ Placed(Read(in))
      BY <1>1, <1>3, ReadNext, ReadPlaced
    <2>2. in \in Streams
      BY <1>1 DEF Positioned
    <2>3. in.at < Len(file) => in.at <= Read(in).at
      BY <1>1, <1>4, ReadNext
    <2>4. in.at = Len(file) => in.at <= Read(in).at
      BY <1>1, <1>4, <2>2, ReadNext DEF Streams
    <2> QED
      BY <1>4, <2>1, <2>3, <2>4
  <1>7. Positioned(Read(Read(in))) /\ Placed(Read(Read(in))) /\ in.at <= Read(Read(in)).at
    <2> DEFINE r == Read(in)
    <2>1. r \in Streams /\ r.at \in 1 .. Len(file)
      BY <1>6 DEF Positioned
    <2> HIDE DEF r
    <2>2. Positioned(r) /\ Placed(r) /\ in.at <= r.at
      BY <1>6 DEF r
    <2>3. Positioned(Read(r)) /\ Placed(Read(r))
      BY <1>1, <2>2, ReadNext, ReadPlaced
    <2>4. r.at < Len(file) => r.at <= Read(r).at
      BY <1>1, <2>1, <2>2, ReadNext
    <2>5. r.at = Len(file) => r.at <= Read(r).at
      BY <1>1, <2>1, <2>2, ReadNext DEF Streams
    <2>6. in.at <= Read(r).at
      <3>1. Read(r).at \in 1 .. Len(file)
        BY <2>3 DEF Positioned
      <3> QED
        BY <1>1, <1>4, <2>1, <2>2, <2>4, <2>5, <3>1
    <2> QED
      BY <2>3, <2>6 DEF r
  <1> QED
    BY <1>1, <1>2, <1>3, <1>4, <1>5, <1>6, <1>7 DEF InComment

\* The scanner gives up in a comment at the end of the file.
LEMMA CommentExits ==
    ASSUME IInv, mode = "comment", in.at = Len(file), in' \in Streams, in'.at = in.at, Positioned(in'),
           mode' = "exit", UNCHANGED <<file, depth, begin, tokens, bad>>
    PROVE  IInv'
  <1>1. depth \in Nat \ {0} /\ Depth(begin.at, begin.at, in, depth)
    BY Commenting
  <1>2. Nesting(file, begin.at)[Len(file)].open > 0
    BY <1>1 DEF Depth
  <1>3. NothingIsLost' /\ PositionsAreExact'
    BY <1>2, NoTokenAdded DEF IInv
  <1>4. Shape'
    <2>1. Positioned(in)'
      BY DEF Positioned
    <2> QED
      BY <1>1, <2>1 DEF IInv, Shape, Modes, Inside, Ended
  <1> QED
    BY <1>3, <1>4 DEF IInv, Gaps, Places, Inside, Ended

\* An inner comment is opened or closed, or a character is skipped.
LEMMA CommentStep ==
    ASSUME IInv, scanComment
    PROVE  IInv'
  <1> DEFINE r == Read(in)
             rr == Read(r)
             opens == in.ch = "(" /\ r.ch = "*"
             closes == in.ch = "*" /\ r.ch = ")"
  <1>1. mode = "comment" /\ UNCHANGED <<file, begin, tokens, bad>>
    BY DEF scanComment, OpenComment, CloseComment, SkipComment
  <1>2. /\ file \in Seq(STRING) /\ Len(file) \in Nat /\ depth \in Nat \ {0}
        /\ Positioned(in) /\ Placed(in) /\ Positioned(r) /\ Placed(r) /\ Positioned(rr) /\ Placed(rr)
        /\ Positioned(begin) /\ Placed(begin) /\ Gap(begin.at - 1) /\ file[begin.at] = "("
        /\ begin.at \in 1 .. Len(file) /\ begin.at < in.at /\ in.at \in 1 .. Len(file)
        /\ To \in Nat /\ To + 1 \in 1 .. Len(file) + 1 /\ To + 1 <= begin.at
        /\ Depth(To + 1, begin.at, in, depth) /\ Depth(begin.at, begin.at, in, depth)
        /\ in.at <= r.at /\ in.at <= rr.at
    BY <1>1, Commenting
  <1>3. ASSUME NEW from, from = To + 1 \/ from = begin.at
        PROVE  /\ opens => Depth(from, begin.at, rr, depth + 1)
               /\ closes /\ depth > 1 => Depth(from, begin.at, rr, depth - 1)
               /\ closes /\ depth = 1
                    => in.at < Len(file) /\ LastRead(rr) = in.at + 1 /\ Nesting(file, from)[in.at + 1].open = 0
               /\ ~opens /\ ~closes => Depth(from, begin.at, r, depth)
    <2>1. from \in 1 .. Len(file) + 1 /\ begin.at \in from .. Len(file) /\ Depth(from, begin.at, in, depth)
      BY <1>2, <1>3
    <2> QED
      BY <1>2, <2>1, DepthNext
  <1>4. begin.at < r.at /\ begin.at < rr.at
    <2>1. r.at \in 1 .. Len(file) /\ rr.at \in 1 .. Len(file)
      BY <1>2 DEF Positioned
    <2> QED
      BY <1>2, <2>1
  <1> HIDE DEF r, rr
  <1>5. CASE opens /\ in' = rr /\ depth' = depth + 1 /\ mode' = "comment"
    <2>1. depth + 1 \in Nat \ {0}
      BY <1>2
    <2> QED
      BY <1>1, <1>2, <1>3, <1>4, <1>5, <2>1, CommentStays
  <1>6. CASE ~opens /\ ~closes /\ in' = r /\ depth' = depth /\ mode' = "comment"
    BY <1>1, <1>2, <1>3, <1>4, <1>6, CommentStays
  <1>7. CASE closes /\ in' = rr /\ depth' = depth - 1 /\ mode' = "comment" /\ depth # 1
    <2>1. depth - 1 \in Nat \ {0} /\ depth > 1
      BY <1>2, <1>7
    <2> QED
      BY <1>1, <1>2, <1>3, <1>4, <1>7, <2>1, CommentStays
  <1>8. CASE closes /\ in' = rr /\ depth' = depth - 1 /\ mode' = "scan" /\ depth = 1
    <2> DEFINE from == To + 1
               e == begin.at - 1
               c == in.at + 1
    <2>1. in.at < Len(file) /\ LastRead(rr) = c /\ Nesting(file, from)[c].open = 0
      BY <1>3, <1>8
    <2>2. \A k \in begin.at + 1 .. in.at : Nesting(file, from)[k].open > 0
      BY <1>2 DEF Depth
    <2>3. /\ from \in 1 .. Len(file) + 1 /\ e \in from - 1 .. Len(file) /\ c \in e + 3 .. Len(file)
          /\ e + 1 = begin.at /\ e + 2 = begin.at + 1 /\ c - 1 = in.at
      <3>1. begin.at \in Int /\ in.at \in Int /\ Len(file) \in Int /\ To \in Int
        BY <1>2
      <3>2. from \in 1 .. Len(file) + 1 /\ e \in from - 1 .. Len(file)
        BY <1>2
      <3>3. c \in e + 3 .. Len(file)
        BY <1>2, <2>1, <3>1, SMTT(60)
      <3>4. e + 1 = begin.at /\ e + 2 = begin.at + 1 /\ c - 1 = in.at
        BY <3>1
      <3> HIDE DEF from, e, c
      <3> QED
        BY <3>2, <3>3, <3>4
    <2>4. IsGap(file, from, e, bad) /\ file[e + 1] = "("
      BY <1>2, <2>3 DEF Gap
    <2>5. \A k \in e + 2 .. c - 1 : Nesting(file, from)[k].open > 0
      BY <2>2, <2>3
    <2> HIDE DEF from, e, c
    <2>6. IsGap(file, from, c, bad)
      BY <1>2, <2>1, <2>3, <2>4, <2>5, CommentCloses
    <2>7. Gap(LastRead(in))'
      <3>1. LastRead(in)' = c
        BY <1>8, <2>1 DEF LastRead
      <3>2. To' = To /\ To <= c /\ c <= Len(file)
        <4>1. To' = To
          BY <1>1 DEF To
        <4> QED
          BY <1>2, <2>1, <4>1 DEF c
      <3> QED
        BY <1>1, <1>2, <2>6, <3>1, <3>2 DEF Gap, from
    <2>8. Shape'
      <3>1. Positioned(in)' /\ rr \in Streams
        BY <1>1, <1>2, <1>8 DEF Positioned
      <3>2. depth' \in Nat
        BY <1>2, <1>8
      <3> QED
        BY <1>1, <1>8, <3>1, <3>2 DEF IInv, Shape, Modes, Inside
    <2>9. NothingIsLost' /\ PositionsAreExact'
      BY <1>1, <1>8, NoTokenAdded DEF IInv
    <2>10. Placed(in)'
      BY <1>1, <1>2, <1>8 DEF Placed, Exact, RangeOn
    <2> QED
      BY <1>8, <2>7, <2>8, <2>9, <2>10 DEF IInv, Gaps, Places, Inside
  <1>9. CASE OpenComment
    BY <1>1, <1>5, <1>6, <1>9 DEF OpenComment, r, rr
  <1>10. CASE CloseComment
    <2>1. CASE r.ch = ")"
      BY <1>1, <1>7, <1>8, <1>10, <2>1 DEF CloseComment, r, rr
    <2>2. CASE r.ch # ")" /\ ~r.eof
      BY <1>1, <1>6, <1>10, <2>2 DEF CloseComment, r, rr
    <2>3. CASE r.ch # ")" /\ r.eof
      <3>1. in' = r /\ mode' = "exit" /\ depth' = depth
        BY <1>10, <2>3 DEF CloseComment, r
      <3>2. in.at = Len(file) /\ r \in Streams /\ r.at = in.at
        <4>1. ~(in.at < Len(file))
          BY <1>2, <2>3, ReadNext DEF r
        <4>2. in.at = Len(file)
          BY <1>2, <4>1
        <4>3. r.at \in 1 .. Len(file) /\ r \in Streams
          BY <1>2 DEF Positioned
        <4> QED
          BY <1>2, <4>2, <4>3
      <3> QED
        BY <1>1, <1>2, <3>1, <3>2, CommentExits
    <2> QED
      BY <2>1, <2>2, <2>3
  <1>11. CASE SkipComment
    <2>1. CASE in.eof
      <3>1. in' = in /\ mode' = "exit" /\ depth' = depth
        BY <1>11, <2>1 DEF SkipComment
      <3>2. in.at = Len(file) /\ in \in Streams
        BY <1>2, <2>1 DEF Positioned
      <3> QED
        BY <1>1, <1>2, <3>1, <3>2, CommentExits
    <2>2. CASE ~in.eof
      BY <1>1, <1>6, <1>11, <2>2 DEF SkipComment, r
    <2> QED
      BY <2>1, <2>2
  <1> QED
    BY <1>9, <1>10, <1>11 DEF scanComment

-----------------------------------------------------------------------------
\* IInv holds in every state of the scanner, for files of every length.
THEOREM ScannerInvariant == Spec => []IInv
  <1>1. Init => IInv
    BY InitInvariant
  <1>2. IInv /\ [Next]_vars => IInv'
    <2> SUFFICES ASSUME IInv, [Next]_vars PROVE IInv'
      OBVIOUS
    <2>1. CASE scanToken
      BY <2>1, SkipStep, SymbolStep, BeginCommentStep, BeginStep, EndOfFileStep DEF scanToken
    <2>2. CASE scanComment
      BY <2>2, CommentStep
    <2>3. CASE scanIdent
      BY <2>3, IdentStep
    <2>4. CASE scanNumber
      BY <2>4, DigitStep, FinishNumberStep DEF scanNumber
    <2>5. CASE scanString
      BY <2>5, StringStep DEF scanString
    <2>6. CASE UNCHANGED vars
      BY <2>6 DEF vars, IInv, Shape, Positioned, NoText, Gaps, Gap, To, LastRead, InComment, Depth,
                  Places, Placed, Exact, RangeOn, BeforeRange, NothingIsLost, PositionsAreExact
    <2> QED
      BY <2>1, <2>2, <2>3, <2>4, <2>5, <2>6 DEF Next
  <1> QED
    BY <1>1, <1>2, PTL DEF Spec

\* Between the tokens of every file there are only blanks, nested comments
\* that are closed, and characters that were reported, and scanToken exits
\* only in a comment that is not closed.
THEOREM NothingIsEverLost == Spec => []NothingIsLost
  <1>1. IInv => NothingIsLost
    BY DEF IInv
  <1> QED
    BY <1>1, ScannerInvariant, PTL

\* Lines are exact in every file, and columns but for those after a range
\* on the same line that follows a number.
THEOREM PositionsAreAlwaysExact == Spec => []PositionsAreExact
  <1>1. IInv => PositionsAreExact
    BY DEF IInv
  <1> QED
    BY <1>1, ScannerInvariant, PTL

-----------------------------------------------------------------------------
(* Lexemes                                                                 *)

\* A part of a text has the characters of the text.
LEMMA PartOfText ==
    ASSUME NEW f \in Seq(STRING), NEW b \in 1 .. Len(f), NEW e \in b - 1 .. Len(f), NEW s, s = SubSeq(f, b, e)
    PROVE  /\ s \in Seq(STRING) /\ Len(s) = e - b + 1
           /\ \A k \in 1 .. Len(s) : s[k] = f[b + k - 1]
           /\ \A k \in b .. e : s[k - b + 1] = f[k]
  <1>1. s \in Seq(STRING) /\ Len(s) = e - b + 1 /\ \A k \in 1 .. e - b + 1 : s[k] = f[b + k - 1]
    BY SubSeqProperties
  <1>2. ASSUME NEW k \in b .. e PROVE s[k - b + 1] = f[k]
    <2>1. k - b + 1 \in 1 .. e - b + 1 /\ b + (k - b + 1) - 1 = k
      OBVIOUS
    <2> QED
      BY <1>1, <2>1
  <1> QED
    BY <1>1, <1>2

\* A real number is digits around a point, and a scale whose sign comes
\* after the letter.
RealShape(s, p) ==
    /\ p \in 2 .. Len(s) /\ s[p] = "."
    /\ \A k \in 1 .. p - 1 : s[k] \in Digits
    /\ \A k \in p + 1 .. Len(s) : /\ s[k] \in Digits \cup Scales \cup {"+", "-"}
                                  /\ s[k] \in {"+", "-"} => s[k - 1] \in Scales

\* There is a scale at one place at most.
ScaledAt(s, at) == \A k \in 1 .. Len(s) : s[k] \in Scales => k = at

LEMMA FormHasShape ==
    ASSUME NEW s \in Seq(STRING), HasRealForm(s)
    PROVE  \E p \in 2 .. Len(s) : RealShape(s, p) /\ \E at \in p + 1 .. Len(s) + 1 : ScaledAt(s, at)
  <1>0. PICK p \in 2 .. Len(s) :
           /\ s[p] = "." /\ Consists(SubSeq(s, 1, p - 1), Digits)
           /\ \E last \in p .. Len(s) :
                Consists(SubSeq(s, p + 1, last), Digits) /\ IsScale(From(s, last + 1))
    BY DEF HasRealForm
  <1>1. PICK last \in p .. Len(s) : Consists(SubSeq(s, p + 1, last), Digits) /\ IsScale(From(s, last + 1))
    BY <1>0
  <1>2. \A k \in 1 .. p - 1 : s[k] \in Digits
    <2> DEFINE t == SubSeq(s, 1, p - 1)
    <2>1. p - 1 \in 0 .. Len(s) /\ 1 \in 1 .. Len(s)
      OBVIOUS
    <2>2. /\ Len(t) = p - 1 /\ t \in Seq(STRING)
          /\ \A k \in 1 .. p - 1 : t[k - 1 + 1] = s[k]
      BY <2>1, PartOfText
    <2>3. \A k \in 1 .. p - 1 : k - 1 + 1 \in DOMAIN t
      BY <2>2
    <2> HIDE DEF t
    <2> QED
      BY <1>0, <2>2, <2>3 DEF Consists, t
  <1>3. \A k \in p + 1 .. last : s[k] \in Digits
    <2>1. SUFFICES ASSUME NEW k \in p + 1 .. last PROVE s[k] \in Digits
      OBVIOUS
    <2> DEFINE t == SubSeq(s, p + 1, last)
    <2>2. p + 1 \in 1 .. Len(s) /\ last \in (p + 1) - 1 .. Len(s)
      OBVIOUS
    <2>3. t \in Seq(STRING) /\ Len(t) = last - (p + 1) + 1 /\ t[k - (p + 1) + 1] = s[k]
      BY <2>2, PartOfText
    <2>4. k - (p + 1) + 1 \in DOMAIN t
      BY <2>3
    <2> HIDE DEF t
    <2> QED
      BY <1>1, <2>3, <2>4 DEF Consists, t
  <1>4. ASSUME NEW k \in last + 1 .. Len(s)
        PROVE  /\ s[k] \in Digits \cup Scales \cup {"+", "-"}
               /\ s[k] \in {"+", "-"} => s[k - 1] \in Scales
               /\ s[k] \in Scales => k = last + 1
    <2> DEFINE c == From(s, last + 1)
               from == last + 1
               i == k - last
    <2>1. from \in 1 .. Len(s) /\ Len(s) \in from - 1 .. Len(s)
      OBVIOUS
    <2>2. c = SubSeq(s, from, Len(s)) /\ IsScale(c)
      BY <1>1 DEF From
    <2> HIDE DEF c, from
    <2>3. c \in Seq(STRING) /\ Len(c) = Len(s) - from + 1 /\ \A j \in 1 .. Len(c) : c[j] = s[from + j - 1]
      BY <2>1, <2>2, PartOfText
    <2>4. /\ Len(c) \in Nat /\ i \in 1 .. Len(c) /\ s[k] = c[i] /\ (i > 1 => s[k - 1] = c[i - 1])
          /\ i = 1 => k = last + 1
      <3>1. i \in 1 .. Len(c) /\ from + i - 1 = k /\ from + (i - 1) - 1 = k - 1
        BY <2>3 DEF from
      <3>2. i > 1 => i - 1 \in 1 .. Len(c)
        BY <3>1
      <3>3. i = 1 => k = last + 1
        OBVIOUS
      <3> HIDE DEF i
      <3> QED
        BY <2>3, <3>1, <3>2, <3>3
    <2> HIDE DEF i
    <2>5. /\ c[1] \in Scales
          /\ \E first \in {2, 3} :
               /\ first = 3 => Len(c) > 1 /\ c[2] \in {"+", "-"}
               /\ Consists(From(c, first), Digits)
      <3> DEFINE digits == IF Len(c) > 1 /\ c[2] \in {"+", "-"} THEN From(c, 3) ELSE From(c, 2)
      <3>1. c # <<>>
        BY <2>4
      <3>2. c[1] \in Scales /\ Consists(digits, Digits)
        BY <2>2, <3>1, Zenon DEF IsScale
      <3>3. CASE Len(c) > 1 /\ c[2] \in {"+", "-"}
        BY <3>2, <3>3
      <3>4. CASE ~(Len(c) > 1 /\ c[2] \in {"+", "-"})
        BY <3>2, <3>4
      <3> QED
        BY <3>3, <3>4
    <2>6. PICK first \in {2, 3} : (first = 3 => Len(c) > 1 /\ c[2] \in {"+", "-"}) /\ Consists(From(c, first), Digits)
      BY <2>5
    <2>7. CASE i < first
      BY <2>4, <2>5, <2>6, <2>7 DEF Digits, Scales, LongScales
    <2>8. CASE i >= first
      <3> DEFINE t == SubSeq(c, first, Len(c))
      <3>1. /\ first \in 1 .. Len(c) /\ Len(c) \in first - 1 .. Len(c) /\ i \in first .. Len(c)
            /\ i - first + 1 \in 1 .. Len(c) - first + 1
        BY <2>4, <2>8
      <3>2. t \in Seq(STRING) /\ Len(t) = Len(c) - first + 1 /\ t[i - first + 1] = c[i]
        <4>1. c \in Seq(STRING)
          BY <2>3
        <4>2. /\ t \in Seq(STRING) /\ Len(t) = Len(c) - first + 1
              /\ \A j \in first .. Len(c) : t[j - first + 1] = c[j]
          BY <3>1, <4>1, PartOfText
        <4> HIDE DEF t
        <4> QED
          BY <3>1, <4>2
      <3> HIDE DEF t
      <3>3. i - first + 1 \in DOMAIN t
        BY <3>1, <3>2
      <3>4. c[i] \in Digits
        BY <2>6, <3>2, <3>3 DEF Consists, From, t
      <3> QED
        BY <2>4, <3>4 DEF Digits, Scales, LongScales
    <2> QED
      BY <2>4, <2>7, <2>8
  <1>5. \A k \in p + 1 .. Len(s) : k \in p + 1 .. last \/ k \in last + 1 .. Len(s)
    OBVIOUS
  <1>6. /\ \A c \in Digits : c \notin {"+", "-"} /\ c \notin Scales
        /\ "." \notin Scales
    BY DEF Digits, Scales, LongScales
  <1>7. RealShape(s, p)
    BY <1>0, <1>2, <1>3, <1>4, <1>5, <1>6 DEF RealShape
  <1>8. ScaledAt(s, last + 1)
    <2>1. \A k \in 1 .. Len(s) : k \in 1 .. p - 1 \/ k = p \/ k \in p + 1 .. last \/ k \in last + 1 .. Len(s)
      OBVIOUS
    <2> QED
      BY <1>0, <1>2, <1>3, <1>4, <1>6, <2>1 DEF ScaledAt
  <1>9. last + 1 \in p + 1 .. Len(s) + 1
    OBVIOUS
  <1> QED
    BY <1>7, <1>8, <1>9

LEMMA RealHasShape ==
    ASSUME NEW s \in Seq(STRING), IsReal(s)
    PROVE  \E p \in 2 .. Len(s) : RealShape(s, p)
  BY FormHasShape DEF IsReal

\* Lexemes that begin with a digit are numbers.
LEMMA DigitsBeginNumbers ==
    ASSUME NEW s \in Seq(STRING), Len(s) > 0, s[1] \in Digits, IsLexeme(s)
    PROVE  IsNumber(s)
  <1>1. s[1] \notin Letters \cup {"_", Quote} \cup Singles
    BY DEF Digits, Letters, HexLetters, Quote, Singles
  <1>2. ASSUME s \in DOMAIN Compound PROVE FALSE
    <2>1. s[1] \in {"<", ">", ":", "."}
      BY <1>2 DEF Compound
    <2> QED
      BY <2>1 DEF Digits
  <1> QED
    BY <1>1, <1>2 DEF IsLexeme, IsIdent, IsString

\* What kinds of numbers there are: decimal, hexadecimal and real ones
LEMMA NumberKinds ==
    ASSUME NEW s \in Seq(STRING), IsNumber(s)
    PROVE  \/ IsDecimal(s) /\ Len(s) > 0 /\ \A k \in 1 .. Len(s) : s[k] \in Digits
           \/ /\ Len(s) > 1 /\ s[Len(s)] \in {"H", "X"} /\ \A k \in 1 .. Len(s) - 1 : s[k] \in HexDigits
              /\ IsHex(s, "H", LongBits) \/ IsHex(s, "X", CharBits)
           \/ IsReal(s) /\ \E p \in 2 .. Len(s) : RealShape(s, p)
  <1>1. CASE IsDecimal(s)
    BY <1>1 DEF IsDecimal, Consists
  <1>2. ASSUME NEW suffix \in {"H", "X"}, NEW bits, IsHex(s, suffix, bits)
        PROVE  Len(s) > 1 /\ s[Len(s)] \in {"H", "X"} /\ \A k \in 1 .. Len(s) - 1 : s[k] \in HexDigits
    <2>1. Front(s) = SubSeq(s, 1, Len(s) - 1) /\ Last(s) = s[Len(s)]
      BY DEF Front, Last
    <2>2. Len(s) > 1 /\ s[Len(s)] = suffix /\ Consists(Front(s), HexDigits)
      BY <1>2, <2>1 DEF IsHex
    <2> DEFINE n == Len(s) - 1
               t == SubSeq(s, 1, n)
    <2>3. n \in Nat /\ n \in 1 - 1 .. Len(s) /\ 1 \in 1 .. Len(s)
      BY <2>2
    <2>4. Consists(t, HexDigits)
      BY <2>1, <2>2
    <2> HIDE DEF n
    <2>5. Len(t) = n /\ t \in Seq(STRING) /\ \A k \in 1 .. n : t[k - 1 + 1] = s[k]
      <3> HIDE DEF t
      <3>1. Len(t) = n - 1 + 1 /\ t \in Seq(STRING) /\ \A k \in 1 .. n : t[k - 1 + 1] = s[k]
        BY <2>3, PartOfText DEF t
      <3> QED
        BY <2>3, <3>1
    <2>6. \A k \in 1 .. n : k - 1 + 1 \in DOMAIN t
      BY <2>3, <2>5
    <2> HIDE DEF t
    <2>7. \A k \in 1 .. n : s[k] \in HexDigits
      BY <2>4, <2>5, <2>6 DEF Consists
    <2> QED
      BY <1>2, <2>2, <2>7 DEF n
  <1>3. CASE IsReal(s)
    BY <1>3, RealHasShape
  <1> QED
    BY <1>1, <1>2, <1>3 DEF IsNumber

-----------------------------------------------------------------------------
(* The longest lexeme of a file at a place                                 *)

\* A token that is read does not change what it is.
LEMMA StaysLongest ==
    ASSUME NEW t, IsLongest(t), file' = file
    PROVE  IsLongest(t)'
  BY DEF IsLongest, Candidate, PointAtEnd, QuoteAtEnd, TooLarge, SignAfterReal, Text

LEMMA TokensStayLongest ==
    ASSUME TokensAreLongest, file' = file, tokens' = tokens
    PROVE  TokensAreLongest'
  <1>1. ASSUME NEW i \in DOMAIN tokens PROVE IsLongest(tokens[i])'
    BY <1>1 DEF TokensAreLongest, IsLongest, Candidate, PointAtEnd, QuoteAtEnd, TooLarge, SignAfterReal, Text
  <1> QED
    BY <1>1 DEF TokensAreLongest

\* A token is added that is the longest lexeme, or rejected.
LEMMA LongestAdded ==
    ASSUME TokensAreLongest, Shape, NEW t, IsLongest(t), tokens' = Append(tokens, t), file' = file
    PROVE  TokensAreLongest'
  <1>1. tokens \in Seq({tokens[i] : i \in DOMAIN tokens})
    BY DEF Shape
  <1>2. /\ Len(tokens) \in Nat /\ DOMAIN tokens' = 1 .. Len(tokens) + 1 /\ tokens'[Len(tokens) + 1] = t
        /\ DOMAIN tokens = 1 .. Len(tokens)
        /\ \A i \in 1 .. Len(tokens) : tokens'[i] = tokens[i]
    BY <1>1, LenProperties, AppendProperties
  <1>3. ASSUME NEW i \in DOMAIN tokens' PROVE IsLongest(tokens[i])'
    <2>1. PICK u : u = tokens'[i]
      OBVIOUS
    <2>2. IsLongest(u)
      <3>1. CASE i = Len(tokens) + 1
        BY <1>2, <2>1, <3>1
      <3>2. CASE i \in 1 .. Len(tokens)
        <4>1. u = tokens[i]
          BY <1>2, <2>1, <3>2
        <4>2. IsLongest(tokens[i])
          BY <1>2, <3>2 DEF TokensAreLongest
        <4> QED
          BY <4>1, <4>2
      <3> QED
        BY <1>2, <1>3, <3>1, <3>2
    <2>3. IsLongest(u)'
      BY <2>2, StaysLongest
    <2> QED
      BY <2>1, <2>3, Zenon DEF IsLongest, Candidate, PointAtEnd, QuoteAtEnd, TooLarge, SignAfterReal, Text
  <1> QED
    BY <1>3 DEF TokensAreLongest

\* Lexemes of numbers, in the file
RealAt(b, p, e) ==
    /\ file[p] = "." /\ \A k \in b .. p - 1 : file[k] \in Digits
    /\ \A k \in p + 1 .. e : /\ file[k] \in Digits \cup Scales \cup {"+", "-"}
                             /\ file[k] \in {"+", "-"} => file[k - 1] \in Scales

LEMMA NumberCandidate ==
    ASSUME file \in Seq(STRING), NEW b \in 1 .. Len(file), file[b] \in Digits, NEW e \in b .. Len(file),
           IsLexeme(SubSeq(file, b, e))
    PROVE  \/ \A k \in b .. e : file[k] \in Digits
           \/ e > b /\ file[e] \in {"H", "X"} /\ \A k \in b .. e - 1 : file[k] \in HexDigits
           \/ IsReal(SubSeq(file, b, e)) /\ \E p \in b + 1 .. e : RealAt(b, p, e)
  <1> DEFINE s == SubSeq(file, b, e)
  <1>1. s \in Seq(STRING) /\ Len(s) = e - b + 1 /\ \A k \in b .. e : s[k - b + 1] = file[k]
    BY PartOfText
  <1>2. IsNumber(s)
    <2>1. s[1] = file[b] /\ Len(s) > 0
      <3>1. b - b + 1 = 1 /\ b \in b .. e
        OBVIOUS
      <3> HIDE DEF s
      <3> QED
        BY <1>1, <3>1
    <2> HIDE DEF s
    <2> QED
      BY <1>1, <2>1, DigitsBeginNumbers DEF s
  <1> HIDE DEF s
  <1>3. CASE Len(s) > 0 /\ \A k \in 1 .. Len(s) : s[k] \in Digits
    <2>1. \A k \in b .. e : k - b + 1 \in 1 .. Len(s)
      BY <1>1
    <2> QED
      BY <1>1, <1>3, <2>1
  <1>4. CASE Len(s) > 1 /\ s[Len(s)] \in {"H", "X"} /\ \A k \in 1 .. Len(s) - 1 : s[k] \in HexDigits
    <2>1. \A k \in b .. e - 1 : k - b + 1 \in 1 .. Len(s) - 1
      BY <1>1
    <2>2. e > b /\ Len(s) = e - b + 1 /\ e \in b .. e
      BY <1>1, <1>4
    <2>3. file[e] \in {"H", "X"}
      BY <1>1, <1>4, <2>2
    <2>4. \A k \in b .. e - 1 : file[k] \in HexDigits
      BY <1>1, <1>4, <2>1
    <2> QED
      BY <2>2, <2>3, <2>4
  <1>5. CASE IsReal(s) /\ \E p \in 2 .. Len(s) : RealShape(s, p)
    <2>1. PICK q \in 2 .. Len(s) : RealShape(s, q)
      BY <1>5
    <2> DEFINE p == b + q - 1
    <2>2. p \in b + 1 .. e /\ p - b + 1 = q
      BY <1>1
    <2>3. file[p] = "."
      BY <1>1, <2>1, <2>2 DEF RealShape
    <2>4. ASSUME NEW k \in b .. p - 1 PROVE file[k] \in Digits
      <3>1. k - b + 1 \in 1 .. q - 1 /\ k \in b .. e
        BY <2>2
      <3> QED
        BY <1>1, <2>1, <3>1 DEF RealShape
    <2>5. ASSUME NEW k \in p + 1 .. e
          PROVE  /\ file[k] \in Digits \cup Scales \cup {"+", "-"}
                 /\ file[k] \in {"+", "-"} => file[k - 1] \in Scales
      <3> DEFINE i == k - b + 1
      <3>1. i \in q + 1 .. Len(s) /\ k \in b .. e /\ k - 1 \in b .. e /\ (k - 1) - b + 1 = i - 1
        BY <1>1, <2>2
      <3>2. s[i] = file[k] /\ s[i - 1] = file[k - 1]
        BY <1>1, <3>1
      <3> HIDE DEF i
      <3> QED
        BY <2>1, <3>1, <3>2 DEF RealShape
    <2> HIDE DEF p
    <2> QED
      BY <1>5, <2>2, <2>3, <2>4, <2>5 DEF RealAt, s
  <1> QED
    BY <1>1, <1>2, <1>3, <1>4, <1>5, NumberKinds

\* Real numbers begin with a digit.
LEMMA RealBegins ==
    ASSUME file \in Seq(STRING), NEW b \in 1 .. Len(file), NEW e \in b .. Len(file), IsReal(SubSeq(file, b, e))
    PROVE  file[b] \in Digits
  <1> DEFINE s == SubSeq(file, b, e)
  <1>1. s \in Seq(STRING) /\ Len(s) = e - b + 1 /\ s[b - b + 1] = file[b]
    BY PartOfText
  <1> HIDE DEF s
  <1>2. PICK p \in 2 .. Len(s) : RealShape(s, p)
    BY <1>1, RealHasShape DEF s
  <1>3. b - b + 1 = 1 /\ 1 \in 1 .. p - 1
    BY <1>1
  <1> QED
    BY <1>1, <1>2, <1>3 DEF RealShape

\* Lexemes that do not begin with a digit are candidates.
LEMMA OtherCandidate ==
    ASSUME file \in Seq(STRING), NEW b \in 1 .. Len(file), NEW e \in b .. Len(file), file[b] \notin Digits,
           IsLexeme(SubSeq(file, b, e))
    PROVE  Candidate(b, e)
  BY RealBegins DEF Candidate

\* A token that is the longest candidate
LEMMA AcceptedIsLongest ==
    ASSUME NEW t, file \in Seq(STRING), t.from \in 1 .. Len(file), t.to \in t.from .. Len(file), t.ok = TRUE,
           Candidate(t.from, t.to), \A k \in t.to + 1 .. Len(file) : ~Candidate(t.from, k)
    PROVE  IsLongest(t)
  <1> DEFINE lexemes == {to \in t.from .. Len(file) : Candidate(t.from, to)}
  <1>1. t.to \in lexemes
    OBVIOUS
  <1>2. ASSUME NEW longer \in lexemes PROVE longer <= t.to
    <2>1. longer \in Int /\ t.to \in Int /\ longer <= Len(file) /\ Candidate(t.from, longer)
      OBVIOUS
    <2>2. longer \notin t.to + 1 .. Len(file)
      BY <2>1
    <2> QED
      BY <2>1, <2>2
  <1> QED
    BY <1>1, <1>2 DEF IsLongest

LEMMA EmittedIsLongest ==
    ASSUME IInv, TokensAreLongest, NEW start, NEW s, NEW ok, NEW meaning, Emit(start, s, ok, meaning), file' = file,
           IsLongest(Token(start, s, ok, meaning))
    PROVE  TokensAreLongest'
  BY LongestAdded DEF IInv, Emit

\* The fields of a token
LEMMA TokenFields ==
    ASSUME NEW start, NEW s, NEW ok, NEW meaning, NEW t, t = Token(start, s, ok, meaning)
    PROVE  t.from = start.at /\ t.to = LastRead(s) /\ t.ok = ok
  BY DEF Token

-----------------------------------------------------------------------------
(* Symbols                                                                 *)

\* Texts of two and three characters are tuples.
LEMMA ShortTexts ==
    ASSUME NEW s \in Seq(STRING)
    PROVE  /\ Len(s) = 2 => s = <<s[1], s[2]>>
           /\ Len(s) = 3 => s = <<s[1], s[2], s[3]>>
  <1>1. ASSUME Len(s) = 2 PROVE s = <<s[1], s[2]>>
    <2>1. s[1] \in STRING /\ s[2] \in STRING
      <3>1. \A n \in 1 .. Len(s) : s[n] \in STRING
        BY ElementOfSeq
      <3>2. 1 \in 1 .. Len(s) /\ 2 \in 1 .. Len(s)
        BY <1>1
      <3> QED
        BY <3>1, <3>2
    <2> DEFINE t == <<s[1], s[2]>>
    <2>2. t \in Seq(STRING) /\ Len(t) = 2 /\ t[1] = s[1] /\ t[2] = s[2]
      BY <2>1
    <2>3. \A i \in 1 .. Len(s) : s[i] = t[i]
      BY <1>1, <2>2
    <2> HIDE DEF t
    <2> QED
      BY <1>1, <2>2, <2>3, SeqEqual DEF t
  <1>2. ASSUME Len(s) = 3 PROVE s = <<s[1], s[2], s[3]>>
    <2>1. s[1] \in STRING /\ s[2] \in STRING /\ s[3] \in STRING
      <3>1. \A n \in 1 .. Len(s) : s[n] \in STRING
        BY ElementOfSeq
      <3>2. 1 \in 1 .. Len(s) /\ 2 \in 1 .. Len(s) /\ 3 \in 1 .. Len(s)
        BY <1>2
      <3> QED
        BY <3>1, <3>2
    <2> DEFINE t == <<s[1], s[2], s[3]>>
    <2>2. t \in Seq(STRING) /\ Len(t) = 3 /\ t[1] = s[1] /\ t[2] = s[2] /\ t[3] = s[3]
      BY <2>1
    <2>3. \A i \in 1 .. Len(s) : s[i] = t[i]
      BY <1>2, <2>2
    <2> HIDE DEF t
    <2> QED
      BY <1>2, <2>2, <2>3, SeqEqual DEF t
  <1> QED
    BY <1>1, <1>2

\* The lexemes that begin like a symbol
LEMMA SymbolLexemes ==
    ASSUME file \in Seq(STRING), NEW b \in 1 .. Len(file), file[b] \in Singles, NEW e \in b .. Len(file)
    PROVE  IsLexeme(SubSeq(file, b, e)) <=>
             \/ e = b
             \/ /\ e = b + 1
                /\ (file[b] \in {"<", ">", ":"} /\ file[b + 1] = "=") \/ (file[b] = "." /\ file[b + 1] = ".")
             \/ e = b + 2 /\ file[b] = "." /\ file[b + 1] = "." /\ file[b + 2] = "."
  <1> DEFINE s == SubSeq(file, b, e)
  <1>1. s \in Seq(STRING) /\ Len(s) = e - b + 1 /\ \A k \in 1 .. Len(s) : s[k] = file[b + k - 1]
    BY PartOfText
  <1>2. b + 1 - 1 = b /\ b + 2 - 1 = b + 1 /\ b + 3 - 1 = b + 2 /\ Len(s) \in Nat \ {0}
    BY <1>1
  <1> HIDE DEF s
  <1>3. s[1] = file[b] /\ (Len(s) > 1 => s[2] = file[b + 1]) /\ (Len(s) > 2 => s[3] = file[b + 2])
    BY <1>1, <1>2
  <1>4. s[1] \notin Letters \cup {"_", Quote} \cup Digits
    BY <1>3 DEF Digits, Letters, HexLetters, Quote, Singles
  <1>5. ~IsIdent(s) /\ ~IsString(s)
    BY <1>4 DEF IsIdent, IsString
  <1>6. ~IsNumber(s)
    <2>1. Len(s) > 0 /\ (Len(s) - 1 >= 1 => 1 \in 1 .. Len(s) - 1)
      BY <1>2
    <2>2. \A p \in 2 .. Len(s) : 1 \in 1 .. p - 1
      BY <1>2
    <2>3. ~IsDecimal(s)
      <3>1. 1 \in DOMAIN s
        BY <1>1, <1>2
      <3> QED
        BY <1>4, <3>1 DEF IsDecimal, Consists
    <2>4. ~IsHex(s, "H", LongBits) /\ ~IsHex(s, "X", CharBits)
      BY <1>4 DEF IsHex
    <2>5. ~IsReal(s)
      BY <1>1, <1>4, <2>2, RealHasShape DEF RealShape
    <2> QED
      BY <2>3, <2>4, <2>5 DEF IsNumber
  <1>7. IsLexeme(s) <=> Len(s) = 1 \/ s \in DOMAIN Compound
    BY <1>3, <1>5, <1>6 DEF IsLexeme
  <1>8. DOMAIN Compound = {<<"<", "=">>, <<">", "=">>, <<":", "=">>, <<".", ".">>, <<".", ".", ".">>}
    BY DEF Compound
  <1>9. s \in DOMAIN Compound <=>
          \/ /\ Len(s) = 2
             /\ (s[1] \in {"<", ">", ":"} /\ s[2] = "=") \/ (s[1] = "." /\ s[2] = ".")
          \/ Len(s) = 3 /\ s[1] = "." /\ s[2] = "." /\ s[3] = "."
    <2>1. ASSUME s \in DOMAIN Compound
          PROVE  \/ /\ Len(s) = 2
                    /\ (s[1] \in {"<", ">", ":"} /\ s[2] = "=") \/ (s[1] = "." /\ s[2] = ".")
                 \/ Len(s) = 3 /\ s[1] = "." /\ s[2] = "." /\ s[3] = "."
      <3>1. CASE s = <<"<", "=">>
        BY <3>1
      <3>2. CASE s = <<">", "=">>
        BY <3>2
      <3>3. CASE s = <<":", "=">>
        BY <3>3
      <3>4. CASE s = <<".", ".">>
        BY <3>4
      <3>5. CASE s = <<".", ".", ".">>
        BY <3>5
      <3> QED
        BY <1>8, <2>1, <3>1, <3>2, <3>3, <3>4, <3>5
    <2>2. CASE Len(s) = 2
      <3>1. s = <<s[1], s[2]>>
        BY <1>1, <2>2, ShortTexts
      <3> DEFINE c == s[1]
                 d == s[2]
      <3> HIDE DEF c, d
      <3>2. s = <<c, d>>
        BY <3>1 DEF c, d
      <3>3. ((c \in {"<", ">", ":"} /\ d = "=") \/ (c = "." /\ d = ".")) => <<c, d>> \in DOMAIN Compound
        BY <1>8
      <3> QED
        BY <2>1, <2>2, <3>2, <3>3 DEF c, d
    <2>3. CASE Len(s) = 3
      <3>1. s = <<s[1], s[2], s[3]>>
        BY <1>1, <2>3, ShortTexts
      <3>2. s[1] = "." /\ s[2] = "." /\ s[3] = "." => s \in DOMAIN Compound
        BY <1>8, <3>1
      <3> QED
        BY <2>1, <2>3, <3>2
    <2> QED
      BY <2>1, <2>2, <2>3
  <1>10. (Len(s) = 1 <=> e = b) /\ (Len(s) = 2 <=> e = b + 1) /\ (Len(s) = 3 <=> e = b + 2)
    BY <1>1
  <1> QED
    BY <1>3, <1>7, <1>9, <1>10 DEF s

\* A symbol has all the characters that belong to it.
LEMMA SymbolIsLongest ==
    ASSUME IInv, TokensAreLongest, scanSymbol
    PROVE  TokensAreLongest'
  <1> DEFINE b == in.at
             r1 == Read(in)
             r2 == Read(r1)
             r3 == Read(r2)
             Is(e) == \/ e = b
                      \/ /\ e = b + 1
                         /\ (file[b] \in {"<", ">", ":"} /\ file[b + 1] = "=") \/ (file[b] = "." /\ file[b + 1] = ".")
                      \/ e = b + 2 /\ file[b] = "." /\ file[b + 1] = "." /\ file[b + 2] = "."
  <1>1. mode = "scan" /\ ~in.eof /\ file' = file /\ in.ch \in Singles
    BY DEF scanSymbol
  <1>2. /\ file \in Seq(STRING) /\ Len(file) \in Nat /\ Positioned(in) /\ in.ch = file[b] /\ b \in 1 .. Len(file)
    BY <1>1, Scanning
  <1>3. /\ Positioned(r1) /\ LastRead(r1) = b
        /\ b < Len(file) => r1.at = b + 1 /\ ~r1.eof /\ r1.ch = file[b + 1]
        /\ b = Len(file) => r1.ch = in.ch
    BY <1>1, <1>2, ReadNext DEF Positioned, Streams
  <1>4. /\ Positioned(r2)
        /\ b < Len(file) => LastRead(r2) = b + 1
        /\ b + 1 < Len(file) => ~r2.eof /\ r2.ch = file[b + 2] /\ r2.at = b + 2
    <2>1. b < Len(file) => /\ LastRead(r2) = r1.at
                           /\ r1.at < Len(file) => ~r2.eof /\ r2.ch = file[r1.at + 1] /\ r2.at = r1.at + 1
      BY <1>2, <1>3, ReadNext
    <2>2. b + 1 + 1 = b + 2 /\ (b + 1 < Len(file) => b < Len(file))
      BY <1>2
    <2> QED
      BY <1>2, <1>3, <2>1, <2>2, ReadNext
  <1>5. b + 1 < Len(file) => LastRead(r3) = b + 2
    BY <1>2, <1>4, ReadNext
  <1> HIDE DEF r1, r2, r3, b
  <1>6. file[b] \in Singles /\ file[b] \notin Digits
    BY <1>1, <1>2 DEF Singles, Digits
  <1>7. \A e \in b .. Len(file) : (IsLexeme(SubSeq(file, b, e)) <=> Is(e)) /\ (Is(e) => Candidate(b, e))
    BY <1>2, <1>6, SymbolLexemes, OtherCandidate
  <1>8. ASSUME NEW chars, NEW s, Symbol(chars, s), LastRead(s) \in b .. Len(file), Is(LastRead(s)),
               \A k \in LastRead(s) + 1 .. Len(file) : ~Is(k)
        PROVE  TokensAreLongest'
    <2> DEFINE meaning == [kind |-> IF Len(chars) = 1 THEN chars[1] ELSE Compound[chars], value |-> chars]
               t == Token(in, s, TRUE, meaning)
    <2>1. Emit(in, s, TRUE, meaning)
      BY <1>8 DEF Symbol
    <2> HIDE DEF meaning
    <2>2. t.from = b /\ t.to = LastRead(s) /\ t.ok = TRUE
      BY DEF Token, b
    <2> HIDE DEF t
    <2>3. \A k \in t.to + 1 .. Len(file) : k \in b .. Len(file) /\ ~Candidate(b, k)
      BY <1>2, <1>7, <1>8, <2>2 DEF Candidate
    <2>4. IsLongest(t)
      BY <1>2, <1>7, <1>8, <2>2, <2>3, AcceptedIsLongest
    <2> QED
      BY <1>1, <2>1, <2>4, EmittedIsLongest DEF t
  <1>9. CASE in.ch \notin {"<", ">", ":", "."} /\ Symbol(<<in.ch>>, r1)
    BY <1>2, <1>3, <1>8, <1>9
  <1>10. CASE in.ch \in {"<", ">", ":"} /\ r1.ch # "=" /\ Symbol(<<in.ch>>, r1)
    BY <1>2, <1>3, <1>8, <1>10
  <1>11. CASE in.ch \in {"<", ">", ":"} /\ r1.ch = "=" /\ Symbol(<<in.ch, "=">>, r2)
    <2>1. b < Len(file) /\ b + 1 \in b .. Len(file)
      BY <1>2, <1>3, <1>11
    <2>2. LastRead(r2) = b + 1 /\ file[b + 1] = "=" /\ file[b] \in {"<", ">", ":"}
      BY <1>2, <1>3, <1>4, <1>11, <2>1
    <2>3. file[b] # "."
      BY <2>2
    <2>4. Is(b + 1)
      BY <1>2, <2>2
    <2>5. ASSUME NEW k \in b + 1 + 1 .. Len(file) PROVE ~Is(k)
      <3>1. k # b /\ k # b + 1
        BY <1>2
      <3> QED
        BY <2>3, <3>1
    <2> QED
      BY <1>8, <1>11, <2>1, <2>2, <2>4, <2>5
  <1>12. CASE in.ch = "." /\ ~(~r1.eof /\ r1.ch = ".") /\ Symbol(<<".">>, r1)
    BY <1>2, <1>3, <1>8, <1>12
  <1>13. CASE in.ch = "." /\ ~r1.eof /\ r1.ch = "."
    <2>1. b < Len(file)
      <3>1. ASSUME b = Len(file) PROVE r1.eof
        BY <1>2, <3>1, ReadNext DEF r1, b, Positioned, Streams
      <3> QED
        BY <1>2, <1>13, <3>1
    <2>2. file[b] = "." /\ file[b + 1] = "."
      BY <1>2, <1>3, <1>13, <2>1
    <2>3. CASE ~(~r2.eof /\ r2.ch = ".") /\ Symbol(<<".", ".">>, r2)
      BY <1>2, <1>4, <1>8, <2>1, <2>2, <2>3
    <2>4. CASE ~r2.eof /\ r2.ch = "." /\ Symbol(<<".", ".", ".">>, r3)
      <3>1. b + 1 < Len(file)
        <4>1. ASSUME b + 1 = Len(file) PROVE r2.eof
          BY <1>2, <1>3, <2>1, <4>1, ReadNext DEF r2, Positioned, Streams
        <4> QED
          BY <1>2, <2>1, <2>4, <4>1
      <3> QED
        BY <1>2, <1>4, <1>5, <1>8, <2>2, <2>4, <3>1
    <2> QED
      BY <1>13, <2>3, <2>4 DEF scanSymbol, r1, r2, r3
  <1> QED
    BY <1>9, <1>10, <1>11, <1>12, <1>13 DEF scanSymbol, r1, r2, r3

-----------------------------------------------------------------------------
(* Identifiers                                                             *)

Initials == Letters \cup {"_"}
NameCharacters == Letters \cup Digits \cup {"_"}

\* What scanIdent has read of a name
InName == LET b == begin.at
              e == LastRead(in)
          IN  b <= e /\ file[b] \in Initials /\ \A k \in b .. e : file[k] \in NameCharacters

\* A name ends where no letter or digit follows.
LEMMA NameLexemes ==
    ASSUME file \in Seq(STRING), NEW b \in 1 .. Len(file), file[b] \in Initials, NEW e \in b .. Len(file)
    PROVE  IsLexeme(SubSeq(file, b, e)) <=> \A k \in b .. e : file[k] \in NameCharacters
  <1> DEFINE s == SubSeq(file, b, e)
  <1>1. /\ s \in Seq(STRING) /\ Len(s) = e - b + 1 /\ \A k \in 1 .. Len(s) : s[k] = file[b + k - 1]
        /\ \A k \in b .. e : s[k - b + 1] = file[k]
    BY PartOfText
  <1> HIDE DEF s
  <1>2. Len(s) \in Nat \ {0} /\ 1 \in DOMAIN s /\ s[1] = file[b]
    <2>1. 1 \in 1 .. Len(s) /\ b + 1 - 1 = b
      BY <1>1
    <2> QED
      BY <1>1, <2>1
  <1>3. s[1] \in Initials /\ s[1] \notin Digits \cup Singles /\ s[1] # Quote
    BY <1>2 DEF Initials, Digits, Letters, HexLetters, Quote, Singles
  <1>4. ~IsNumber(s)
    <2>1. ~IsDecimal(s)
      BY <1>2, <1>3 DEF IsDecimal, Consists
    <2>2. ~IsHex(s, "H", LongBits) /\ ~IsHex(s, "X", CharBits)
      BY <1>3 DEF IsHex
    <2>3. \A p \in 2 .. Len(s) : 1 \in 1 .. p - 1
      BY <1>2
    <2>4. ~IsReal(s)
      BY <1>1, <1>3, <2>3, RealHasShape DEF RealShape
    <2> QED
      BY <2>1, <2>2, <2>4 DEF IsNumber
  <1>5. s \notin DOMAIN Compound
    <2>1. s \in DOMAIN Compound => s[1] \in {"<", ">", ":", "."}
      BY DEF Compound
    <2> QED
      BY <1>3, <2>1 DEF Initials, Letters, HexLetters
  <1>6. IsLexeme(s) <=> \A k \in 1 .. Len(s) : s[k] \in NameCharacters
    <2>1. s # <<>> /\ DOMAIN s = 1 .. Len(s)
      BY <1>1, <1>2
    <2>2. IsIdent(s) <=> \A k \in 1 .. Len(s) : s[k] \in NameCharacters
      BY <1>3, <2>1 DEF IsIdent, Consists, Initials, NameCharacters
    <2> QED
      BY <1>3, <1>4, <1>5, <2>2 DEF IsLexeme, IsString
  <1>7. (\A k \in 1 .. Len(s) : s[k] \in NameCharacters) <=> (\A k \in b .. e : file[k] \in NameCharacters)
    <2>1. \A k \in 1 .. Len(s) : b + k - 1 \in b .. e
      BY <1>1
    <2>2. \A k \in b .. e : k - b + 1 \in 1 .. Len(s)
      BY <1>1
    <2> QED
      BY <1>1, <2>1, <2>2
  <1> QED
    BY <1>6, <1>7 DEF s

LEMMA NameIsLongest ==
    ASSUME file \in Seq(STRING), NEW t, t.from \in 1 .. Len(file), t.to \in t.from .. Len(file), t.ok = TRUE,
           file[t.from] \in Initials, \A k \in t.from .. t.to : file[k] \in NameCharacters,
           t.to < Len(file) => file[t.to + 1] \notin NameCharacters
    PROVE  IsLongest(t)
  <1> DEFINE b == t.from
             e == t.to
  <1>1. file[b] \notin Digits
    BY DEF Initials, Digits, Letters, HexLetters
  <1>2. Candidate(b, e)
    BY <1>1, NameLexemes, OtherCandidate
  <1>3. ASSUME NEW k \in e + 1 .. Len(file) PROVE ~Candidate(b, k)
    <2>1. k \in b .. Len(file) /\ e + 1 \in b .. k /\ e < Len(file)
      OBVIOUS
    <2> QED
      BY <2>1, NameLexemes DEF Candidate
  <1> QED
    BY <1>2, <1>3, AcceptedIsLongest

-----------------------------------------------------------------------------
(* Strings                                                                 *)

\* The function Escaped satisfies its recursive definition.
LEMMA EscapedExists ==
    ASSUME NEW s \in Seq(STRING)
    PROVE  Escaped(s) = [k \in 1 .. Len(s) |-> k > 1 /\ s[k - 1] = Backslash /\ ~Escaped(s)[k - 1]]
  <1> DEFINE Is(g, n) == g = [k \in 1 .. n |-> k > 1 /\ s[k - 1] = Backslash /\ ~g[k - 1]]
             S == {n \in Nat : \E g : Is(g, n)}
  <1>1. 0 \in S
    <2>1. Is([k \in 1 .. 0 |-> FALSE], 0)
      OBVIOUS
    <2> QED
      BY <2>1
  <1>2. ASSUME NEW n \in Nat, n \in S PROVE n + 1 \in S
    <2>1. PICK g : Is(g, n)
      BY <1>2
    <2> DEFINE last == n > 0 /\ s[n] = Backslash /\ ~g[n]
               h == [k \in 1 .. n + 1 |-> IF k = n + 1 THEN last ELSE g[k]]
    <2>2. \A k \in 1 .. n : h[k] = g[k]
      OBVIOUS
    <2>3. h[n + 1] = last
      OBVIOUS
    <2>4. ASSUME NEW k \in 1 .. n + 1
          PROVE  h[k] = (k > 1 /\ s[k - 1] = Backslash /\ ~h[k - 1])
      <3>1. CASE k = n + 1
        <4>1. n > 0 => h[n] = g[n]
          BY <2>2
        <4>2. k - 1 = n /\ (k > 1 <=> n > 0)
          BY <3>1
        <4> HIDE DEF h
        <4> QED
          BY <2>3, <3>1, <4>1, <4>2
      <3>2. CASE k # n + 1
        <4>1. k \in 1 .. n /\ (k > 1 => k - 1 \in 1 .. n)
          BY <3>2
        <4>2. g[k] = (k > 1 /\ s[k - 1] = Backslash /\ ~g[k - 1])
          BY <2>1, <4>1
        <4> HIDE DEF h
        <4> QED
          BY <2>2, <4>1, <4>2
      <3> QED
        BY <3>1, <3>2
    <2>5. Is(h, n + 1)
      BY <2>4, Zenon
    <2> HIDE DEF Is, h
    <2> QED
      BY <2>5
  <1>3. PICK g : Is(g, Len(s))
    <2> HIDE DEF Is
    <2>1. Nat \subseteq S
      <3> HIDE DEF S
      <3> QED
        BY <1>1, <1>2, NatSet, Zenon
    <2>2. Len(s) \in S
      BY <2>1
    <2> QED
      BY <2>2
  <1> QED
    BY <1>3 DEF Escaped

LEMMA EscapedStep ==
    ASSUME NEW s \in Seq(STRING)
    PROVE  \A k \in 1 .. Len(s) : (Escaped(s)[k] <=> k > 1 /\ s[k - 1] = Backslash /\ ~Escaped(s)[k - 1])
  <1> DEFINE E == Escaped(s)
  <1>1. E = [k \in 1 .. Len(s) |-> k > 1 /\ s[k - 1] = Backslash /\ ~E[k - 1]]
    BY EscapedExists
  <1> HIDE DEF E
  <1>2. \A k \in 1 .. Len(s) : (E[k] <=> k > 1 /\ s[k - 1] = Backslash /\ ~E[k - 1])
    BY <1>1, Zenon
  <1> QED
    BY <1>2 DEF E

\* Whether a character is escaped depends on those before it only.
LEMMA EscapedAgree ==
    ASSUME NEW s \in Seq(STRING), NEW t \in Seq(STRING), NEW m \in Nat, m <= Len(s), m <= Len(t),
           \A k \in 1 .. m : s[k] = t[k]
    PROVE  \A k \in 1 .. m : Escaped(s)[k] <=> Escaped(t)[k]
  <1> DEFINE A == Escaped(s)
             B == Escaped(t)
             S == {n \in Nat : n + 1 \in 1 .. m => (A[n + 1] <=> B[n + 1])}
  <1>1. /\ \A k \in 1 .. m : (A[k] <=> k > 1 /\ s[k - 1] = Backslash /\ ~A[k - 1])
        /\ \A k \in 1 .. m : (B[k] <=> k > 1 /\ t[k - 1] = Backslash /\ ~B[k - 1])
    <2>1. \A k \in 1 .. m : k \in 1 .. Len(s) /\ k \in 1 .. Len(t)
      OBVIOUS
    <2> QED
      BY <2>1, EscapedStep, Zenon
  <1> HIDE DEF A, B
  <1>2. 0 \in S
    <2>1. 1 \in 1 .. m => ~A[1] /\ ~B[1]
      BY <1>1
    <2> QED
      BY <2>1
  <1>3. ASSUME NEW n \in Nat, n \in S PROVE n + 1 \in S
    <2>1. SUFFICES ASSUME n + 1 + 1 \in 1 .. m PROVE A[n + 1 + 1] <=> B[n + 1 + 1]
      OBVIOUS
    <2> DEFINE k == n + 1 + 1
    <2>2. k \in 1 .. m /\ k - 1 = n + 1 /\ n + 1 \in 1 .. m /\ k > 1
      BY <2>1
    <2>3. (A[n + 1] <=> B[n + 1]) /\ s[n + 1] = t[n + 1]
      BY <1>3, <2>2
    <2> HIDE DEF k
    <2>4. (A[k] <=> s[n + 1] = Backslash /\ ~A[n + 1]) /\ (B[k] <=> t[n + 1] = Backslash /\ ~B[n + 1])
      BY <1>1, <2>2
    <2> QED
      BY <2>3, <2>4 DEF k
  <1>4. Nat \subseteq S
    <2> HIDE DEF S
    <2> QED
      BY <1>2, <1>3, NatSet, Zenon
  <1>5. ASSUME NEW k \in 1 .. m PROVE A[k] <=> B[k]
    <2> DEFINE n == k - 1
    <2>1. n \in Nat /\ n + 1 = k
      OBVIOUS
    <2> HIDE DEF n
    <2>2. n + 1 \in 1 .. m => (A[n + 1] <=> B[n + 1])
      BY <1>4, <2>1
    <2> QED
      BY <2>1, <2>2
  <1> QED
    BY <1>5 DEF A, B

\* The character at k is escaped in a string that begins at b.
Esc(b, k) == Escaped(SubSeq(file, b, Len(file)))[k - b + 1]

LEMMA EscNext ==
    ASSUME file \in Seq(STRING), NEW b \in 1 .. Len(file)
    PROVE  /\ ~Esc(b, b)
           /\ \A k \in b + 1 .. Len(file) : (Esc(b, k) <=> file[k - 1] = Backslash /\ ~Esc(b, k - 1))
  <1> DEFINE s == SubSeq(file, b, Len(file))
  <1>1. s \in Seq(STRING) /\ Len(s) = Len(file) - b + 1 /\ \A k \in b .. Len(file) : s[k - b + 1] = file[k]
    BY PartOfText
  <1> HIDE DEF s
  <1>2. \A i \in 1 .. Len(s) : (Escaped(s)[i] <=> i > 1 /\ s[i - 1] = Backslash /\ ~Escaped(s)[i - 1])
    BY <1>1, EscapedStep
  <1>3. ~Escaped(s)[b - b + 1]
    <2>1. b - b + 1 = 1 /\ 1 \in 1 .. Len(s)
      BY <1>1
    <2> QED
      BY <1>2, <2>1
  <1>4. ASSUME NEW k \in b + 1 .. Len(file)
        PROVE  Escaped(s)[k - b + 1] <=> file[k - 1] = Backslash /\ ~Escaped(s)[(k - 1) - b + 1]
    <2> DEFINE i == k - b + 1
    <2>1. i \in 1 .. Len(s) /\ i > 1 /\ i - 1 = (k - 1) - b + 1 /\ k - 1 \in b .. Len(file)
      BY <1>1
    <2>2. s[i - 1] = file[k - 1]
      BY <1>1, <2>1
    <2> HIDE DEF i
    <2>3. Escaped(s)[i] <=> file[k - 1] = Backslash /\ ~Escaped(s)[i - 1]
      BY <1>2, <2>1, <2>2
    <2> QED
      BY <2>1, <2>3 DEF i
  <1> QED
    BY <1>3, <1>4 DEF Esc, s

\* Strings end with the first quote that is not escaped.
LEMMA StringLexemes ==
    ASSUME file \in Seq(STRING), NEW b \in 1 .. Len(file), file[b] = Quote, NEW e \in b .. Len(file)
    PROVE  IsLexeme(SubSeq(file, b, e)) <=>
             /\ b < e /\ file[e] = Quote
             /\ \A k \in b + 1 .. e : file[k] = Quote => (Esc(b, k) <=> k < e)
  <1> DEFINE s == SubSeq(file, b, e)
             u == SubSeq(file, b, Len(file))
  <1>1. /\ s \in Seq(STRING) /\ Len(s) = e - b + 1
        /\ \A k \in 1 .. Len(s) : s[k] = file[b + k - 1]
        /\ \A k \in b .. e : s[k - b + 1] = file[k]
    BY PartOfText
  <1>2. u \in Seq(STRING) /\ Len(u) = Len(file) - b + 1 /\ \A k \in 1 .. Len(u) : u[k] = file[b + k - 1]
    BY PartOfText
  <1> HIDE DEF s, u
  <1>3. \A i \in 1 .. Len(s) : Escaped(s)[i] <=> Escaped(u)[i]
    <2>1. Len(s) \in Nat /\ Len(s) <= Len(u) /\ \A i \in 1 .. Len(s) : i \in 1 .. Len(u)
      BY <1>1, <1>2
    <2>2. \A i \in 1 .. Len(s) : s[i] = u[i]
      BY <1>1, <1>2, <2>1
    <2>3. Len(s) <= Len(s)
      BY <2>1
    <2> QED
      BY <1>1, <1>2, <2>1, <2>2, <2>3, EscapedAgree
  <1>4. Len(s) \in Nat \ {0} /\ 1 \in DOMAIN s /\ s[1] = file[b] /\ s[1] = Quote
    <2>1. 1 \in 1 .. Len(s) /\ b + 1 - 1 = b
      BY <1>1
    <2> QED
      BY <1>1, <2>1
  <1>5. s[1] \notin Initials \cup Digits \cup Singles
    BY <1>4 DEF Initials, Digits, Letters, HexLetters, Quote, Singles
  <1>6. ~IsNumber(s)
    <2>1. ~IsDecimal(s)
      BY <1>4, <1>5 DEF IsDecimal, Consists
    <2>2. ~IsHex(s, "H", LongBits) /\ ~IsHex(s, "X", CharBits)
      BY <1>5 DEF IsHex
    <2>3. \A p \in 2 .. Len(s) : 1 \in 1 .. p - 1
      BY <1>4
    <2>4. ~IsReal(s)
      BY <1>1, <1>5, <2>3, RealHasShape DEF RealShape
    <2> QED
      BY <2>1, <2>2, <2>4 DEF IsNumber
  <1>7. s \notin DOMAIN Compound
    <2>1. s \in DOMAIN Compound => s[1] \in {"<", ">", ":", "."}
      BY DEF Compound
    <2> QED
      BY <1>4, <2>1 DEF Quote
  <1>8. IsLexeme(s) <=> IsString(s)
    BY <1>5, <1>6, <1>7 DEF IsLexeme, IsIdent, Initials
  <1>9. s[Len(s)] = file[e]
    <2>1. e \in b .. e /\ e - b + 1 = Len(s)
      BY <1>1
    <2> QED
      BY <1>1, <2>1
  <1>10. IsString(s) <=> /\ Len(s) > 1 /\ file[e] = Quote
                         /\ \A i \in 2 .. Len(s) : s[i] = Quote => (Escaped(u)[i] <=> i < Len(s))
    <2>1. Last(s) = s[Len(s)]
      BY DEF Last
    <2>2. \A i \in 2 .. Len(s) : Escaped(s)[i] <=> Escaped(u)[i]
      BY <1>3
    <2>3. IsString(s) <=> /\ Len(s) > 1 /\ s[1] = Quote /\ Last(s) = Quote
                          /\ \A i \in 2 .. Len(s) : s[i] = Quote => (Escaped(s)[i] <=> i < Len(s))
      BY Zenon DEF IsString
    <2> QED
      BY <1>4, <1>9, <2>1, <2>2, <2>3
  <1>11. (\A i \in 2 .. Len(s) : s[i] = Quote => (Escaped(u)[i] <=> i < Len(s))) <=>
         (\A k \in b + 1 .. e : file[k] = Quote => (Escaped(u)[k - b + 1] <=> k < e))
    <2>1. ASSUME NEW i \in 2 .. Len(s)
          PROVE  \E k \in b + 1 .. e : k - b + 1 = i /\ file[k] = s[i] /\ (k < e <=> i < Len(s))
      <3> DEFINE k == b + i - 1
      <3>1. k \in b + 1 .. e /\ k - b + 1 = i /\ (k < e <=> i < Len(s)) /\ i \in 1 .. Len(s)
        BY <1>1
      <3>2. file[k] = s[i]
        BY <1>1, <3>1
      <3> HIDE DEF k
      <3> QED
        BY <3>1, <3>2
    <2>2. ASSUME NEW k \in b + 1 .. e
          PROVE  k - b + 1 \in 2 .. Len(s) /\ file[k] = s[k - b + 1] /\ (k < e <=> k - b + 1 < Len(s))
      <3>1. k - b + 1 \in 2 .. Len(s) /\ (k < e <=> k - b + 1 < Len(s)) /\ k \in b .. e
        BY <1>1
      <3> QED
        BY <1>1, <3>1
    <2>3. ASSUME \A i \in 2 .. Len(s) : s[i] = Quote => (Escaped(u)[i] <=> i < Len(s)), NEW k \in b + 1 .. e, file[k] = Quote
          PROVE  Escaped(u)[k - b + 1] <=> k < e
      BY <2>2, <2>3
    <2>4. ASSUME \A k \in b + 1 .. e : file[k] = Quote => (Escaped(u)[k - b + 1] <=> k < e), NEW i \in 2 .. Len(s), s[i] = Quote
          PROVE  Escaped(u)[i] <=> i < Len(s)
      BY <2>1, <2>4
    <2> QED
      BY <2>3, <2>4
  <1>12. Len(s) > 1 <=> b < e
    BY <1>1
  <1> QED
    BY <1>8, <1>10, <1>11, <1>12 DEF Esc, s, u

\* What scanString has read of a string: the next character is not escaped,
\* and the quotes before it are.
InString == LET b == begin.at
            IN  /\ file[b] = Quote
                /\ ~in.eof => /\ b < in.at /\ ~Esc(b, in.at)
                              /\ \A k \in b + 1 .. in.at - 1 : file[k] = Quote => Esc(b, k)

LEMMA StringIsLongest ==
    ASSUME file \in Seq(STRING), NEW t, t.from \in 1 .. Len(file), t.to \in t.from + 1 .. Len(file), t.ok = TRUE,
           file[t.from] = Quote, file[t.to] = Quote, ~Esc(t.from, t.to),
           \A k \in t.from + 1 .. t.to - 1 : file[k] = Quote => Esc(t.from, k)
    PROVE  IsLongest(t)
  <1> DEFINE b == t.from
             e == t.to
  <1>1. file[b] \notin Digits /\ e \in b .. Len(file)
    <2>1. Quote \notin Digits
      BY DEF Quote, Digits
    <2> QED
      BY <2>1
  <1>2. \A k \in b + 1 .. e : k = e \/ (k \in b + 1 .. e - 1 /\ k < e)
    OBVIOUS
  <1>3. Candidate(b, e)
    <2>1. b < e /\ \A k \in b + 1 .. e : file[k] = Quote => (Esc(b, k) <=> k < e)
      BY <1>2
    <2>2. b \in 1 .. Len(file) /\ file[b] = Quote /\ file[e] = Quote
      OBVIOUS
    <2> HIDE DEF b, e
    <2>3. IsLexeme(SubSeq(file, b, e))
      BY <1>1, <2>1, <2>2, StringLexemes
    <2> QED
      BY <1>1, <2>2, <2>3, OtherCandidate
  <1>4. ASSUME NEW k \in e + 1 .. Len(file) PROVE ~Candidate(b, k)
    <2>1. k \in b .. Len(file) /\ e \in b + 1 .. k /\ e < k
      OBVIOUS
    <2> QED
      BY <2>1, StringLexemes DEF Candidate
  <1> QED
    BY <1>1, <1>3, <1>4, AcceptedIsLongest

-----------------------------------------------------------------------------
(* The loops that collect names and strings                                *)

\* Where ch_ is, and what has been read
LEMMA ReadPlaces ==
    ASSUME file \in Seq(STRING), NEW s, Positioned(s)
    PROVE  /\ s.at \in 1 .. Len(file) /\ s.ch = file[s.at] /\ Len(file) \in Nat
           /\ s.eof => LastRead(s) = s.at /\ s.at = Len(file)
           /\ ~s.eof => LastRead(s) = s.at - 1
           /\ LastRead(s) \in 0 .. Len(file) /\ (LastRead(s) < Len(file) => ~s.eof)
           /\ ~s.eof => LastRead(Read(s)) = s.at
           /\ Positioned(Read(s))
           /\ s.at = Len(file) => Read(s).eof /\ Read(s).ch = s.ch
           /\ s.at < Len(file) => Read(s).at = s.at + 1 /\ ~Read(s).eof /\ ~s.eof /\ Read(s).ch = file[s.at + 1]
  <1>1. s \in Streams /\ s.at \in 1 .. Len(file) /\ s.ch = file[s.at] /\ Len(file) \in Nat /\ (s.eof => s.at = Len(file))
    BY DEF Positioned
  <1>2. s.at = Len(file) => Read(s) = [s EXCEPT !.eof = TRUE]
    BY ReadNext
  <1>3. s.at = Len(file) => Read(s).eof /\ Read(s).ch = s.ch
    BY <1>1, <1>2 DEF Streams
  <1> QED
    BY <1>1, <1>3, ReadNext DEF LastRead

LEMMA BeginNameStep ==
    ASSUME IInv, BeginIdent
    PROVE  InName'
  <1>1. /\ mode = "scan" /\ ~in.eof /\ in.ch \in Letters \cup {"_"} /\ begin' = in /\ in' = Read(in) /\ file' = file
    BY DEF BeginIdent, Loop
  <1>2. file \in Seq(STRING) /\ Positioned(in)
    BY <1>1, Scanning
  <1>3. in.at \in 1 .. Len(file) /\ in.ch = file[in.at] /\ LastRead(Read(in)) = in.at
    BY <1>1, <1>2, ReadPlaces
  <1>4. LastRead(in)' = in.at /\ begin'.at = in.at
    BY <1>1, <1>3 DEF LastRead
  <1>5. \A k \in in.at .. in.at : k = in.at
    BY <1>3
  <1> QED
    <2>1. file[in.at] \in Initials /\ file[in.at] \in NameCharacters
      BY <1>1, <1>3 DEF Initials, NameCharacters
    <2>2. file'[begin'.at] \in Initials /\ \A k \in begin'.at .. LastRead(in)' : file'[k] \in NameCharacters
      BY <1>1, <1>4, <1>5, <2>1
    <2>3. begin'.at <= LastRead(in)'
      BY <1>3, <1>4
    <2> QED
      BY <2>2, <2>3 DEF InName

LEMMA NameStep ==
    ASSUME IInv, TokensAreLongest, mode = "ident" => InName, scanIdent
    PROVE  TokensAreLongest' /\ (mode' = "ident" => InName') /\ mode' \in {"ident", "scan"}
  <1> DEFINE b == begin.at
             e == LastRead(in)
  <1>1. mode = "ident" /\ file' = file /\ begin' = begin
    BY DEF scanIdent
  <1>2. file \in Seq(STRING) /\ Positioned(in) /\ Positioned(begin)
    BY <1>1, Collecting
  <1>3. /\ in.at \in 1 .. Len(file) /\ in.ch = file[in.at] /\ Len(file) \in Nat
        /\ e \in 0 .. Len(file) /\ (~in.eof => e = in.at - 1 /\ LastRead(Read(in)) = in.at)
        /\ e < Len(file) => ~in.eof
        /\ b \in 1 .. Len(file)
    BY <1>2, ReadPlaces
  <1>4. b <= e /\ file[b] \in Initials /\ \A k \in b .. e : file[k] \in NameCharacters
    BY <1>1 DEF InName
  <1>5. CASE ~in.eof /\ in.ch \in NameCharacters /\ Loop("ident", Read(in)) /\ UNCHANGED tokens
    <2>1. mode' = "ident" /\ in' = Read(in) /\ tokens' = tokens
      BY <1>5 DEF Loop
    <2>2. LastRead(in)' = in.at /\ in.at = e + 1 /\ b' = b
      BY <1>1, <1>3, <1>5, <2>1 DEF LastRead
    <2> HIDE DEF b, e
    <2>3. \A k \in b .. in.at : k \in b .. e \/ k = in.at
      BY <1>3, <2>2
    <2>4. \A k \in b .. in.at : file[k] \in NameCharacters
      BY <1>3, <1>4, <1>5, <2>3
    <2>5. b <= in.at
      BY <1>3, <1>4, <2>2
    <2>6. InName'
      BY <1>1, <1>4, <2>2, <2>4, <2>5 DEF InName, b
    <2> QED
      BY <1>1, <2>1, <2>6, TokensStayLongest
  <1>6. CASE /\ ~(~in.eof /\ in.ch \in NameCharacters)
             /\ Emit(begin, in, TRUE, [kind |-> IF lexeme \in Keywords THEN "keyword" ELSE "ident", value |-> lexeme])
    <2> DEFINE meaning == [kind |-> IF lexeme \in Keywords THEN "keyword" ELSE "ident", value |-> lexeme]
               t == Token(begin, in, TRUE, meaning)
    <2>1. Emit(begin, in, TRUE, meaning) /\ mode' = "scan"
      BY <1>6 DEF Emit
    <2> HIDE DEF meaning
    <2>2. t.from = b /\ t.to = e /\ t.ok = TRUE
      BY DEF Token
    <2> HIDE DEF t, b, e
    <2>3. e < Len(file) => file[e + 1] \notin NameCharacters
      BY <1>3, <1>6
    <2>4. t.from \in 1 .. Len(file) /\ t.to \in t.from .. Len(file)
      BY <1>3, <1>4, <2>2
    <2>5. file[t.from] \in Initials /\ \A k \in t.from .. t.to : file[k] \in NameCharacters
      BY <1>4, <2>2
    <2>6. t.to < Len(file) => file[t.to + 1] \notin NameCharacters
      BY <2>2, <2>3
    <2>7. IsLongest(t)
      BY <1>2, <2>2, <2>4, <2>5, <2>6, NameIsLongest
    <2> QED
      BY <1>1, <2>1, <2>7, EmittedIsLongest DEF t
  <1> QED
    BY <1>5, <1>6 DEF scanIdent, NameCharacters

LEMMA BeginStringStep ==
    ASSUME IInv, BeginString
    PROVE  InString'
  <1> DEFINE b == in.at
             r == Read(in)
  <1>1. mode = "scan" /\ ~in.eof /\ in.ch = Quote /\ begin' = in /\ in' = r /\ file' = file
    BY DEF BeginString, Loop
  <1>2. file \in Seq(STRING) /\ Positioned(in)
    BY <1>1, Scanning
  <1>3. b \in 1 .. Len(file) /\ file[b] = Quote /\ (b = Len(file) => r.eof) /\ (b < Len(file) => r.at = b + 1)
    BY <1>1, <1>2, ReadPlaces
  <1> HIDE DEF b, r
  <1>4. ASSUME ~r.eof
        PROVE  b < r.at /\ ~Esc(b, r.at) /\ \A k \in b + 1 .. r.at - 1 : file[k] = Quote => Esc(b, k)
    <2>1. b < Len(file) /\ r.at = b + 1
      BY <1>2, <1>3, <1>4
    <2>2. ~Esc(b, b + 1)
      <3>1. b + 1 \in b + 1 .. Len(file) /\ b + 1 - 1 = b
        BY <1>2, <1>3, <2>1
      <3>2. Quote # Backslash
        BY DEF Quote, Backslash
      <3> QED
        BY <1>2, <1>3, <3>1, <3>2, EscNext
    <2>3. \A k \in b + 1 .. r.at - 1 : FALSE
      BY <1>3, <2>1
    <2> QED
      BY <1>3, <2>1, <2>2, <2>3
  <1> QED
    BY <1>1, <1>3, <1>4 DEF InString, Esc, b

LEMMA StringCharacterStep ==
    ASSUME IInv, InString, StringCharacter
    PROVE  InString'
  <1> DEFINE b == begin.at
             n == in.at
             r == Read(in)
  <1>1. mode = "string" /\ in.ch # Quote /\ file' = file /\ begin' = begin
        /\ in' = IF in.ch = Backslash THEN Read(r) ELSE r
    BY DEF StringCharacter
  <1>2. file \in Seq(STRING) /\ Positioned(in) /\ Positioned(begin)
    BY <1>1, Collecting
  <1>3. /\ n \in 1 .. Len(file) /\ in.ch = file[n] /\ Len(file) \in Nat /\ b \in 1 .. Len(file)
        /\ Positioned(r) /\ (n = Len(file) => r.eof) /\ (n < Len(file) => r.at = n + 1 /\ ~in.eof)
        /\ in.eof => n = Len(file)
    BY <1>2, ReadPlaces
  <1>4. /\ r.at = Len(file) => Read(r).eof
        /\ r.at < Len(file) => Read(r).at = r.at + 1 /\ ~r.eof
        /\ r.at \in 1 .. Len(file) /\ (r.eof => r.at = Len(file))
    BY <1>2, <1>3, ReadPlaces
  <1>5. file[b] = Quote
    BY DEF InString
  <1>6. ~in.eof => b < n /\ ~Esc(b, n) /\ \A k \in b + 1 .. n - 1 : file[k] = Quote => Esc(b, k)
    BY DEF InString
  <1> HIDE DEF b, n, r
  <1>7. \A k \in b + 1 .. Len(file) : (Esc(b, k) <=> file[k - 1] = Backslash /\ ~Esc(b, k - 1))
    BY <1>2, <1>3, EscNext
  <1>8. SUFFICES ASSUME ~in'.eof
                 PROVE  /\ b < in'.at /\ ~Esc(b, in'.at)
                        /\ \A k \in b + 1 .. in'.at - 1 : file[k] = Quote => Esc(b, k)
    <2>1. file[b]' = Quote /\ b' = b
      BY <1>1, <1>5 DEF b
    <2>2. \A k : Esc(b, k)' <=> Esc(b, k)
      BY <1>1, <2>1 DEF Esc
    <2> QED
      BY <1>1, <2>1, <2>2 DEF InString, b, Esc
  <1>9. CASE in.ch # Backslash
    <2>1. n < Len(file) /\ in'.at = n + 1 /\ ~in.eof
      BY <1>1, <1>3, <1>8, <1>9
    <2>2. n + 1 \in b + 1 .. Len(file) /\ n + 1 - 1 = n
      BY <1>3, <1>6, <2>1
    <2>3. ~Esc(b, n + 1)
      BY <1>3, <1>7, <1>9, <2>2
    <2>4. \A k \in b + 1 .. n + 1 - 1 : k \in b + 1 .. n - 1 \/ k = n
      BY <1>3, <2>2
    <2>5. \A k \in b + 1 .. n + 1 - 1 : file[k] = Quote => Esc(b, k)
      BY <1>1, <1>3, <1>6, <2>1, <2>4
    <2> QED
      BY <1>3, <1>6, <2>1, <2>3, <2>5
  <1>10. CASE in.ch = Backslash
    <2>1. r.at < Len(file) /\ in'.at = r.at + 1 /\ n < Len(file) /\ r.at = n + 1 /\ ~in.eof
      <3>1. r.at < Len(file) /\ in'.at = r.at + 1
        BY <1>1, <1>3, <1>4, <1>8, <1>10
      <3>2. ~r.eof
        BY <1>4, <3>1
      <3> QED
        BY <1>3, <3>1, <3>2
    <2>2. n + 1 \in b + 1 .. Len(file) /\ n + 1 - 1 = n /\ n + 2 \in b + 1 .. Len(file) /\ n + 2 - 1 = n + 1
          /\ in'.at = n + 2
      BY <1>3, <1>6, <2>1
    <2>3. Esc(b, n + 1)
      <3> DEFINE m == n + 1
      <3>1. m \in b + 1 .. Len(file) /\ m - 1 = n
        BY <1>3, <1>6, <2>1, <2>2
      <3> HIDE DEF m
      <3>2. Esc(b, m) <=> file[m - 1] = Backslash /\ ~Esc(b, m - 1)
        BY <1>7, <3>1
      <3>3. Esc(b, m) <=> file[n] = Backslash /\ ~Esc(b, n)
        BY <3>1, <3>2
      <3> QED
        BY <1>3, <1>6, <1>10, <2>1, <3>3 DEF m
    <2>4. ~Esc(b, n + 2)
      <3> DEFINE m == n + 2
                 i == n + 1
      <3>1. m \in b + 1 .. Len(file) /\ m - 1 = i
        BY <1>3, <1>6, <2>1, <2>2
      <3>2. Esc(b, i)
        BY <2>3
      <3> HIDE DEF m, i
      <3>3. Esc(b, m) <=> file[m - 1] = Backslash /\ ~Esc(b, m - 1)
        BY <1>7, <3>1
      <3>4. ~Esc(b, m)
        BY <3>1, <3>2, <3>3
      <3> QED
        BY <3>4 DEF m
    <2>5. \A k \in b + 1 .. n + 2 - 1 : k \in b + 1 .. n - 1 \/ k = n \/ k = n + 1
      BY <1>3, <2>2
    <2>6. \A k \in b + 1 .. n + 2 - 1 : file[k] = Quote => Esc(b, k)
      BY <1>1, <1>3, <1>6, <2>1, <2>3, <2>5
    <2> QED
      BY <1>3, <1>6, <2>1, <2>2, <2>4, <2>6
  <1> QED
    BY <1>9, <1>10

LEMMA FinishStringStep ==
    ASSUME IInv, TokensAreLongest, InString, FinishString
    PROVE  TokensAreLongest' /\ mode' = "scan"
  <1> DEFINE b == begin.at
             r == Read(in)
             contents == unescape(lexeme)
             meaning == [kind |-> IF Len(contents) < 2 THEN "char" ELSE "string", value |-> contents]
             t == Token(begin, r, TRUE, meaning)
  <1>1. mode = "string" /\ in.ch = Quote /\ file' = file
    BY DEF FinishString
  <1>2. Emit(begin, r, TRUE, meaning)
    BY DEF FinishString
  <1> HIDE DEF meaning
  <1>3. t.from = b /\ t.to = LastRead(r) /\ t.ok = TRUE /\ mode' = "scan"
    BY <1>2 DEF Token, Emit
  <1> HIDE DEF t
  <1>4. file \in Seq(STRING) /\ Positioned(in) /\ Positioned(begin)
    BY <1>1, Collecting
  <1>5. /\ in.at \in 1 .. Len(file) /\ in.ch = file[in.at] /\ Len(file) \in Nat
        /\ ~in.eof => LastRead(r) = in.at
        /\ in.eof => in.at = Len(file)
        /\ b \in 1 .. Len(file)
    BY <1>4, ReadPlaces
  <1>6. file[b] = Quote /\ (~in.eof => /\ b < in.at /\ ~Esc(b, in.at)
                                       /\ \A k \in b + 1 .. in.at - 1 : file[k] = Quote => Esc(b, k))
    BY DEF InString
  <1>7. IsLongest(t)
    <2>1. CASE ~in.eof
      <3> HIDE DEF b, r
      <3>1. t.to = in.at /\ in.at \in b + 1 .. Len(file)
        BY <1>3, <1>5, <1>6, <2>1
      <3> QED
        BY <1>1, <1>3, <1>4, <1>5, <1>6, <2>1, <3>1, StringIsLongest
    <2>2. CASE in.eof
      <3>1. LastRead(r) = Len(file)
        <4>1. r.at = Len(file) /\ r.eof
          <5>1. in.at = Len(file) /\ Read(in).eof /\ Positioned(Read(in))
            BY <1>4, <1>5, <2>2, ReadPlaces
          <5> QED
            BY <1>4, <5>1, ReadPlaces
        <4> QED
          BY <4>1 DEF LastRead
      <3>2. Text(t) = SubSeq(file, b, Len(file))
        BY <1>3, <3>1 DEF Text
      <3>3. Text(t)[1] = Quote
        <4>1. b - b + 1 = 1 /\ b \in b .. Len(file) /\ Len(file) \in b - 1 .. Len(file)
          BY <1>5
        <4>2. Text(t)[b - b + 1] = file[b]
          BY <1>4, <1>5, <3>2, <4>1, PartOfText
        <4> QED
          BY <1>6, <4>1, <4>2
      <3> QED
        BY <1>3, <3>1, <3>3 DEF IsLongest, QuoteAtEnd
    <2> QED
      BY <2>1, <2>2
  <1> QED
    BY <1>1, <1>2, <1>3, <1>7, EmittedIsLongest DEF t
-----------------------------------------------------------------------------
(* Numbers                                                                 *)

\* The characters of a number from b to e, as scanNumber collects them
Chars(b, e, isReal) ==
    /\ ~isReal => \A k \in b .. e : file[k] \in HexDigits
    /\ isReal => /\ \A k \in b .. e : file[k] \in HexDigits \cup {".", "+", "-"}
                 /\ \E p \in b + 1 .. e : file[p] = "."
                 /\ \A k \in b .. e : file[k] \in {"+", "-"} => \E p \in b + 1 .. k - 1 : file[p] = "."

\* What the look-ahead says of the characters that follow
Ahead(b, e, isReal) ==
    b <= e /\ e < Len(file) =>
       /\ isReal => /\ file[e] = "." => file[e + 1] # "."
                    /\ file[e] \notin {"+", "-"} => file[e + 1] \notin {"+", "-"}
       /\ ~isReal /\ file[e + 1] = "." => e + 1 < Len(file) /\ file[e + 2] = "."

\* A token that is rejected
Follows == Letters \cup Digits \cup {"."}
LEMMA RejectedIsLongest ==
    ASSUME NEW t, file \in Seq(STRING), t.from \in 1 .. Len(file), t.ok = FALSE,
           \A k \in t.from .. Len(file) : Candidate(t.from, k) => k < Len(file) /\ file[k + 1] \in Follows
    PROVE  IsLongest(t)
  BY DEF IsLongest, Follows

\* The text of a number after its first characters
LEMMA Collect ==
    ASSUME NEW f \in Seq(STRING), NEW b \in 1 .. Len(f), NEW e \in b - 1 .. Len(f) - 1
    PROVE  SubSeq(f, b, e) \o <<f[e + 1]>> = SubSeq(f, b, e + 1)
  <1>1. e + 1 \in b .. Len(f) /\ e + 1 - 1 = e
    OBVIOUS
  <1>2. SubSeq(f, b, e + 1) = SubSeq(f, b, e + 1 - 1) \o <<f[e + 1]>>
    BY <1>1, SubSeqRecursiveSecond
  <1> QED
    BY <1>1, <1>2

\* A number with a suffix is one if its digits can be converted.
LEMMA SuffixedLexeme ==
    ASSUME file \in Seq(STRING), NEW b \in 1 .. Len(file), NEW e \in b .. Len(file) - 1, file[b] \in Digits,
           \A k \in b .. e : file[k] \in HexDigits,
           NEW bits, (file[e + 1] = "H" /\ bits = LongBits) \/ (file[e + 1] = "X" /\ bits = CharBits)
    PROVE  IsLexeme(SubSeq(file, b, e + 1)) <=> Converts(SubSeq(file, b, e), 16, bits)
  <1> DEFINE s == SubSeq(file, b, e + 1)
             d == SubSeq(file, b, e)
             c == file[e + 1]
             n == Len(s)
             fits == ValueIn(16, d) <= MaxUnsigned(bits)
  <1>1. e + 1 \in b .. Len(file) /\ e + 1 \in b - 1 .. Len(file) /\ e \in b - 1 .. Len(file)
    OBVIOUS
  <1>2. s \in Seq(STRING) /\ n = e + 1 - b + 1 /\ \A k \in b .. e + 1 : s[k - b + 1] = file[k]
    BY <1>1, PartOfText
  <1>3. /\ d \in Seq(STRING) /\ Len(d) = e - b + 1
        /\ \A k \in 1 .. Len(d) : d[k] = file[b + k - 1]
    BY <1>1, PartOfText
  <1>4. n > 1 /\ n \in Nat /\ n - 1 = e - b + 1 /\ s[1] = file[b] /\ s[n] = c
    <2>1. b - b + 1 = 1 /\ b \in b .. e + 1 /\ e + 1 \in b .. e + 1
      OBVIOUS
    <2> HIDE DEF s
    <2>2. n > 1 /\ n \in Nat /\ n - 1 = e - b + 1 /\ e + 1 - b + 1 = n
      BY <1>2
    <2>3. s[1] = file[b]
      BY <1>2, <2>1
    <2>4. s[n] = c
      BY <1>2, <2>1, <2>2
    <2> QED
      BY <2>2, <2>3, <2>4
  <1>5. Front(s) = d /\ Last(s) = c
    <2>1. b + 1 - 1 = b /\ b + (e - b + 1) - 1 = e /\ 1 \in 1 .. e + 1 - b + 1 /\ e - b + 1 \in 1 .. e + 1 - b + 1
      OBVIOUS
    <2>2. SubSeq(s, 1, e - b + 1) = SubSeq(file, b + 1 - 1, b + (e - b + 1) - 1)
      BY <1>1, <2>1, SubSeqOfSubSeq
    <2>3. SubSeq(s, 1, n - 1) = d
      BY <1>4, <2>1, <2>2
    <2> QED
      BY <1>4, <2>3 DEF Front, Last
  <1>6. Consists(d, HexDigits) /\ d # <<>>
    <2>1. \A k \in 1 .. Len(d) : b + k - 1 \in b .. e
      BY <1>3
    <2>2. Len(d) > 0
      BY <1>3
    <2> HIDE DEF d
    <2> QED
      BY <1>3, <2>1, <2>2 DEF Consists
  <1>7. Converts(d, 16, bits) <=> fits
    BY <1>6 DEF Converts
  <1> HIDE DEF s, d, n, c
  <1>8. IsHex(s, c, bits) <=> fits
    BY <1>4, <1>5, <1>6 DEF IsHex, n
  <1>9. c \in {"H", "X"}
    BY DEF c
  <1>10. c \notin Digits \cup Scales \cup {"+", "-", "."}
    BY <1>9 DEF Digits, Scales, LongScales
  <1>11. ASSUME IsLexeme(s) PROVE fits
    <2>1. IsNumber(s)
      BY <1>2, <1>4, <1>11, DigitsBeginNumbers DEF n
    <2>2. ~IsDecimal(s)
      <3>1. n \in DOMAIN s
        BY <1>2, <1>4 DEF n
      <3> QED
        BY <1>4, <1>10, <3>1 DEF IsDecimal, Consists
    <2>3. ~IsReal(s)
      <3>1. ASSUME NEW p \in 2 .. Len(s), RealShape(s, p) PROVE FALSE
        <4>1. n = p \/ n \in p + 1 .. Len(s)
          BY <1>4, <3>1 DEF n
        <4> QED
          BY <1>4, <1>10, <3>1, <4>1 DEF RealShape
      <3> QED
        BY <1>2, <3>1, RealHasShape
    <2>4. \A suffix, width : IsHex(s, suffix, width) => suffix = c
      BY <1>5 DEF IsHex
    <2> QED
      BY <1>8, <1>9, <2>1, <2>2, <2>3, <2>4 DEF IsNumber, c
  <1>12. ASSUME fits PROVE IsLexeme(s)
    <2>1. IsHex(s, c, bits)
      BY <1>8, <1>12
    <2> QED
      BY <2>1 DEF IsLexeme, IsNumber, c
  <1> QED
    BY <1>7, <1>11, <1>12 DEF s, d

\* A number ends with its suffix, and is rejected if it is none.
LEMMA SuffixedIsLongest ==
    ASSUME file \in Seq(STRING), NEW b \in 1 .. Len(file), NEW e \in b .. Len(file) - 1, file[b] \in Digits,
           \A k \in b .. e : file[k] \in HexDigits,
           NEW bits, (file[e + 1] = "H" /\ bits = LongBits) \/ (file[e + 1] = "X" /\ bits = CharBits),
           NEW t, t.from = b, t.to = e + 1, t.ok \in BOOLEAN, t.ok <=> Converts(SubSeq(file, b, e), 16, bits)
    PROVE  IsLongest(t)
  <1> DEFINE c == file[e + 1]
  <1>1. c \in {"H", "X"} /\ c \notin HexDigits \cup {"+", "-", "."} /\ c \in Follows
    <2>1. c \in {"H", "X"}
      OBVIOUS
    <2> QED
      BY <2>1 DEF HexDigits, Digits, HexLetters, Follows, Letters
  <1>2. e + 1 \in b .. Len(file)
    OBVIOUS
  <1>3. IsLexeme(SubSeq(file, b, e + 1)) <=> t.ok
    BY SuffixedLexeme
  <1>4. ASSUME NEW k \in e + 2 .. Len(file) PROVE ~Candidate(b, k)
    <2>1. k \in b .. Len(file) /\ e + 1 \in b .. k /\ e + 1 \in b .. k - 1
      OBVIOUS
    <2>2. ~(\A i \in b .. k : file[i] \in Digits) /\ ~(\A i \in b .. k - 1 : file[i] \in HexDigits)
      BY <1>1, <2>1 DEF HexDigits
    <2>3. ASSUME NEW p \in b + 1 .. k, RealAt(b, p, k) PROVE FALSE
      <3>1. e + 1 = p \/ e + 1 \in b .. p - 1 \/ e + 1 \in p + 1 .. k
        BY <2>1
      <3>2. c \notin Digits \cup Scales
        BY <1>1 DEF HexDigits, HexLetters, Scales, LongScales
      <3> QED
        BY <1>1, <2>3, <3>1, <3>2 DEF RealAt
    <2> QED
      BY <2>1, <2>2, <2>3, NumberCandidate DEF Candidate
  <1>5. CASE t.ok = TRUE
    <2>1. Candidate(b, e + 1)
      BY <1>1, <1>3, <1>5 DEF Candidate
    <2>2. \A k \in t.to + 1 .. Len(file) : k \in e + 2 .. Len(file)
      OBVIOUS
    <2> QED
      BY <1>2, <1>4, <1>5, <2>1, <2>2, AcceptedIsLongest
  <1>6. CASE t.ok = FALSE
    <2>1. ASSUME NEW k \in b .. Len(file), Candidate(b, k) PROVE k < Len(file) /\ file[k + 1] \in Follows
      <3>1. k # e + 1 /\ k \notin e + 2 .. Len(file)
        BY <1>3, <1>4, <1>6, <2>1 DEF Candidate
      <3>2. k + 1 \in b .. e \/ k = e
        BY <3>1
      <3>3. HexDigits \subseteq Follows
        BY DEF HexDigits, Follows, Letters
      <3> QED
        BY <1>1, <3>2, <3>3
    <2> QED
      BY <1>6, <2>1, RejectedIsLongest
  <1> QED
    BY <1>5, <1>6

\* A smaller power of two is a smaller number: they count sets.
LEMMA CountsSets ==
    ASSUME NEW n \in Nat
    PROVE  IsFiniteSet(SUBSET (1 .. n)) /\ Cardinality(SUBSET (1 .. n)) = 2 ^ n
  <1>1. IsFiniteSet(1 .. n) /\ Cardinality(1 .. n) = n
    BY FS_Interval
  <1> QED
    BY <1>1, FS_SUBSET

LEMMA Powers ==
    ASSUME NEW n \in Nat
    PROVE  2 ^ n \in Nat /\ 2 ^ (n + 1) \in Nat /\ 2 ^ n <= 2 ^ (n + 1)
  <1> DEFINE A == SUBSET (1 .. n)
             B == SUBSET (1 .. n + 1)
  <1>1. n + 1 \in Nat
    OBVIOUS
  <1>2. IsFiniteSet(A) /\ Cardinality(A) = 2 ^ n /\ IsFiniteSet(B) /\ Cardinality(B) = 2 ^ (n + 1)
    BY <1>1, CountsSets
  <1>3. A \subseteq B
    <2>1. 1 .. n \subseteq 1 .. n + 1
      OBVIOUS
    <2> QED
      BY <2>1
  <1>4. Cardinality(A) \in Nat /\ Cardinality(B) \in Nat /\ Cardinality(A) <= Cardinality(B)
    BY <1>2, <1>3, FS_Subset, FS_CardinalityType
  <1> QED
    BY <1>2, <1>4

LEMMA LimitsOrdered == MaxSigned(LongBits) \in Int /\ MaxUnsigned(LongBits) \in Int
                         /\ MaxSigned(LongBits) <= MaxUnsigned(LongBits)
  <1> DEFINE n == LongBits - 1
  <1>1. n \in Nat /\ n + 1 = LongBits
    BY WidthsAssumption
  <1> HIDE DEF n
  <1>2. 2 ^ n \in Nat /\ 2 ^ (n + 1) \in Nat /\ 2 ^ n <= 2 ^ (n + 1)
    BY <1>1, Powers
  <1>3. 2 ^ n \in Nat /\ 2 ^ LongBits \in Nat /\ 2 ^ n <= 2 ^ LongBits
    BY <1>1, <1>2
  <1> QED
    BY <1>3 DEF MaxSigned, MaxUnsigned, n

\* Digits are numbers.
LEMMA DigitValues == \A c \in HexDigits : DigitValue[c] \in Nat
  <1> DEFINE T == <<{"0"}, {"1"}, {"2"}, {"3"}, {"4"}, {"5"}, {"6"}, {"7"}, {"8"}, {"9"},
                    {"A", "a"}, {"B", "b"}, {"C", "c"}, {"D", "d"}, {"E", "e"}, {"F", "f"}>>
             V(c) == CHOOSE n \in 0 .. 15 : c \in T[n + 1]
  <1>1. ASSUME NEW c \in HexDigits PROVE \E n \in 0 .. 15 : c \in T[n + 1]
    <2>1. \/ c \in T[1] \/ c \in T[2] \/ c \in T[3] \/ c \in T[4] \/ c \in T[5] \/ c \in T[6] \/ c \in T[7]
          \/ c \in T[8] \/ c \in T[9] \/ c \in T[10] \/ c \in T[11] \/ c \in T[12] \/ c \in T[13]
          \/ c \in T[14] \/ c \in T[15] \/ c \in T[16]
      BY DEF HexDigits, Digits, HexLetters
    <2> HIDE DEF T
    <2>2. PICK i \in 1 .. 16 : c \in T[i]
      BY <2>1
    <2>3. i - 1 \in 0 .. 15 /\ i - 1 + 1 = i
      OBVIOUS
    <2> QED
      BY <2>2, <2>3
  <1> HIDE DEF T
  <1>2. ASSUME NEW c \in HexDigits PROVE V(c) \in Nat
    <2>1. V(c) \in 0 .. 15
      BY <1>1, Zenon
    <2> HIDE DEF V
    <2> QED
      BY <2>1
  <1>3. DigitValue = [c \in HexDigits |-> V(c)]
    BY DEF DigitValue, T
  <1> QED
    BY <1>2, <1>3

\* The value of digits is a number.
LEMMA ValueType ==
    ASSUME NEW s \in Seq(STRING), Consists(s, HexDigits), NEW base \in Nat
    PROVE  ValueIn(base, s) \in Nat
  <1> DEFINE N == Len(s)
             d(n) == DigitValue[s[n]]
             Is(g, n) == g = [k \in 0 .. n |-> IF k = 0 THEN 0 ELSE base * g[k - 1] + d(k)]
             S == {n \in Nat : \E g : Is(g, n)}
  <1>1. 0 \in S
    <2>1. Is([k \in 0 .. 0 |-> 0], 0)
      OBVIOUS
    <2> QED
      BY <2>1
  <1>2. ASSUME NEW n \in Nat, n \in S PROVE n + 1 \in S
    <2>1. PICK g : Is(g, n)
      BY <1>2
    <2> HIDE DEF d
    <2> DEFINE last == base * g[n] + d(n + 1)
               h == [k \in 0 .. n + 1 |-> IF k = n + 1 THEN last ELSE g[k]]
    <2>2. (\A k \in 0 .. n : h[k] = g[k]) /\ h[n + 1] = last
      OBVIOUS
    <2>3. ASSUME NEW k \in 0 .. n + 1
          PROVE  h[k] = IF k = 0 THEN 0 ELSE base * h[k - 1] + d(k)
      <3>1. CASE k = n + 1
        <4>1. k - 1 = n /\ k # 0 /\ n \in 0 .. n
          BY <3>1
        <4>2. h[k - 1] = g[n] /\ h[k] = base * g[n] + d(k)
          BY <2>2, <3>1, <4>1
        <4> HIDE DEF h
        <4> QED
          BY <4>1, <4>2
      <3>2. CASE k # n + 1
        <4>1. k \in 0 .. n /\ (k # 0 => k - 1 \in 0 .. n)
          BY <3>2
        <4>2. g[k] = IF k = 0 THEN 0 ELSE base * g[k - 1] + d(k)
          BY <2>1, <4>1
        <4> HIDE DEF h
        <4> QED
          BY <2>2, <4>1, <4>2
      <3> QED
        BY <3>1, <3>2
    <2>4. Is(h, n + 1)
      BY <2>3, Zenon
    <2> HIDE DEF Is, h
    <2> QED
      BY <2>4
  <1>3. N \in Nat
    OBVIOUS
  <1>4. PICK g : Is(g, N)
    <2> HIDE DEF Is
    <2>1. Nat \subseteq S
      <3> HIDE DEF S
      <3> QED
        BY <1>1, <1>2, NatSet, Zenon
    <2>2. N \in S
      BY <1>3, <2>1
    <2> QED
      BY <2>2
  <1> DEFINE F == CHOOSE f : Is(f, N)
             P == {n \in Nat : n <= N => F[n] \in Nat}
  <1>5. Is(F, N)
    BY <1>4
  <1>6. ValueIn(base, s) = F[N]
    BY Zenon DEF ValueIn
  <1>7. \A n \in 1 .. N : d(n) \in Nat
    BY DigitValues DEF Consists
  <1> HIDE DEF F, d, N
  <1>8. 0 \in P
    BY <1>3, <1>5
  <1>9. ASSUME NEW n \in Nat, n \in P PROVE n + 1 \in P
    <2>1. SUFFICES ASSUME n + 1 <= N PROVE F[n + 1] \in Nat
      OBVIOUS
    <2>2. n + 1 \in 0 .. N /\ n + 1 \in 1 .. N /\ n + 1 # 0 /\ n + 1 - 1 = n /\ n <= N
      BY <1>3, <2>1
    <2>3. F[n] \in Nat /\ d(n + 1) \in Nat
      BY <1>7, <1>9, <2>2
    <2>4. F[n + 1] = base * F[n] + d(n + 1)
      BY <1>5, <2>2
    <2>5. base * F[n] \in Nat
      BY <2>3
    <2> QED
      BY <2>3, <2>4, <2>5
  <1>10. Nat \subseteq P
    <2> HIDE DEF P
    <2> QED
      BY <1>8, <1>9, NatSet, Zenon
  <1> QED
    BY <1>3, <1>6, <1>10

\* Integers to the base 10 end where no digit, point or suffix follows, or
\* before a range.
LEMMA DecimalIsLongest ==
    ASSUME file \in Seq(STRING), NEW b \in 1 .. Len(file), NEW e \in b .. Len(file), file[b] \in Digits,
           \A k \in b .. e : file[k] \in HexDigits,
           e < Len(file) => file[e + 1] \notin HexDigits \cup {"H", "X"}, Ahead(b, e, FALSE),
           NEW t, t.from = b, t.to = e, t.ok \in BOOLEAN, t.ok <=> Converts(SubSeq(file, b, e), 10, LongBits)
    PROVE  IsLongest(t)
  <1> DEFINE s == SubSeq(file, b, e)
             n == Len(s)
  <1>1. /\ s \in Seq(STRING) /\ n = e - b + 1 /\ \A k \in 1 .. n : s[k] = file[b + k - 1]
        /\ \A k \in b .. e : s[k - b + 1] = file[k]
    BY PartOfText
  <1>2. s # <<>> /\ \A k \in DOMAIN s : s[k] \in HexDigits
    <2>1. \A k \in 1 .. n : b + k - 1 \in b .. e
      BY <1>1
    <2>2. n > 0
      BY <1>1
    <2> HIDE DEF s
    <2>3. \A k \in 1 .. n : s[k] \in HexDigits
      BY <1>1, <2>1
    <2> QED
      BY <1>1, <2>2, <2>3
  <1>3. \A k \in b .. e : file[k] \notin {".", "+", "-", "H", "X"}
    BY DEF HexDigits, Digits, HexLetters
  <1> HIDE DEF s, n
  <1>4. ~IsReal(s)
    <2>1. ASSUME NEW p \in b + 1 .. e, RealAt(b, p, e) PROVE FALSE
      BY <1>3, <2>1 DEF RealAt
    <2>2. ASSUME NEW p \in 2 .. Len(s), RealShape(s, p) PROVE FALSE
      BY <1>2, <2>2 DEF RealShape, HexDigits, Digits, HexLetters
    <2> QED
      BY <1>1, <2>2, RealHasShape
  <1>5. ASSUME NEW k \in e + 1 .. Len(file) PROVE ~Candidate(b, k)
    <2>1. k \in b .. Len(file) /\ e + 1 \in b .. k /\ e < Len(file)
      OBVIOUS
    <2>2. ~\A i \in b .. k : file[i] \in Digits
      BY <2>1 DEF HexDigits
    <2>3. ~(file[k] \in {"H", "X"} /\ \A i \in b .. k - 1 : file[i] \in HexDigits)
      <3>1. k = e + 1 \/ e + 1 \in b .. k - 1
        BY <2>1
      <3> QED
        BY <2>1, <3>1
    <2>4. ASSUME NEW p \in b + 1 .. k, RealAt(b, p, k), IsReal(SubSeq(file, b, k)), Candidate(b, k) PROVE FALSE
      <3>1. p = e + 1
        <4>1. p \in b .. e \/ p = e + 1 \/ e + 1 \in b .. p - 1
          BY <2>1
        <4> QED
          BY <1>3, <2>1, <2>4, <4>1 DEF RealAt, HexDigits
      <3>2. file[e + 1] = "." /\ e + 1 < Len(file) /\ file[e + 2] = "."
        BY <2>1, <2>4, <3>1 DEF RealAt, Ahead
      <3>3. k # e + 1
        BY <2>4, <3>2 DEF Candidate
      <3>4. e + 2 \in p + 1 .. k
        BY <2>1, <3>1, <3>3
      <3> QED
        BY <2>4, <3>2, <3>4 DEF RealAt, Digits, Scales, LongScales
    <2> QED
      BY <2>1, <2>2, <2>3, <2>4, NumberCandidate DEF Candidate
  <1>6. CASE t.ok = TRUE
    <2>1. Consists(s, Digits)
      BY <1>6 DEF Converts, s
    <2>2. CASE ValueIn(10, s) <= MaxSigned(LongBits)
      <3>1. IsLexeme(s)
        BY <1>2, <2>1, <2>2 DEF IsLexeme, IsNumber, IsDecimal
      <3>2. Candidate(b, e)
        BY <1>4, <3>1 DEF Candidate, s
      <3> QED
        BY <1>5, <1>6, <3>2, AcceptedIsLongest
    <2>3. CASE ValueIn(10, s) > MaxSigned(LongBits)
      <3>1. TooLarge(Text(t))
        BY <2>1, <2>3 DEF TooLarge, Text, s
      <3> QED
        BY <1>6, <3>1 DEF IsLongest
    <2>4. ValueIn(10, s) \in Int /\ MaxSigned(LongBits) \in Int
      <3>1. Consists(s, HexDigits)
        BY <1>2 DEF Consists
      <3> QED
        BY <1>1, <3>1, ValueType, LimitsOrdered
    <2> QED
      BY <2>2, <2>3, <2>4
  <1>7. CASE t.ok = FALSE
    <2>1. ~IsLexeme(s)
      <3>1. ASSUME IsDecimal(s) PROVE Converts(s, 10, LongBits)
        <4>1. ValueIn(10, s) \in Int
          <5>1. Consists(s, HexDigits)
            BY <1>2 DEF Consists
          <5> QED
            BY <1>1, <5>1, ValueType
        <4> QED
          BY <1>2, <3>1, <4>1, LimitsOrdered DEF IsDecimal, Converts
      <3>2. ~IsDecimal(s)
        BY <1>7, <3>1 DEF s
      <3>3. ~IsHex(s, "H", LongBits) /\ ~IsHex(s, "X", CharBits)
        <4>1. Last(s) \in HexDigits
          BY <1>1, <1>2 DEF Last
        <4> QED
          BY <4>1 DEF IsHex, HexDigits, Digits, HexLetters
      <3>4. Len(s) > 0 /\ s[1] \in Digits
        <4>1. b - b + 1 = 1 /\ b \in b .. e /\ n > 0
          BY <1>1
        <4> QED
          BY <1>1, <4>1 DEF n
      <3> QED
        BY <1>1, <1>4, <3>2, <3>3, <3>4, DigitsBeginNumbers DEF IsNumber
    <2>2. ASSUME NEW k \in b .. Len(file), Candidate(b, k) PROVE k < Len(file) /\ file[k + 1] \in Follows
      <3>1. k # e /\ k \notin e + 1 .. Len(file)
        BY <1>5, <2>1, <2>2 DEF Candidate, s
      <3>2. k + 1 \in b .. e
        BY <3>1
      <3>3. HexDigits \subseteq Follows
        BY DEF HexDigits, Follows, Letters
      <3> QED
        BY <3>2, <3>3
    <2> QED
      BY <1>7, <2>2, RejectedIsLongest
  <1> QED
    BY <1>6, <1>7

\* No number goes on beyond what scanNumber has collected of a real one.
LEMMA NothingLonger ==
    ASSUME file \in Seq(STRING), NEW b \in 1 .. Len(file), NEW e \in b .. Len(file), file[b] \in Digits,
           Chars(b, e, TRUE), Ahead(b, e, TRUE), NEW k \in e + 1 .. Len(file), file[e + 1] \notin HexDigits
    PROVE  ~IsLexeme(SubSeq(file, b, k))
  <1>1. k \in b .. Len(file) /\ e + 1 \in b .. k /\ e < Len(file)
    OBVIOUS
  <1>2. PICK q \in b + 1 .. e : file[q] = "."
    BY DEF Chars
  <1>3. q \in b .. k /\ q \in b .. k - 1 /\ file[q] \notin HexDigits
    BY <1>1, <1>2 DEF HexDigits, Digits, HexLetters
  <1>4. ~(\A i \in b .. k : file[i] \in Digits) /\ ~(\A i \in b .. k - 1 : file[i] \in HexDigits)
    BY <1>3 DEF HexDigits
  <1>5. ASSUME NEW p \in b + 1 .. k, RealAt(b, p, k) PROVE FALSE
    <2>1. p = q
      <3>1. p = q \/ q \in b .. p - 1 \/ q \in p + 1 .. k
        BY <1>3
      <3> QED
        BY <1>2, <1>5, <3>1 DEF RealAt, Digits, Scales, LongScales
    <2>2. e + 1 \in p + 1 .. k /\ e + 1 - 1 = e
      BY <1>1, <2>1
    <2>3. file[e + 1] \in Digits \cup Scales \cup {"+", "-"} /\ (file[e + 1] \in {"+", "-"} => file[e] \in Scales)
      BY <1>5, <2>2 DEF RealAt
    <2>4. file[e + 1] \in {"+", "-"}
      BY <2>3 DEF HexDigits, HexLetters, Scales, LongScales
    <2>5. file[e] \notin {"+", "-"}
      BY <2>3, <2>4 DEF Scales, LongScales
    <2> QED
      BY <1>1, <2>4, <2>5 DEF Ahead
  <1> QED
    BY <1>1, <1>4, <1>5, NumberCandidate

\* A shorter number is followed by another of the characters, where a sign
\* only follows a real number.
LEMMA SomethingShorter ==
    ASSUME file \in Seq(STRING), NEW b \in 1 .. Len(file), NEW e \in b .. Len(file), file[b] \in Digits,
           Chars(b, e, TRUE), NEW k \in b .. e - 1, IsLexeme(SubSeq(file, b, k))
    PROVE  file[k + 1] \in Follows \/ (file[k + 1] \in {"+", "-"} /\ IsReal(SubSeq(file, b, k)))
  <1>1. k + 1 \in b .. e /\ k \in b .. Len(file)
    OBVIOUS
  <1>2. file[k + 1] \in Follows \/ file[k + 1] \in {"+", "-"}
    BY <1>1 DEF Chars, Follows, HexDigits, Letters
  <1>3. ASSUME file[k + 1] \in {"+", "-"} PROVE IsReal(SubSeq(file, b, k))
    <2>1. PICK q \in b + 1 .. k + 1 - 1 : file[q] = "."
      BY <1>1, <1>3 DEF Chars
    <2>2. q \in b .. k /\ file[q] \notin HexDigits \cup {"H", "X"}
      BY <2>1 DEF HexDigits, Digits, HexLetters
    <2>3. ~\A i \in b .. k : file[i] \in Digits
      BY <2>2 DEF HexDigits
    <2>4. ~(file[k] \in {"H", "X"} /\ \A i \in b .. k - 1 : file[i] \in HexDigits)
      <3>1. q = k \/ q \in b .. k - 1
        BY <2>2
      <3> QED
        BY <2>2, <3>1
    <2> QED
      BY <1>1, <2>3, <2>4, NumberCandidate
  <1> QED
    BY <1>2, <1>3

LEMMA SignFollows ==
    ASSUME file \in Seq(STRING), NEW b \in 1 .. Len(file), NEW m \in b .. Len(file),
           NEW k \in b .. m - 1, file[k + 1] \in {"+", "-"}, IsReal(SubSeq(file, b, k)),
           NEW t, t.from = b, t.to = m
    PROVE  SignAfterReal(Text(t))
  <1> DEFINE s == SubSeq(file, b, m)
             i == k + 1 - b + 1
  <1>1. b \in 1 .. Len(file) /\ m \in 1 .. Len(file) /\ m \in b - 1 .. Len(file) /\ k + 1 \in b .. m
    OBVIOUS
  <1>2. Len(s) = m - b + 1 /\ \A j \in b .. m : s[j - b + 1] = file[j]
    BY <1>1, PartOfText
  <1>3. SubSeq(s, 1, i - 1) = SubSeq(file, b, k)
    <2>1. /\ 1 \in 1 .. m - b + 1 /\ k - b + 1 \in 1 .. m - b + 1
          /\ b + 1 - 1 = b /\ b + (k - b + 1) - 1 = k /\ i - 1 = k - b + 1
      OBVIOUS
    <2>2. SubSeq(s, 1, k - b + 1) = SubSeq(file, b + 1 - 1, b + (k - b + 1) - 1)
      BY <1>1, <2>1, SubSeqOfSubSeq
    <2> QED
      BY <2>1, <2>2
  <1> HIDE DEF s
  <1>4. i \in 2 .. Len(s)
    BY <1>1, <1>2
  <1>5. s[i] = file[k + 1]
    BY <1>1, <1>2
  <1> HIDE DEF i
  <1> QED
    BY <1>3, <1>4, <1>5 DEF SignAfterReal, Text, s

\* Real numbers end where neither a digit, nor a point or sign that belongs
\* to them, follows.
LEMMA RealIsLongest ==
    ASSUME file \in Seq(STRING), NEW b \in 1 .. Len(file), NEW e \in b .. Len(file), file[b] \in Digits,
           Chars(b, e, TRUE), Ahead(b, e, TRUE), e < Len(file) => file[e + 1] \notin HexDigits,
           NEW t, t.from = b, t.ok \in BOOLEAN,
           \/ t.to = e /\ (t.ok <=> IsReal(SubSeq(file, b, e)))
           \/ t.to = e + 1 /\ ~t.ok /\ e < Len(file) /\ file[e + 1] \in {"H", "X"}
    PROVE  IsLongest(t)
  <1>1. ASSUME NEW k \in e + 1 .. Len(file) PROVE e < Len(file) /\ ~IsLexeme(SubSeq(file, b, k))
    <2>1. e < Len(file)
      OBVIOUS
    <2> QED
      BY <2>1, NothingLonger
  <1>2. CASE t.ok = TRUE
    <2>1. t.to = e /\ IsLexeme(SubSeq(file, b, e))
      BY <1>2 DEF IsLexeme, IsNumber
    <2>2. Candidate(b, e)
      BY <2>1 DEF Candidate, Ahead
    <2> QED
      BY <1>1, <1>2, <2>1, <2>2, AcceptedIsLongest DEF Candidate
  <1>3. CASE t.ok = FALSE
    <2>1. SUFFICES ASSUME ~SignAfterReal(Text(t))
                   PROVE  \A k \in b .. Len(file) : Candidate(b, k) => k < Len(file) /\ file[k + 1] \in Follows
      <3>1. CASE SignAfterReal(Text(t))
        BY <1>3, <3>1 DEF IsLongest
      <3> QED
        BY <1>3, <2>1, <3>1, RejectedIsLongest
    <2>2. SUFFICES ASSUME NEW k \in b .. Len(file), Candidate(b, k) PROVE k < Len(file) /\ file[k + 1] \in Follows
      OBVIOUS
    <2>3. k \in b .. e /\ IsLexeme(SubSeq(file, b, k))
      <3>1. k \notin e + 1 .. Len(file)
        BY <1>1, <2>2 DEF Candidate
      <3> QED
        BY <2>2, <3>1 DEF Candidate
    <2>4. CASE k = e
      <3>1. ~(t.to = e /\ ~IsReal(SubSeq(file, b, e)))
        <4>1. SUFFICES ASSUME ~IsReal(SubSeq(file, b, e)) PROVE FALSE
          OBVIOUS
        <4>2. PICK q \in b + 1 .. e : file[q] = "."
          BY DEF Chars
        <4>3. q \in b .. e /\ file[q] \notin HexDigits \cup {"H", "X"}
          BY <4>2 DEF HexDigits, Digits, HexLetters
        <4>4. q = e \/ q \in b .. e - 1
          BY <4>3
        <4> QED
          BY <2>3, <2>4, <4>1, <4>3, <4>4, NumberCandidate DEF HexDigits
      <3>2. e < Len(file) /\ file[e + 1] \in {"H", "X"}
        BY <1>3, <3>1
      <3> QED
        BY <2>4, <3>2 DEF Follows, Letters
    <2>5. CASE k # e
      <3>1. k \in b .. e - 1
        BY <2>3, <2>5
      <3>2. t.to \in b .. Len(file) /\ k \in b .. t.to - 1
        BY <3>1
      <3>3. file[k + 1] \in Follows \/ (file[k + 1] \in {"+", "-"} /\ IsReal(SubSeq(file, b, k)))
        BY <2>3, <3>1, SomethingShorter
      <3>4. ~(file[k + 1] \in {"+", "-"} /\ IsReal(SubSeq(file, b, k)))
        BY <2>1, <3>2, SignFollows
      <3> QED
        BY <3>1, <3>3, <3>4
    <2> QED
      BY <2>4, <2>5
  <1> QED
    BY <1>2, <1>3

\* What scanNumber has read of a number; a point at the end of the file is
\* lost.
NumberRead == LET b == begin.at
                  e == LastRead(in)
              IN  /\ b <= in.at /\ file[b] \in Digits
                  /\ \/ in.eof /\ file[Len(file)] = "."
                     \/ b - 1 <= e /\ lexeme = SubSeq(file, b, e) /\ Chars(b, e, real) /\ Ahead(b, e, real)

\* A digit, a point and a sign are characters of a number.
LEMMA CharsAdded ==
    ASSUME NEW b \in Int, NEW e \in Int, b - 1 <= e, NEW isReal, Chars(b, e, isReal)
    PROVE  /\ file[e + 1] \in HexDigits => Chars(b, e + 1, isReal)
           /\ file[e + 1] = "." /\ b <= e => Chars(b, e + 1, TRUE)
           /\ isReal /\ file[e + 1] \in {"+", "-"} => Chars(b, e + 1, isReal)
  <1>1. \A k \in b .. e + 1 : k \in b .. e \/ k = e + 1
    OBVIOUS
  <1>2. \A p : p \in b + 1 .. e => p \in b + 1 .. e + 1 /\ p \in b + 1 .. e + 1 - 1
    OBVIOUS
  <1>3. ASSUME file[e + 1] \in HexDigits PROVE Chars(b, e + 1, isReal)
    <2>1. file[e + 1] \notin {"+", "-"}
      BY <1>3 DEF HexDigits, Digits, HexLetters
    <2>2. ASSUME ~isReal PROVE \A k \in b .. e + 1 : file[k] \in HexDigits
      BY <1>1, <1>3, <2>2 DEF Chars
    <2>3. ASSUME isReal
          PROVE  /\ \A k \in b .. e + 1 : file[k] \in HexDigits \cup {".", "+", "-"}
                 /\ \E p \in b + 1 .. e + 1 : file[p] = "."
                 /\ \A k \in b .. e + 1 : file[k] \in {"+", "-"} => \E p \in b + 1 .. k - 1 : file[p] = "."
      BY <1>1, <1>2, <1>3, <2>1, <2>3 DEF Chars
    <2> QED
      BY <2>2, <2>3 DEF Chars
  <1>4. ASSUME file[e + 1] = ".", b <= e PROVE Chars(b, e + 1, TRUE)
    <2>1. e + 1 \in b + 1 .. e + 1
      BY <1>4
    <2>2. HexDigits \cap {"+", "-"} = {}
      BY DEF HexDigits, Digits, HexLetters
    <2>3. \A k \in b .. e + 1 : file[k] \in HexDigits \cup {".", "+", "-"}
      BY <1>1, <1>4 DEF Chars
    <2>4. \A k \in b .. e + 1 : file[k] \in {"+", "-"} => \E p \in b + 1 .. k - 1 : file[p] = "."
      BY <1>1, <1>4, <2>2 DEF Chars
    <2> QED
      BY <1>4, <2>1, <2>3, <2>4 DEF Chars
  <1>5. ASSUME isReal, file[e + 1] \in {"+", "-"} PROVE Chars(b, e + 1, isReal)
    <2>1. e + 1 - 1 = e
      OBVIOUS
    <2>2. \A k \in b .. e + 1 : file[k] \in {"+", "-"} => \E p \in b + 1 .. k - 1 : file[p] = "."
      <3>1. \E p \in b + 1 .. e + 1 - 1 : file[p] = "."
        BY <1>5, <2>1 DEF Chars
      <3> QED
        BY <1>1, <1>5, <3>1 DEF Chars
    <2>3. \A k \in b .. e + 1 : file[k] \in HexDigits \cup {".", "+", "-"}
      BY <1>1, <1>5 DEF Chars
    <2>4. \E p \in b + 1 .. e + 1 : file[p] = "."
      BY <1>2, <1>5 DEF Chars
    <2> QED
      BY <1>5, <2>2, <2>3, <2>4 DEF Chars
  <1> QED
    BY <1>3, <1>4, <1>5

\* The loop of scanNumber goes on.
LEMMA NumberGoesOn ==
    ASSUME file' = file, begin' = begin, begin.at <= in'.at, file[begin.at] \in Digits,
           NEW e, LastRead(in') = e, begin.at - 1 <= e, lexeme' = SubSeq(file, begin.at, e),
           Chars(begin.at, e, real'), Ahead(begin.at, e, real')
    PROVE  NumberRead'
  <1>1. LastRead(in)' = e
    BY DEF LastRead
  <1>2. Chars(begin.at, e, real)' /\ Ahead(begin.at, e, real)'
    BY DEF Chars, Ahead
  <1> QED
    BY <1>1, <1>2 DEF NumberRead

LEMMA BeginNumberStep ==
    ASSUME IInv, BeginNumber
    PROVE  NumberRead'
  <1> DEFINE b == in.at
  <1>1. /\ mode = "scan" /\ ~in.eof /\ in.ch \in Digits /\ begin' = in /\ in' = in /\ file' = file
        /\ lexeme' = <<>> /\ real' = FALSE
    BY DEF BeginNumber, Loop
  <1>2. file \in Seq(STRING) /\ Positioned(in)
    BY <1>1, Scanning
  <1>3. b \in 1 .. Len(file) /\ file[b] \in Digits /\ LastRead(in) = b - 1
    BY <1>1, <1>2, ReadPlaces
  <1>4. SubSeq(file, b, b - 1) = <<>>
    BY <1>3, SubSeqEmpty
  <1>5. LastRead(in)' = b - 1 /\ begin'.at = b
    BY <1>1, <1>3 DEF LastRead
  <1> HIDE DEF b
  <1>6. Chars(begin.at, LastRead(in), real)' /\ Ahead(begin.at, LastRead(in), real)'
    BY <1>1, <1>3, <1>5 DEF Chars, Ahead
  <1>7. (lexeme = SubSeq(file, begin.at, LastRead(in)))'
    BY <1>1, <1>4, <1>5
  <1>8. (begin.at <= in.at /\ file[begin.at] \in Digits /\ begin.at - 1 <= LastRead(in))'
    BY <1>1, <1>3, <1>5 DEF b
  <1> QED
    BY <1>6, <1>7, <1>8 DEF NumberRead

\* A digit is read, and the point and the sign after it.
LEMMA DigitIsRead ==
    ASSUME IInv, NumberRead, ScanDigit
    PROVE  NumberRead'
  <1> DEFINE b == begin.at
             e == LastRead(in)
             d == e + 1
             r == Read(in)
             rr == Read(r)
             point == r.ch = "."
             range == point /\ rr.ch = "."
             next == IF range THEN Seek(rr, r.at) ELSE IF point THEN rr ELSE r
             sign == ~range /\ (real \/ point) /\ next.ch \in {"+", "-"}
             text(k) == SubSeq(file, b, k)
  <1>1. mode = "number" /\ InNumber /\ file' = file /\ begin' = begin
    BY DEF ScanDigit
  <1>2. in' = IF sign THEN Read(next) ELSE next
    BY DEF ScanDigit
  <1>3. real' = (real \/ (point /\ ~range))
    BY DEF ScanDigit
  <1>4. lexeme' = lexeme \o <<in.ch>> \o (IF point /\ ~range THEN <<".">> ELSE <<>>)
                         \o (IF sign THEN <<next.ch>> ELSE <<>>)
    BY DEF ScanDigit
  <1>5. file \in Seq(STRING) /\ Positioned(in) /\ Positioned(begin)
    BY <1>1, Collecting
  <1>6. ~in.eof /\ in.ch \in HexDigits /\ in.ch \notin {".", "+", "-"}
    BY <1>1 DEF InNumber, HexDigits, Digits, HexLetters
  <1>7. in.at = d /\ in.ch = file[d] /\ d \in 1 .. Len(file) /\ Len(file) \in Nat /\ b \in 1 .. Len(file) /\ e \in 0 .. Len(file)
    BY <1>5, <1>6, ReadPlaces
  <1>8. /\ b <= in.at /\ file[b] \in Digits
        /\ b - 1 <= e /\ lexeme = text(e) /\ Chars(b, e, real)
    BY <1>6 DEF NumberRead
  <1>9. /\ Positioned(r) /\ LastRead(r) = d /\ r.at \in 1 .. Len(file) /\ r.at >= d
        /\ r.ch # in.ch => d < Len(file)
        /\ d < Len(file) => r.at = d + 1 /\ r.ch = file[d + 1] /\ ~r.eof
    <2>1. /\ Positioned(r) /\ LastRead(r) = d
          /\ d = Len(file) => r.eof /\ r.ch = in.ch
          /\ d < Len(file) => r.at = d + 1 /\ r.ch = file[d + 1] /\ ~r.eof
      BY <1>5, <1>6, <1>7, ReadPlaces
    <2>2. r.at \in 1 .. Len(file) /\ (r.eof => r.at = Len(file))
      BY <1>5, <2>1, ReadPlaces
    <2> QED
      BY <1>7, <2>1, <2>2
  <1>10. /\ Positioned(rr)
         /\ rr.ch # r.ch => r.at < Len(file)
         /\ r.at < Len(file) => rr.at = r.at + 1 /\ rr.ch = file[r.at + 1] /\ ~rr.eof
         /\ ~r.eof => LastRead(rr) = r.at
         /\ r.at = Len(file) => rr.eof /\ rr.at = Len(file)
    BY <1>5, <1>9, ReadPlaces
  <1> HIDE DEF r, rr, b, e, next
  <1>11. lexeme \o <<in.ch>> = text(d) /\ Chars(b, d, real) /\ b <= d /\ text(d) \in Seq(STRING)
    <2>1. e \in b - 1 .. Len(file) - 1
      BY <1>7, <1>8
    <2>2. text(e) \o <<file[d]>> = text(d)
      BY <1>5, <1>7, <2>1, Collect
    <2>3. Chars(b, d, real)
      <3>1. b \in Int /\ e \in Int
        BY <1>7
      <3>2. file[e + 1] \in HexDigits
        BY <1>6, <1>7
      <3> QED
        BY <1>8, <3>1, <3>2, CharsAdded
    <2>4. d \in b - 1 .. Len(file)
      BY <1>7, <1>8
    <2>5. text(d) \in Seq(STRING)
      BY <1>5, <1>7, <2>4, PartOfText
    <2> QED
      BY <1>7, <1>8, <2>2, <2>3, <2>5
  <1>12. text(d) \o <<>> = text(d)
    BY <1>11, ConcatEmptySeq
  <1>13. ASSUME NEW n, LastRead(in') = n, b <= in'.at, b - 1 <= n, lexeme' = text(n), Chars(b, n, real'), Ahead(b, n, real')
         PROVE  NumberRead'
    BY <1>1, <1>8, <1>13, NumberGoesOn DEF b
  <1>14. CASE ~point
    <2>1. next = r /\ ~range /\ (real' <=> real)
      BY <1>3, <1>14 DEF next
    <2>2. Chars(b, d, real')
      BY <1>11, <2>1 DEF Chars
    <2>3. lexeme' = text(d) \o <<>> \o (IF sign THEN <<next.ch>> ELSE <<>>)
      BY <1>4, <1>11, <1>14
    <2>4. CASE ~sign
      <3>1. in' = r /\ lexeme' = text(d)
        BY <1>2, <1>12, <2>1, <2>3, <2>4
      <3>2. b <= r.at /\ LastRead(r) = d
        BY <1>5, <1>7, <1>9, <1>11
      <3>3. d < Len(file) => file[d + 1] # "." /\ (real => file[d + 1] \notin {"+", "-"})
        BY <1>9, <1>14, <2>1, <2>4
      <3>4. Ahead(b, d, real')
        BY <1>6, <1>7, <2>1, <3>3 DEF Ahead
      <3> QED
        BY <1>7, <1>11, <1>13, <2>2, <3>1, <3>2, <3>4
    <2>5. CASE sign
      <3>1. in' = rr /\ real /\ r.ch \in {"+", "-"} /\ lexeme' = text(d) \o <<r.ch>>
        BY <1>2, <1>12, <1>14, <2>1, <2>3, <2>5 DEF rr
      <3>2. d < Len(file) /\ r.at = d + 1 /\ r.ch = file[d + 1] /\ ~r.eof
        BY <1>6, <1>9, <3>1
      <3>3. LastRead(rr) = d + 1 /\ b <= rr.at
        <4>1. rr.at \in Nat /\ rr.at >= d + 1
          BY <1>7, <1>9, <1>10, <3>2
        <4> QED
          BY <1>7, <1>10, <1>11, <3>2, <4>1
      <3>4. lexeme' = text(d + 1)
        <4>1. d \in b - 1 .. Len(file) - 1
          BY <1>7, <1>11, <3>2
        <4> QED
          BY <1>5, <1>7, <3>1, <3>2, <4>1, Collect
      <3>5. Chars(b, d + 1, real')
        <4>1. b \in Int /\ d \in Int /\ b - 1 <= d /\ file[d + 1] \in {"+", "-"}
          BY <1>7, <1>11, <3>1, <3>2
        <4>2. Chars(b, d + 1, real)
          BY <1>11, <3>1, <4>1, CharsAdded
        <4> QED
          BY <2>1, <4>2 DEF Chars
      <3>6. Ahead(b, d + 1, real')
        BY <2>1, <3>1, <3>2 DEF Ahead
      <3> QED
        <4>1. b - 1 <= d + 1
          BY <1>7, <1>11
        <4> QED
          BY <1>13, <3>1, <3>3, <3>4, <3>5, <3>6, <4>1
    <2> QED
      BY <2>4, <2>5
  <1>15. CASE point
    <2>1. d < Len(file) /\ r.at = d + 1 /\ file[d + 1] = "." /\ ~r.eof
      BY <1>6, <1>9, <1>15
    <2>2. CASE range
      <3>1. in' = Seek(rr, r.at) /\ (real' <=> real) /\ lexeme' = text(d)
        BY <1>2, <1>3, <1>4, <1>11, <1>12, <2>2 DEF next
      <3>2. CASE rr.eof
        <4>1. in' = rr
          BY <3>1, <3>2 DEF Seek
        <4>2. rr.at = Len(file) /\ r.at = Len(file) /\ b <= rr.at
          BY <1>7, <1>9, <1>10, <1>11, <2>1, <3>2
        <4>3. file[Len(file)] = "."
          BY <2>1, <4>2
        <4> QED
          BY <1>1, <1>8, <3>2, <4>1, <4>2, <4>3 DEF NumberRead, b
      <3>3. CASE ~rr.eof
        <4>1. in' = [rr EXCEPT !.at = r.at] /\ rr \in Streams
          BY <1>10, <3>1, <3>3 DEF Seek, Positioned
        <4>2. in'.at = d + 1 /\ ~in'.eof
          BY <2>1, <3>3, <4>1 DEF Streams
        <4>3. LastRead(in') = d /\ b <= in'.at
          BY <1>7, <1>11, <4>2 DEF LastRead
        <4>4. d + 1 < Len(file) /\ file[d + 2] = "."
          <5>1. r.at < Len(file) /\ r.at + 1 = d + 2
            BY <1>7, <1>9, <1>10, <2>1, <3>3
          <5> QED
            BY <1>10, <2>1, <2>2, <5>1
        <4>5. Ahead(b, d, real')
          <5>1. file[d] # "." /\ file[d + 1] \notin {"+", "-"}
            BY <1>6, <1>7, <2>1
          <5> QED
            BY <4>4, <5>1 DEF Ahead
        <4>6. Chars(b, d, real')
          BY <1>11, <3>1 DEF Chars
        <4> QED
          BY <1>7, <1>11, <1>13, <3>1, <4>3, <4>5, <4>6, SMTT(30)
      <3> QED
        BY <3>2, <3>3
    <2>3. CASE ~range
      <3>1. next = rr /\ real' = TRUE /\ lexeme' = text(d) \o <<".">> \o (IF sign THEN <<rr.ch>> ELSE <<>>)
        BY <1>3, <1>4, <1>11, <1>15, <2>3 DEF next
      <3>2. rr.ch # "." /\ rr.at = d + 2 /\ rr.ch = file[d + 2] /\ ~rr.eof /\ LastRead(rr) = d + 1 /\ d + 1 < Len(file)
        <4>1. r.at < Len(file) /\ r.at + 1 = d + 2
          BY <1>7, <1>9, <1>10, <1>15, <2>1, <2>3
        <4> QED
          BY <1>10, <1>15, <2>1, <2>3, <4>1
      <3>3. text(d) \o <<".">> = text(d + 1) /\ text(d + 1) \in Seq(STRING)
        <4>1. d \in b - 1 .. Len(file) - 1 /\ d + 1 \in b - 1 .. Len(file)
          BY <1>7, <1>11, <2>1
        <4>2. text(d) \o <<file[d + 1]>> = text(d + 1)
          BY <1>5, <1>7, <4>1, Collect
        <4>3. text(d + 1) \in Seq(STRING)
          BY <1>5, <1>7, <4>1, PartOfText
        <4> QED
          BY <2>1, <4>2, <4>3
      <3>4. Chars(b, d + 1, TRUE)
        <4>1. b \in Int /\ d \in Int /\ b - 1 <= d
          BY <1>7, <1>11
        <4> QED
          BY <1>11, <2>1, <4>1, CharsAdded
      <3>5. CASE ~sign
        <4>1. in' = rr /\ lexeme' = text(d + 1)
          BY <1>2, <3>1, <3>3, <3>5, ConcatEmptySeq
        <4>2. rr.ch \notin {"+", "-"}
          BY <1>15, <2>3, <3>1, <3>5
        <4>3. Ahead(b, d + 1, TRUE)
          <5>1. d + 1 + 1 = d + 2
            BY <1>7
          <5> QED
            BY <3>2, <4>2, <5>1 DEF Ahead
        <4> QED
          <5>1. b - 1 <= d + 1 /\ b <= d + 2
            BY <1>7, <1>11
          <5> QED
            BY <1>13, <3>1, <3>2, <3>4, <4>1, <4>3, <5>1
      <3>6. CASE sign
        <4> DEFINE n == d + 2
        <4>1. in' = Read(rr) /\ lexeme' = text(d + 1) \o <<rr.ch>> /\ rr.ch \in {"+", "-"}
          BY <1>2, <3>1, <3>3, <3>6
        <4>2. d + 1 + 1 = n /\ d + 1 \in b - 1 .. Len(file) - 1 /\ n \in Nat /\ b - 1 <= d + 1
          BY <1>7, <1>11, <3>2
        <4>3. lexeme' = text(n)
          <5>1. text(d + 1) \o <<file[n]>> = text(n)
            BY <1>5, <1>7, <4>2, Collect
          <5> QED
            BY <3>2, <4>1, <5>1
        <4>4. LastRead(Read(rr)) = n /\ b <= Read(rr).at
          <5>1. LastRead(Read(rr)) = rr.at /\ Read(rr).at >= rr.at
            <6>1. /\ LastRead(Read(rr)) = rr.at /\ rr.at \in 1 .. Len(file) /\ Positioned(Read(rr))
                  /\ rr.at < Len(file) => Read(rr).at = rr.at + 1
              BY <1>5, <1>10, <3>2, ReadPlaces
            <6>2. rr.at = Len(file) => Read(rr) = [rr EXCEPT !.eof = TRUE]
              BY <1>5, <1>10, ReadNext
            <6>3. rr.at = Len(file) => Read(rr).at = rr.at
              BY <1>10, <6>2 DEF Positioned, Streams
            <6> QED
              BY <1>7, <6>1, <6>3
          <5>2. Read(rr).at \in Nat
            <6>1. Positioned(Read(rr))
              BY <1>5, <1>10, ReadPlaces
            <6> QED
              BY <6>1 DEF Positioned
          <5> QED
            BY <1>7, <1>11, <3>2, <5>1, <5>2
        <4>5. Chars(b, n, TRUE)
          <5>1. file[d + 1 + 1] \in {"+", "-"}
            BY <3>2, <4>1, <4>2
          <5>2. Chars(b, d + 1 + 1, TRUE)
            <6>1. b \in Int /\ d + 1 \in Int
              BY <1>7
            <6> QED
              BY <3>4, <4>2, <5>1, <6>1, CharsAdded
          <5> QED
            BY <4>2, <5>2
        <4>6. Ahead(b, n, TRUE)
          BY <3>2, <4>1 DEF Ahead
        <4> HIDE DEF n
        <4> QED
          <5>1. b - 1 <= n
            BY <1>7, <4>2
          <5> QED
            BY <1>13, <3>1, <4>1, <4>3, <4>4, <4>5, <4>6, <5>1
      <3> QED
        BY <3>5, <3>6
    <2> QED
      BY <2>2, <2>3
  <1> QED
    BY <1>14, <1>15

\* The power of ten that a digit of a real number counts is an integer.
LEMMA WeightType ==
    ASSUME NEW s \in Seq(STRING), HasRealForm(s), NEW k \in DOMAIN s
    PROVE  Weight(s, k) \in Int
  <1>1. PICK p \in 2 .. Len(s) : RealShape(s, p) /\ \E at \in p + 1 .. Len(s) + 1 : ScaledAt(s, at)
    BY FormHasShape
  <1>2. PICK q \in p + 1 .. Len(s) + 1 : ScaledAt(s, q)
    BY <1>1
  <1> DEFINE scales == {i \in DOMAIN s : s[i] \in Scales}
             at == CHOOSE i \in scales : TRUE
             signed == s[at + 1] \in {"+", "-"}
             first == IF signed THEN at + 2 ELSE at + 1
             digits == From(s, first)
             size == ValueIn(10, digits)
  <1>3. Scale(s) = IF scales = {} THEN 0 ELSE IF s[at + 1] = "-" THEN -size ELSE size
    BY DEF Scale
  <1>4. ASSUME scales # {} PROVE size \in Int
    <2>1. at \in scales
      BY <1>4
    <2>2. at = q /\ q \in 1 .. Len(s)
      BY <1>2, <2>1 DEF ScaledAt
    <2>3. first \in {q + 1, q + 2}
      BY <2>2
    <2>4. ASSUME NEW i \in first .. Len(s) PROVE s[i] \in Digits
      <3>1. i \in p + 1 .. Len(s) /\ i # q /\ i \in 1 .. Len(s)
        BY <2>2, <2>3
      <3>2. s[i] \notin Scales /\ s[i] \in Digits \cup Scales \cup {"+", "-"} /\ (s[i] \in {"+", "-"} => s[i - 1] \in Scales)
        BY <1>1, <1>2, <3>1 DEF RealShape, ScaledAt
      <3>3. ASSUME s[i] \in {"+", "-"} PROVE FALSE
        <4>1. i - 1 \in 1 .. Len(s) /\ s[i - 1] \in Scales
          BY <3>1, <3>2, <3>3
        <4>2. i - 1 = q
          BY <1>2, <4>1 DEF ScaledAt
        <4>3. i = q + 1
          BY <2>2, <3>1, <4>2
        <4>4. at = q
          BY <2>2
        <4> HIDE DEF at
        <4>5. signed
          BY <3>3, <4>3, <4>4
        <4>6. first = at + 2
          BY <4>5
        <4> HIDE DEF first
        <4> QED
          BY <2>2, <4>3, <4>4, <4>6
      <3> QED
        BY <3>2, <3>3
    <2> HIDE DEF at, first, digits
    <2>5. digits \in Seq(STRING) /\ Consists(digits, HexDigits)
      <3>1. CASE first \in 1 .. Len(s)
        <4>1. Len(s) \in first - 1 .. Len(s)
          BY <3>1
        <4> DEFINE t == SubSeq(s, first, Len(s))
        <4>2. t \in Seq(STRING) /\ Len(t) = Len(s) - first + 1 /\ \A j \in first .. Len(s) : t[j - first + 1] = s[j]
          BY <3>1, <4>1, PartOfText
        <4> HIDE DEF t
        <4>3. ASSUME NEW j \in DOMAIN t PROVE t[j] \in Digits
          <5>1. j + first - 1 \in first .. Len(s) /\ (j + first - 1) - first + 1 = j
            BY <3>1, <4>2
          <5> QED
            BY <2>4, <4>2, <5>1
        <4> QED
          BY <4>2, <4>3 DEF digits, From, t, Consists, HexDigits
      <3>2. CASE first \notin 1 .. Len(s)
        <4>1. digits = <<>>
          BY <2>2, <2>3, <3>2 DEF digits, From
        <4> QED
          BY <4>1 DEF Consists
      <3> QED
        BY <3>1, <3>2
    <2> QED
      BY <2>5, ValueType
  <1> HIDE DEF scales, at, size
  <1>5. Scale(s) \in Int
    BY <1>3, <1>4
  <1>6. (CHOOSE i \in DOMAIN s : s[i] = ".") \in Int
    <2>1. p \in DOMAIN s /\ s[p] = "."
      BY <1>1 DEF RealShape
    <2>2. (CHOOSE i \in DOMAIN s : s[i] = ".") \in DOMAIN s
      BY <2>1, Zenon
    <2> QED
      BY <2>2
  <1> QED
    BY <1>5, <1>6 DEF Weight

\* What fits a float fits a double, and what is zero in a double is zero in a
\* float.
LEMMA FloatsAreDoubles ==
    ASSUME NEW s \in Seq(STRING), HasRealForm(s)
    PROVE  /\ Exceeds(s, DoubleHigh) => Exceeds(s, FloatHigh)
           /\ Vanishes(s, DoubleLow) => Vanishes(s, FloatLow)
  <1>1. \A k \in Significant(s) : Weight(s, k) \in Int
    BY WeightType DEF Significant
  <1> QED
    BY <1>1, RangesAssumption DEF Exceeds, Vanishes

\* What is emitted for a real number
RealEmitted(ok, meaning) ==
    /\ ok \in BOOLEAN
    /\ lexeme \in Seq(STRING) => (ok <=> IsReal(lexeme)) /\ (ok => meaning = RealMeaning(lexeme))

LEMMA FloatEmitted ==
    ASSUME FloatToken(in)
    PROVE  \E ok, kind, value :
             Emit(begin, in, ok, [kind |-> kind, value |-> value]) /\ RealEmitted(ok, [kind |-> kind, value |-> value])
  <1> DEFINE InRange(high) == HasRealForm(lexeme) /\ ~Exceeds(lexeme, high)
             Rounded(low) == IF Vanishes(lexeme, low) THEN <<>> ELSE lexeme
             isLong == Range(lexeme) \cap LongScales # {}
             float == ~isLong /\ InRange(FloatHigh) /\ (Vanishes(lexeme, FloatLow) => Vanishes(lexeme, DoubleLow))
             double == InRange(DoubleHigh)
             ok == float \/ double
             kind == IF float THEN "real" ELSE "double"
             value == IF float THEN Rounded(FloatLow) ELSE IF double THEN Rounded(DoubleLow) ELSE <<>>
  <1>1. Emit(begin, in, ok, [kind |-> kind, value |-> value])
    BY Zenon DEF FloatToken
  <1>2. ASSUME lexeme \in Seq(STRING)
        PROVE  (ok <=> IsReal(lexeme)) /\ (ok => [kind |-> kind, value |-> value] = RealMeaning(lexeme))
    <2>1. HasRealForm(lexeme) => /\ Exceeds(lexeme, DoubleHigh) => Exceeds(lexeme, FloatHigh)
                                 /\ Vanishes(lexeme, DoubleLow) => Vanishes(lexeme, FloatLow)
      BY <1>2, FloatsAreDoubles
    <2>2. ok <=> IsReal(lexeme)
      BY <2>1 DEF IsReal
    <2>3. ASSUME ok PROVE [kind |-> kind, value |-> value] = RealMeaning(lexeme)
      <3>1. HasRealForm(lexeme) /\ ~Exceeds(lexeme, DoubleHigh)
        BY <2>2, <2>3 DEF IsReal
      <3>2. float <=> /\ ~isLong /\ ~Exceeds(lexeme, FloatHigh)
                      /\ Vanishes(lexeme, FloatLow) => Vanishes(lexeme, DoubleLow)
        BY <3>1
      <3>3. value = Rounded(DoubleLow)
        BY <2>1, <3>1, <3>2
      <3> QED
        BY <3>2, <3>3 DEF RealMeaning
    <2> QED
      BY <2>2, <2>3
  <1>3. ok \in BOOLEAN
    BY DEF HasRealForm, Exceeds
  <1>4. RealEmitted(ok, [kind |-> kind, value |-> value])
    BY <1>2, <1>3 DEF RealEmitted
  <1> HIDE DEF ok, kind, value
  <1> QED
    BY <1>1, <1>4

\* What FinishNumber emits, by the kind of number
LEMMA NumberTokens ==
    ASSUME FinishNumber
    PROVE  \E s, ok, meaning :
             /\ Emit(begin, s, ok, meaning) /\ ok \in BOOLEAN
             /\ \/ real /\ in.ch \in {"H", "X"} /\ s = Read(in) /\ ~ok
                \/ /\ real /\ in.ch \notin {"H", "X"} /\ s = in
                   /\ lexeme \in Seq(STRING) => (ok <=> IsReal(lexeme))
                \/ ~real /\ in.ch = "X" /\ s = Read(in) /\ (ok <=> Converts(lexeme, 16, CharBits))
                \/ ~real /\ in.ch = "H" /\ s = Read(in) /\ (ok <=> Converts(lexeme, 16, LongBits))
                \/ ~real /\ in.ch \notin {"H", "X"} /\ s = in /\ (ok <=> Converts(lexeme, 10, LongBits))
  <1>1. \A base, bits : Converts(lexeme, base, bits) \in BOOLEAN
    BY DEF Converts
  <1>2. CASE real /\ in.ch \in {"H", "X"} /\ Emit(begin, Read(in), FALSE, [kind |-> "undefined", value |-> <<>>])
    <2> DEFINE meaning == [kind |-> "undefined", value |-> <<>>]
    <2>1. Emit(begin, Read(in), FALSE, meaning)
      BY <1>2
    <2> HIDE DEF meaning
    <2> QED
      BY <1>2, <2>1
  <1>3. CASE real /\ in.ch \notin {"H", "X"} /\ FloatToken(in)
    <2>1. PICK ok, kind, value :
             Emit(begin, in, ok, [kind |-> kind, value |-> value]) /\ RealEmitted(ok, [kind |-> kind, value |-> value])
      BY <1>3, FloatEmitted
    <2> DEFINE meaning == [kind |-> kind, value |-> value]
    <2>2. Emit(begin, in, ok, meaning) /\ ok \in BOOLEAN /\ (lexeme \in Seq(STRING) => (ok <=> IsReal(lexeme)))
      BY <2>1 DEF RealEmitted
    <2> HIDE DEF meaning
    <2> QED
      BY <1>3, <2>1, <2>2
  <1>4. CASE ~real /\ in.ch = "X" /\ CharToken(Read(in))
    <2>1. PICK meaning : Emit(begin, Read(in), Converts(lexeme, 16, CharBits), meaning)
      BY <1>4 DEF CharToken
    <2> QED
      BY <1>1, <1>4, <2>1
  <1>5. ASSUME NEW s, NEW base, IntegerToken(s, base)
        PROVE  \E meaning : Emit(begin, s, Converts(lexeme, base, LongBits), meaning)
    BY <1>5 DEF IntegerToken
  <1>6. CASE ~real /\ in.ch = "H" /\ IntegerToken(Read(in), 16)
    <2>1. PICK meaning : Emit(begin, Read(in), Converts(lexeme, 16, LongBits), meaning)
      BY <1>5, <1>6
    <2> QED
      BY <1>1, <1>6, <2>1
  <1>7. CASE ~real /\ in.ch \notin {"H", "X"} /\ IntegerToken(in, 10)
    <2>1. PICK meaning : Emit(begin, in, Converts(lexeme, 10, LongBits), meaning)
      BY <1>5, <1>7
    <2> QED
      BY <1>1, <1>7, <2>1
  <1> QED
    BY <1>2, <1>3, <1>4, <1>6, <1>7 DEF FinishNumber

\* A point at the end of the file is taken for a range.
LEMMA PointIsLost ==
    ASSUME file \in Seq(STRING), NEW b \in 1 .. Len(file), file[Len(file)] = ".", NEW t, t.from = b, t.to = Len(file)
    PROVE  IsLongest(t)
  <1> DEFINE n == Len(file)
             u == SubSeq(file, b, n)
  <1>1. n \in b - 1 .. Len(file) /\ n \in b .. n
    OBVIOUS
  <1>2. Len(u) = n - b + 1 /\ \A k \in b .. n : u[k - b + 1] = file[k]
    BY <1>1, PartOfText
  <1> HIDE DEF u
  <1>3. Last(u) = "."
    BY <1>1, <1>2 DEF Last
  <1>4. PointAtEnd(Text(t), t.to)
    BY <1>3 DEF PointAtEnd, Text, u
  <1> QED
    BY <1>4 DEF IsLongest

\* A number is the longest at its place, or rejected for what follows.
LEMMA FinishNumberIsLongest ==
    ASSUME IInv, TokensAreLongest, NumberRead, FinishNumber
    PROVE  TokensAreLongest' /\ mode' = "scan"
  <1> DEFINE b == begin.at
             e == LastRead(in)
             c == in.ch
             Kinds(s, ok) ==
               \/ real /\ c \in {"H", "X"} /\ s = Read(in) /\ ~ok
               \/ real /\ c \notin {"H", "X"} /\ s = in /\ (lexeme \in Seq(STRING) => (ok <=> IsReal(lexeme)))
               \/ ~real /\ c = "X" /\ s = Read(in) /\ (ok <=> Converts(lexeme, 16, CharBits))
               \/ ~real /\ c = "H" /\ s = Read(in) /\ (ok <=> Converts(lexeme, 16, LongBits))
               \/ ~real /\ c \notin {"H", "X"} /\ s = in /\ (ok <=> Converts(lexeme, 10, LongBits))
  <1>1. mode = "number" /\ ~InNumber /\ file' = file
    BY DEF FinishNumber
  <1>2. PICK s, ok, meaning : Emit(begin, s, ok, meaning) /\ ok \in BOOLEAN /\ Kinds(s, ok)
    BY NumberTokens
  <1> DEFINE t == Token(begin, s, ok, meaning)
  <1>3. t.from = b /\ t.to = LastRead(s) /\ t.ok = ok /\ mode' = "scan"
    BY <1>2 DEF Token, Emit
  <1> HIDE DEF t
  <1>4. file \in Seq(STRING) /\ Positioned(in) /\ Positioned(begin)
    BY <1>1, Collecting
  <1>5. /\ in.at \in 1 .. Len(file) /\ c = file[in.at] /\ Len(file) \in Nat /\ b \in 1 .. Len(file)
        /\ in.eof => e = in.at /\ in.at = Len(file)
        /\ ~in.eof => e = in.at - 1 /\ LastRead(Read(in)) = in.at
        /\ e \in 0 .. Len(file) /\ (e < Len(file) => ~in.eof)
    BY <1>4, ReadPlaces
  <1>6. ~in.eof => c \notin HexDigits
    BY <1>1 DEF InNumber
  <1>7. b <= in.at /\ file[b] \in Digits
    BY DEF NumberRead
  <1>8. IsLongest(t)
    <2>1. CASE in.eof /\ file[Len(file)] = "."
      <3>1. s = in /\ t.to = Len(file)
        BY <1>2, <1>3, <1>5, <2>1
      <3> HIDE DEF b
      <3> QED
        BY <1>3, <1>4, <1>5, <2>1, <3>1, PointIsLost
    <2>2. CASE ~(in.eof /\ file[Len(file)] = ".")
      <3>1. b - 1 <= e /\ lexeme = SubSeq(file, b, e) /\ Chars(b, e, real) /\ Ahead(b, e, real)
        BY <2>2 DEF NumberRead
      <3>2. e \in b .. Len(file)
        <4>1. ASSUME e = b - 1 PROVE FALSE
          <5>1. ~in.eof /\ in.at = b
            BY <1>5, <4>1
          <5> QED
            BY <1>5, <1>6, <1>7, <5>1 DEF HexDigits
        <4> QED
          BY <1>5, <3>1, <4>1
      <3>3. e < Len(file) => ~in.eof /\ in.at = e + 1 /\ c = file[e + 1] /\ LastRead(Read(in)) = e + 1
        BY <1>5
      <3>4. c \in {"H", "X"} => e < Len(file)
        <4>1. ASSUME e = Len(file) PROVE c = file[e]
          <5>1. in.eof
            BY <1>5, <4>1
          <5> QED
            BY <1>5, <4>1, <5>1
        <4>2. e \in b .. e
          BY <1>5, <3>2
        <4>3. file[e] \in HexDigits \cup {".", "+", "-"}
          BY <3>1, <4>2 DEF Chars
        <4>4. file[e] \notin {"H", "X"}
          BY <4>3 DEF HexDigits, Digits, HexLetters
        <4> QED
          BY <1>5, <3>2, <4>1, <4>4
      <3>5. e < Len(file) => file[e + 1] \notin HexDigits
        BY <1>6, <3>3
      <3> HIDE DEF b, e, c
      <3>6. CASE real
        <4>1. Chars(b, e, TRUE) /\ Ahead(b, e, TRUE)
          BY <3>1, <3>6 DEF Chars, Ahead
        <4>2. lexeme \in Seq(STRING)
          <5>1. e \in b - 1 .. Len(file)
            BY <1>5, <3>1
          <5> QED
            BY <1>4, <1>5, <3>1, <5>1, PartOfText
        <4>3. \/ t.to = e /\ (t.ok <=> IsReal(SubSeq(file, b, e)))
              \/ t.to = e + 1 /\ ~t.ok /\ e < Len(file) /\ file[e + 1] \in {"H", "X"}
          BY <1>2, <1>3, <3>1, <3>3, <3>4, <3>6, <4>2 DEF e
        <4> QED
          BY <1>2, <1>3, <1>4, <1>5, <1>7, <3>2, <3>5, <4>1, <4>3, RealIsLongest
      <3>7. CASE ~real
        <4>1. (\A k \in b .. e : file[k] \in HexDigits) /\ Ahead(b, e, FALSE)
          BY <3>1, <3>7 DEF Chars, Ahead
        <4>2. CASE c \in {"H", "X"}
          <5>1. e \in b .. Len(file) - 1 /\ file[e + 1] = c /\ t.to = e + 1
            BY <1>2, <1>3, <1>5, <3>2, <3>3, <3>4, <4>2
          <5>2. PICK bits : /\ (c = "H" /\ bits = LongBits) \/ (c = "X" /\ bits = CharBits)
                            /\ t.ok <=> Converts(SubSeq(file, b, e), 16, bits)
            BY <1>2, <1>3, <3>1, <3>7, <4>2
          <5> QED
            BY <1>2, <1>3, <1>4, <1>5, <1>7, <4>1, <5>1, <5>2, SuffixedIsLongest
        <4>3. CASE c \notin {"H", "X"}
          <5>1. t.to = e /\ (t.ok <=> Converts(SubSeq(file, b, e), 10, LongBits))
            BY <1>2, <1>3, <3>1, <3>7, <4>3 DEF e
          <5>2. e < Len(file) => file[e + 1] \notin HexDigits \cup {"H", "X"}
            BY <3>3, <3>5, <4>3
          <5> QED
            BY <1>2, <1>3, <1>4, <1>5, <1>7, <3>2, <4>1, <5>1, <5>2, DecimalIsLongest
        <4> QED
          BY <4>2, <4>3
      <3> QED
        BY <3>6, <3>7
    <2> QED
      BY <2>1, <2>2
  <1> QED
    BY <1>1, <1>2, <1>3, <1>8, EmittedIsLongest DEF t

-----------------------------------------------------------------------------
(* What the loops have collected is the beginning of a lexeme.             *)
Collected == /\ mode = "ident" => InName
             /\ mode = "string" => InString
             /\ mode = "number" => NumberRead

LInv == IInv /\ TokensAreLongest /\ Collected

\* The end of the file is a token of its own.
LEMMA EndIsLongest ==
    ASSUME IInv, TokensAreLongest, EndOfFile
    PROVE  TokensAreLongest' /\ mode' = "done"
  <1> DEFINE t == Token(in, in, TRUE, [kind |-> "eof", value |-> <<>>])
  <1>1. tokens' = Append(tokens, t) /\ file' = file /\ mode' = "done"
    BY DEF EndOfFile
  <1>2. IsLongest(t)
    BY DEF IsLongest, Token
  <1> HIDE DEF t
  <1> QED
    BY <1>1, <1>2, LongestAdded DEF IInv

LEMMA LexemeStep ==
    ASSUME LInv, Next
    PROVE  TokensAreLongest' /\ Collected'
  <1>1. IInv /\ TokensAreLongest /\ Collected
    BY DEF LInv
  <1>2. CASE SkipBlank \/ BadCharacter \/ BeginComment \/ scanComment
    <2>1. file' = file /\ tokens' = tokens /\ mode' \notin {"ident", "string", "number"}
      BY <1>2 DEF SkipBlank, BadCharacter, BeginComment, Loop, scanComment, OpenComment, CloseComment, SkipComment
    <2> QED
      BY <1>1, <2>1, TokensStayLongest DEF Collected
  <1>3. CASE scanSymbol
    <2>1. mode' = "scan"
      BY <1>3 DEF scanSymbol, Symbol, Emit
    <2> QED
      BY <1>1, <1>3, <2>1, SymbolIsLongest DEF Collected
  <1>4. CASE EndOfFile
    BY <1>1, <1>4, EndIsLongest DEF Collected
  <1>5. CASE BeginIdent
    <2>1. file' = file /\ tokens' = tokens /\ mode' = "ident"
      BY <1>5 DEF BeginIdent, Loop
    <2> QED
      BY <1>1, <1>5, <2>1, BeginNameStep, TokensStayLongest DEF Collected
  <1>6. CASE BeginNumber
    <2>1. file' = file /\ tokens' = tokens /\ mode' = "number"
      BY <1>6 DEF BeginNumber, Loop
    <2> QED
      BY <1>1, <1>6, <2>1, BeginNumberStep, TokensStayLongest DEF Collected
  <1>7. CASE BeginString
    <2>1. file' = file /\ tokens' = tokens /\ mode' = "string"
      BY <1>7 DEF BeginString, Loop
    <2> QED
      BY <1>1, <1>7, <2>1, BeginStringStep, TokensStayLongest DEF Collected
  <1>8. CASE scanIdent
    BY <1>1, <1>8, NameStep DEF Collected
  <1>9. CASE ScanDigit
    <2>1. file' = file /\ tokens' = tokens /\ mode = "number" /\ mode' = "number"
      BY <1>9 DEF ScanDigit
    <2> QED
      BY <1>1, <1>9, <2>1, DigitIsRead, TokensStayLongest DEF Collected
  <1>10. CASE FinishNumber
    <2>1. mode = "number"
      BY <1>10 DEF FinishNumber
    <2> QED
      BY <1>1, <1>10, <2>1, FinishNumberIsLongest DEF Collected
  <1>11. CASE StringCharacter
    <2>1. file' = file /\ tokens' = tokens /\ mode = "string" /\ mode' = "string"
      BY <1>11 DEF StringCharacter
    <2> QED
      BY <1>1, <1>11, <2>1, StringCharacterStep, TokensStayLongest DEF Collected
  <1>12. CASE FinishString
    <2>1. mode = "string"
      BY <1>12 DEF FinishString
    <2> QED
      BY <1>1, <1>12, <2>1, FinishStringStep DEF Collected
  <1> QED
    BY <1>2, <1>3, <1>4, <1>5, <1>6, <1>7, <1>8, <1>9, <1>10, <1>11, <1>12
    DEF Next, scanToken, scanNumber, scanString

\* LInv holds in every state of the scanner: names, numbers and strings are
\* collected from their first character on.
THEOREM LexemeInvariant == Spec => []LInv
  <1>1. Init => IInv /\ TokensAreLongest /\ Collected
    <2>1. Init => mode = "scan" /\ tokens = <<>>
      BY DEF Init
    <2>2. \A i \in DOMAIN <<>> : FALSE
      OBVIOUS
    <2>3. mode = "scan" /\ tokens = <<>> => TokensAreLongest /\ Collected
      BY <2>2 DEF TokensAreLongest, Collected
    <2> QED
      BY <2>1, <2>3, InitInvariant
  <1>2. LInv /\ [Next]_vars => TokensAreLongest' /\ Collected'
    <2>1. CASE UNCHANGED vars
      <3>1. LInv => TokensAreLongest'
        BY <2>1, TokensStayLongest DEF LInv, vars
      <3>2. LInv => Collected'
        BY <2>1 DEF LInv, vars, Collected, InName, InString, NumberRead, Esc, Chars, Ahead, LastRead
      <3> QED
        BY <3>1, <3>2
    <2> QED
      BY <2>1, LexemeStep
  <1>3. Spec => []IInv
    BY ScannerInvariant
  <1> QED
    BY <1>1, <1>2, <1>3, PTL DEF Spec, LInv

\* Every token of every file is the longest lexeme that begins at its first
\* character, or one that is rejected because of what follows, but for the
\* known departures.
THEOREM TokensAreAlwaysLongest == Spec => []TokensAreLongest
  <1>1. LInv => TokensAreLongest
    BY DEF LInv
  <1> QED
    BY <1>1, LexemeInvariant, PTL

-----------------------------------------------------------------------------
(* What strings stand for                                                  *)

\* g[k]: what replacing leaves of s from k on
Replaces(g, s, c, by) ==
    /\ g[Len(s) + 1] = <<>>
    /\ \A k \in 1 .. Len(s) :
         g[k] = IF k < Len(s) /\ s[k] = Backslash /\ s[k + 1] = c THEN by \o g[k + 2] ELSE <<s[k]>> \o g[k + 1]

\* replace_all satisfies its recursive definition.
LEMMA ReplaceExists ==
    ASSUME NEW S, NEW s \in Seq(S), NEW c, NEW by
    PROVE  \E g : replace_all(s, c, by) = g[1] /\ Replaces(g, s, c, by)
  <1> DEFINE N == Len(s)
             step(k, two, one) == IF k > N THEN <<>>
                                  ELSE IF k < N /\ s[k] = Backslash /\ s[k + 1] = c THEN by \o two
                                  ELSE <<s[k]>> \o one
             Is(g, n) == g = [k \in n .. N + 1 |-> step(k, g[k + 2], g[k + 1])]
             Good == {n \in Nat : n <= N => \E g : Is(g, N + 1 - n)}
  <1>1. N \in Nat
    OBVIOUS
  <1>2. /\ \A k, two, one : k \in Int /\ k > N => step(k, two, one) = <<>>
        /\ \A k \in 1 .. N : \A two, one : step(k, two, one) =
             IF k < N /\ s[k] = Backslash /\ s[k + 1] = c THEN by \o two ELSE <<s[k]>> \o one
        /\ \A two, one, other : step(N, two, one) = step(N, other, one)
    <2>1. \A k, two, one : k \in Int /\ k > N => step(k, two, one) = <<>>
      OBVIOUS
    <2>2. \A k \in 1 .. N : \A two, one : step(k, two, one) =
            IF k < N /\ s[k] = Backslash /\ s[k + 1] = c THEN by \o two ELSE <<s[k]>> \o one
      BY <1>1
    <2>3. \A two, one, other : step(N, two, one) = step(N, other, one)
      BY <1>1
    <2> HIDE DEF step
    <2> QED
      BY <2>1, <2>2, <2>3
  <1>0. replace_all(s, c, by) = (CHOOSE f : Is(f, 1))[1]
    BY Zenon DEF replace_all
  <1> HIDE DEF step, N
  <1>3. 0 \in Good
    <2> DEFINE g == [k \in N + 1 - 0 .. N + 1 |-> <<>>]
    <2>1. N + 1 - 0 = N + 1 /\ \A k \in N + 1 .. N + 1 : k \in Int /\ k > N
      BY <1>1
    <2>2. Is(g, N + 1 - 0)
      BY <1>2, <2>1
    <2> QED
      BY <2>2
  <1>4. ASSUME NEW n \in Nat, n \in Good PROVE n + 1 \in Good
    <2>1. SUFFICES ASSUME n + 1 <= N PROVE \E g : Is(g, N + 1 - (n + 1))
      OBVIOUS
    <2>2. n <= N
      BY <1>1, <2>1
    <2>3. PICK g : Is(g, N + 1 - n)
      BY <1>4, <2>2
    <2> DEFINE m == N + 1 - (n + 1)
               new == step(m, g[m + 2], g[m + 1])
               h == [k \in m .. N + 1 |-> IF k = m THEN new ELSE g[k]]
    <2>4. m \in 1 .. N /\ m + 1 = N + 1 - n /\ m \in m .. N + 1
      BY <1>1, <2>1
    <2>5. h[m] = new /\ \A k \in m + 1 .. N + 1 : h[k] = g[k]
      <3>1. \A k \in m + 1 .. N + 1 : k \in m .. N + 1 /\ k # m
        BY <2>4
      <3> HIDE DEF new, m
      <3> QED
        BY <2>4, <3>1
    <2>6. \A k \in m + 1 .. N + 1 : g[k] = step(k, g[k + 2], g[k + 1])
      BY <2>3, <2>4
    <2>7. ASSUME NEW k \in m .. N + 1
          PROVE  h[k] = step(k, h[k + 2], h[k + 1])
      <3> HIDE DEF h
      <3>1. CASE k = N
        <4>1. k + 1 \in m + 1 .. N + 1 /\ (k = m \/ k \in m + 1 .. N + 1)
          BY <1>1, <2>4, <3>1
        <4>2. h[k] = step(k, g[k + 2], g[k + 1]) /\ h[k + 1] = g[k + 1]
          BY <2>5, <2>6, <4>1
        <4> HIDE DEF m
        <4> QED
          BY <1>2, <3>1, <4>2
      <3>2. CASE k < N
        <4>1. k + 1 \in m + 1 .. N + 1 /\ k + 2 \in m + 1 .. N + 1 /\ (k = m \/ k \in m + 1 .. N + 1)
          BY <1>1, <2>4, <3>2
        <4>2. h[k] = step(k, g[k + 2], g[k + 1]) /\ h[k + 1] = g[k + 1] /\ h[k + 2] = g[k + 2]
          BY <2>5, <2>6, <4>1
        <4> QED
          BY <4>2
      <3>3. CASE k > N
        <4>1. k \in m + 1 .. N + 1 /\ k \in Int
          BY <1>1, <2>4, <3>3
        <4>2. step(k, h[k + 2], h[k + 1]) = <<>> /\ step(k, g[k + 2], g[k + 1]) = <<>>
          BY <1>2, <3>3, <4>1
        <4>3. h[k] = g[k] /\ g[k] = step(k, g[k + 2], g[k + 1])
          BY <2>5, <2>6, <4>1
        <4> QED
          BY <4>2, <4>3
      <3> QED
        BY <1>1, <2>4, <3>1, <3>2, <3>3
    <2> HIDE DEF new
    <2>8. Is(h, m)
      BY <2>7, Zenon
    <2> HIDE DEF Is, h
    <2> QED
      BY <2>8
  <1>5. N \in Good
    <2>1. Nat \subseteq Good
      <3> HIDE DEF Good
      <3> QED
        BY <1>3, <1>4, NatSet, Zenon
    <2> QED
      BY <1>1, <2>1
  <1>6. \E g : Is(g, 1)
    <2>1. N + 1 - N = 1 /\ N <= N
      BY <1>1
    <2> HIDE DEF Is
    <2> QED
      BY <1>5, <2>1
  <1> DEFINE F == CHOOSE f : Is(f, 1)
  <1>7. Is(F, 1)
    BY <1>6
  <1>8. replace_all(s, c, by) = F[1]
    BY <1>0
  <1> HIDE DEF F
  <1>9. \A k \in 1 .. N + 1 : F[k] = step(k, F[k + 2], F[k + 1])
    BY <1>7, Zenon
  <1>10. F[N + 1] = <<>>
    BY <1>1, <1>2, <1>9
  <1>11. \A k \in 1 .. N : k \in 1 .. N + 1
    BY <1>1
  <1>12. \A k \in 1 .. N : F[k] = IF k < N /\ s[k] = Backslash /\ s[k + 1] = c THEN by \o F[k + 2]
                                  ELSE <<s[k]>> \o F[k + 1]
    <2>1. ASSUME NEW k \in 1 .. N
          PROVE  F[k] = IF k < N /\ s[k] = Backslash /\ s[k + 1] = c THEN by \o F[k + 2] ELSE <<s[k]>> \o F[k + 1]
      <3>1. F[k] = step(k, F[k + 2], F[k + 1])
        BY <1>9, <1>11
      <3>2. \A two, one : step(k, two, one) =
              IF k < N /\ s[k] = Backslash /\ s[k + 1] = c THEN by \o two ELSE <<s[k]>> \o one
        BY <1>2
      <3> QED
        BY <3>1, <3>2
    <2> QED
      BY <2>1
  <1> QED
    BY <1>8, <1>10, <1>12 DEF N, Replaces

\* Numbers down to one, in two steps: what holds for the last two of them
\* and for one that has it for the two after it, holds for all.
LEMMA Downwards ==
    ASSUME NEW N \in Nat, NEW T, N + 1 \in T,
           \A k \in 1 .. N : (\A i \in k + 1 .. N + 1 : i \in T) => k \in T
    PROVE  \A k \in 1 .. N + 1 : k \in T
  <1> DEFINE S == {n \in Nat : \A i \in N + 1 - n .. N + 1 : i >= 1 => i \in T}
  <1>1. 0 \in S
    BY \A i \in N + 1 - 0 .. N + 1 : i = N + 1
  <1>2. ASSUME NEW n \in Nat, n \in S PROVE n + 1 \in S
    <2> DEFINE m == N + 1 - (n + 1)
    <2>1. \A i \in m .. N + 1 : i = m \/ i \in N + 1 - n .. N + 1
      OBVIOUS
    <2>2. m >= 1 => m \in T
      <3>1. ASSUME m >= 1 PROVE \A i \in m + 1 .. N + 1 : i \in N + 1 - n .. N + 1 /\ i >= 1
        BY <3>1
      <3>2. m >= 1 => m \in 1 .. N
        OBVIOUS
      <3> HIDE DEF m
      <3> QED
        BY <1>2, <3>1, <3>2
    <2>3. \A i \in m .. N + 1 : i >= 1 => i \in T
      BY <1>2, <2>1, <2>2
    <2> QED
      BY <2>3
  <1>3. Nat \subseteq S
    <2> HIDE DEF S
    <2> QED
      BY <1>1, <1>2, NatSet, Zenon
  <1>4. N \in S
    BY <1>3
  <1> QED
    BY <1>4

\* A text of texts
LEMMA ReplaceType ==
    ASSUME NEW S, NEW s \in Seq(S), NEW by \in Seq(S), NEW c, NEW g, Replaces(g, s, c, by)
    PROVE  \A k \in 1 .. Len(s) + 1 : g[k] \in Seq(S)
  <1> DEFINE N == Len(s)
             T == {k \in 1 .. N + 1 : g[k] \in Seq(S)}
  <1>1. N \in Nat /\ \A k \in 1 .. N : s[k] \in S
    BY ElementOfSeq
  <1>2. N + 1 \in T
    <2>1. g[N + 1] = <<>> /\ N + 1 \in 1 .. N + 1
      BY <1>1 DEF Replaces
    <2> QED
      BY <2>1, EmptySeq
  <1>3. ASSUME NEW k \in 1 .. N, \A i \in k + 1 .. N + 1 : i \in T PROVE k \in T
    <2>1. k + 1 \in k + 1 .. N + 1 /\ (k < N => k + 2 \in k + 1 .. N + 1)
      OBVIOUS
    <2>2. g[k + 1] \in Seq(S) /\ (k < N => g[k + 2] \in Seq(S))
      BY <1>3, <2>1
    <2>3. <<s[k]>> \in Seq(S)
      BY <1>1
    <2>4. <<s[k]>> \o g[k + 1] \in Seq(S) /\ (k < N => by \o g[k + 2] \in Seq(S))
      BY <2>2, <2>3, ConcatProperties
    <2>5. g[k] \in Seq(S)
      BY <2>4 DEF Replaces
    <2> QED
      BY <2>5
  <1>4. \A k \in 1 .. N + 1 : k \in T
    <2> HIDE DEF T, N
    <2> QED
      BY <1>1, <1>2, <1>3, Downwards, Zenon
  <1> QED
    BY <1>4

\* u is what s has behind its first d characters.
Behind(s, u, d) == Len(s) = Len(u) + d /\ \A i \in 1 .. Len(u) : u[i] = s[i + d]

\* What is replaced in a text does not depend on what was before it.
LEMMA ReplaceShift ==
    ASSUME NEW S, NEW s \in Seq(S), NEW u \in Seq(S), NEW by, NEW c, NEW d \in Nat,
           Behind(s, u, d), NEW g, Replaces(g, s, c, by)
    PROVE  g[d + 1] = replace_all(u, c, by)
  <1> DEFINE N == Len(u)
  <1>1. PICK h : replace_all(u, c, by) = h[1] /\ Replaces(h, u, c, by)
    BY ReplaceExists
  <1> DEFINE T == {k \in 1 .. N + 1 : h[k] = g[k + d]}
  <1>2. N \in Nat /\ Len(s) = N + d /\ \A i \in 1 .. N : u[i] = s[i + d]
    BY DEF Behind
  <1>3. N + 1 \in T
    <2>1. N + 1 + d = Len(s) + 1
      BY <1>2
    <2> QED
      BY <1>1, <1>2, <2>1 DEF Replaces
  <1>4. ASSUME NEW k \in 1 .. N, \A i \in k + 1 .. N + 1 : i \in T PROVE k \in T
    <2>1. /\ k + 1 \in k + 1 .. N + 1 /\ (k < N => k + 2 \in k + 1 .. N + 1) /\ (k < N => k + 1 \in 1 .. N)
          /\ k + d \in 1 .. Len(s) /\ (k < N <=> k + d < Len(s))
          /\ k + 1 + d = k + d + 1 /\ k + 2 + d = k + d + 2
      BY <1>2
    <2>2. h[k + 1] = g[k + d + 1] /\ (k < N => h[k + 2] = g[k + d + 2])
      BY <1>4, <2>1
    <2>3. u[k] = s[k + d] /\ (k < N => u[k + 1] = s[k + d + 1])
      <3>1. k < N => u[k + 1] = s[k + 1 + d]
        BY <1>2, <2>1
      <3> QED
        BY <1>2, <2>1, <3>1
    <2> DEFINE j == k + d
    <2>4. g[j] = IF j < Len(s) /\ s[j] = Backslash /\ s[j + 1] = c THEN by \o g[j + 2] ELSE <<s[j]>> \o g[j + 1]
      BY <2>1 DEF Replaces
    <2>5. h[k] = IF k < N /\ u[k] = Backslash /\ u[k + 1] = c THEN by \o h[k + 2] ELSE <<u[k]>> \o h[k + 1]
      BY <1>1 DEF Replaces
    <2>6. h[k] = g[j]
      <3> HIDE DEF N
      <3>1. CASE k < N
        <4>1. u[k] = s[j] /\ u[k + 1] = s[j + 1] /\ j < Len(s) /\ h[k + 1] = g[j + 1] /\ h[k + 2] = g[j + 2]
          BY <2>1, <2>2, <2>3, <3>1
        <4> HIDE DEF j
        <4> QED
          BY <2>4, <2>5, <3>1, <4>1
      <3>2. CASE ~(k < N)
        <4>1. u[k] = s[j] /\ ~(j < Len(s)) /\ h[k + 1] = g[j + 1]
          BY <2>1, <2>2, <2>3, <3>2
        <4> HIDE DEF j
        <4> QED
          BY <2>4, <2>5, <3>2, <4>1
      <3> QED
        BY <3>1, <3>2
    <2> QED
      BY <2>6
  <1>5. \A k \in 1 .. N + 1 : k \in T
    <2> HIDE DEF T, N
    <2> QED
      BY <1>2, <1>3, <1>4, Downwards, Zenon
  <1>6. 1 \in T
    BY <1>5
  <1>7. 1 + d = d + 1
    OBVIOUS
  <1> QED
    BY <1>1, <1>6, <1>7

\* How a replacement goes through a text, from the left
LEMMA ReplaceNothing ==
    ASSUME NEW by, NEW c
    PROVE  replace_all(<<>>, c, by) = <<>>
  <1> DEFINE s == <<>>
  <1>1. s \in Seq(STRING) /\ Len(s) = 0
    BY EmptySeq
  <1> HIDE DEF s
  <1>2. PICK g : replace_all(s, c, by) = g[1] /\ Replaces(g, s, c, by)
    BY <1>1, ReplaceExists
  <1> QED
    BY <1>1, <1>2 DEF Replaces, s

LEMMA ReplacedType ==
    ASSUME NEW S, NEW u \in Seq(S), NEW by \in Seq(S), NEW c
    PROVE  replace_all(u, c, by) \in Seq(S)
  <1>1. PICK g : replace_all(u, c, by) = g[1] /\ Replaces(g, u, c, by)
    BY ReplaceExists
  <1>2. \A k \in 1 .. Len(u) + 1 : g[k] \in Seq(S)
    BY <1>1, ReplaceType
  <1> QED
    BY <1>1, <1>2

LEMMA ReplaceStep ==
    ASSUME NEW S, NEW u \in Seq(S), NEW by \in Seq(S), NEW c, NEW x \in S, x # Backslash
    PROVE  replace_all(<<x>> \o u, c, by) = <<x>> \o replace_all(u, c, by)
  <1> DEFINE s == <<x>> \o u
  <1>1. s \in Seq(S) /\ Len(s) = Len(u) + 1 /\ s[1] = x /\ Behind(s, u, 1)
    BY DEF Behind
  <1> HIDE DEF s
  <1>2. PICK g : replace_all(s, c, by) = g[1] /\ Replaces(g, s, c, by)
    BY <1>1, ReplaceExists
  <1>3. g[1 + 1] = replace_all(u, c, by)
    <2>1. 1 \in Nat
      OBVIOUS
    <2> QED
      BY <1>1, <1>2, <2>1, ReplaceShift
  <1>4. 1 \in 1 .. Len(s)
    BY <1>1
  <1>5. g[1] = <<s[1]>> \o g[1 + 1]
    BY <1>1, <1>2, <1>4 DEF Replaces
  <1> QED
    BY <1>1, <1>2, <1>3, <1>5 DEF s

\* A character behind a backslash is replaced or kept.
LEMMA ReplaceEscape ==
    ASSUME NEW S, NEW by, NEW c, NEW s \in Seq(S), NEW u \in Seq(S), NEW v \in Seq(S),
           s[1] = Backslash, Behind(s, u, 2), Behind(s, v, 1)
    PROVE  replace_all(s, c, by) = IF s[2] = c THEN by \o replace_all(u, c, by)
                                   ELSE <<Backslash>> \o replace_all(v, c, by)
  <1>1. PICK g : replace_all(s, c, by) = g[1] /\ Replaces(g, s, c, by)
    BY ReplaceExists
  <1>2. g[2 + 1] = replace_all(u, c, by) /\ g[1 + 1] = replace_all(v, c, by)
    <2>1. 1 \in Nat /\ 2 \in Nat
      OBVIOUS
    <2> QED
      BY <1>1, <2>1, ReplaceShift
  <1>3. 1 \in 1 .. Len(s) /\ 1 < Len(s) /\ 1 + 1 = 2 /\ 1 + 2 = 3 /\ 2 + 1 = 3
    BY DEF Behind
  <1>4. g[1] = IF s[1] = Backslash /\ s[2] = c THEN by \o g[3] ELSE <<s[1]>> \o g[2]
    BY <1>1, <1>3 DEF Replaces
  <1> QED
    BY <1>1, <1>2, <1>3, <1>4

LEMMA EscapeText ==
    ASSUME NEW S, Backslash \in S, NEW u \in Seq(S), NEW x \in S, NEW s, s = <<Backslash, x>> \o u, NEW v, v = <<x>> \o u
    PROVE  s \in Seq(S) /\ v \in Seq(S) /\ s[1] = Backslash /\ s[2] = x /\ Behind(s, u, 2) /\ Behind(s, v, 1)
  <1>1. /\ s \in Seq(S) /\ Len(s) = Len(u) + 2 /\ s[1] = Backslash /\ s[2] = x
        /\ \A i \in 1 .. Len(u) : u[i] = s[i + 2]
    OBVIOUS
  <1>2. v \in Seq(S) /\ Len(v) = Len(u) + 1 /\ v[1] = x /\ \A i \in 1 .. Len(u) : u[i] = v[i + 1]
    OBVIOUS
  <1>3. ASSUME NEW i \in 1 .. Len(v) PROVE v[i] = s[i + 1]
    <2>1. CASE i # 1
      <3> DEFINE j == i - 1
      <3>1. j \in 1 .. Len(u) /\ j + 1 = i /\ j + 2 = i + 1
        BY <1>2, <2>1
      <3> HIDE DEF j
      <3> QED
        BY <1>1, <1>2, <3>1
    <2>2. CASE i = 1
      BY <1>1, <1>2, <2>2
    <2> QED
      BY <2>1, <2>2
  <1>4. Len(s) = Len(v) + 1
    BY <1>1, <1>2
  <1> QED
    BY <1>1, <1>2, <1>3, <1>4 DEF Behind

LEMMA EscapePrefix ==
    ASSUME NEW S, Backslash \in S, NEW x \in S, NEW r \in Seq(S)
    PROVE  <<Backslash>> \o (<<x>> \o r) = <<Backslash, x>> \o r
  <1>1. <<Backslash>> \in Seq(S) /\ <<x>> \in Seq(S) /\ <<Backslash>> \o <<x>> = <<Backslash, x>>
    <2> DEFINE a == <<Backslash>> \o <<x>>
               b == <<Backslash, x>>
    <2>1. a \in Seq(S) /\ b \in Seq(S) /\ Len(a) = 2 /\ Len(b) = 2
      OBVIOUS
    <2>2. a[1] = b[1] /\ a[2] = b[2]
      OBVIOUS
    <2> HIDE DEF a, b
    <2>3. \A i \in 1 .. Len(a) : i = 1 \/ i = 2
      BY <2>1
    <2>4. a = b
      BY <2>1, <2>2, <2>3, SeqEqual
    <2> QED
      BY <2>4 DEF a, b
  <1>2. (<<Backslash>> \o <<x>>) \o r = <<Backslash>> \o (<<x>> \o r)
    BY <1>1, ConcatAssociative
  <1> QED
    BY <1>1, <1>2

LEMMA ReplaceFound ==
    ASSUME NEW S, Backslash \in S, NEW u \in Seq(S), NEW by \in Seq(S), NEW c \in S
    PROVE  replace_all(<<Backslash, c>> \o u, c, by) = by \o replace_all(u, c, by)
  <1> DEFINE s == <<Backslash, c>> \o u
             v == <<c>> \o u
  <1>1. s \in Seq(S) /\ v \in Seq(S) /\ s[1] = Backslash /\ s[2] = c /\ Behind(s, u, 2) /\ Behind(s, v, 1)
    BY EscapeText
  <1> HIDE DEF s, v
  <1>2. replace_all(s, c, by) = by \o replace_all(u, c, by)
    BY <1>1, ReplaceEscape
  <1> QED
    BY <1>2 DEF s

LEMMA ReplaceOther ==
    ASSUME NEW S, Backslash \in S, NEW u \in Seq(S), NEW by \in Seq(S), NEW c, NEW x \in S, x # Backslash, x # c
    PROVE  replace_all(<<Backslash, x>> \o u, c, by) = <<Backslash, x>> \o replace_all(u, c, by)
  <1> DEFINE r == replace_all(u, c, by)
             s == <<Backslash, x>> \o u
             v == <<x>> \o u
  <1>1. r \in Seq(S)
    BY ReplacedType
  <1>2. replace_all(s, c, by) = <<Backslash>> \o (<<x>> \o r)
    <2>1. replace_all(v, c, by) = <<x>> \o r
      BY ReplaceStep
    <2>2. s \in Seq(S) /\ v \in Seq(S) /\ s[1] = Backslash /\ s[2] = x /\ Behind(s, u, 2) /\ Behind(s, v, 1)
      BY EscapeText
    <2> HIDE DEF s, v, r
    <2>3. replace_all(s, c, by) = <<Backslash>> \o replace_all(v, c, by)
      BY <2>2, ReplaceEscape
    <2> QED
      BY <2>1, <2>3
  <1> HIDE DEF r
  <1>3. <<Backslash>> \o (<<x>> \o r) = <<Backslash, x>> \o r
    BY <1>1, EscapePrefix
  <1> QED
    BY <1>2, <1>3 DEF r, s

\* How unescape goes through a text: only a backslash before a backslash or
\* a zero makes the passes interfere.
EscapeMeans(x) == IF x \in DOMAIN EscapeValue THEN <<EscapeValue[x]>> ELSE <<Backslash, x>>

LEMMA UnescapeStep ==
    ASSUME NEW S, {Quote, Backslash, Newline, "0", "n"} \subseteq S, NEW u \in Seq(S), NEW x \in S
    PROVE  /\ unescape(<<>>) = <<>>
           /\ unescape(u) \in Seq(S)
           /\ x # Backslash => unescape(<<x>> \o u) = <<x>> \o unescape(u)
           /\ x \notin {Backslash, "0"} => unescape(<<Backslash, x>> \o u) = EscapeMeans(x) \o unescape(u)
  <1> DEFINE zero == "0"
             letter == "n"
             none == <<>>
             quote == <<Quote>>
             backslash == <<Backslash>>
             newline == <<Newline>>
             E(t) == replace_all(replace_all(replace_all(replace_all(t, zero, none), Quote, quote), Backslash, backslash),
                                 letter, newline)
             a == replace_all(u, zero, none)
             b == replace_all(a, Quote, quote)
             c == replace_all(b, Backslash, backslash)
             r == replace_all(c, letter, newline)
  <1>1. \A t : unescape(t) = E(t)
    BY DEF unescape, EscapeValue, Quote, Backslash, Newline
  <1>2. /\ Quote \in S /\ Backslash \in S /\ zero \in S /\ letter \in S
        /\ none \in Seq(S) /\ quote \in Seq(S) /\ backslash \in Seq(S) /\ newline \in Seq(S)
    BY EmptySeq
  <1>3. Quote \notin {letter, zero, Backslash} /\ letter \notin {zero, Backslash} /\ Newline # Backslash
    BY DEF Quote, Backslash, Newline
  <1>4. x # Backslash => EscapeMeans(x) = IF x = Quote THEN quote ELSE IF x = letter THEN newline ELSE <<Backslash, x>>
    BY DEF EscapeMeans, EscapeValue, Quote, Newline
  <1> HIDE DEF zero, letter, none, quote, backslash, newline, a, b, c, r
  <1>5. a \in Seq(S) /\ b \in Seq(S) /\ c \in Seq(S) /\ r \in Seq(S) /\ unescape(u) = r
    <2>1. a \in Seq(S)
      BY <1>2, ReplacedType DEF a
    <2>2. b \in Seq(S)
      BY <1>2, <2>1, ReplacedType DEF b
    <2>3. c \in Seq(S)
      BY <1>2, <2>2, ReplacedType DEF c
    <2>4. r \in Seq(S)
      BY <1>2, <2>3, ReplacedType DEF r
    <2> QED
      BY <1>1, <2>1, <2>2, <2>3, <2>4 DEF r, c, b, a
  <1>6. unescape(<<>>) = <<>>
    BY <1>1, ReplaceNothing
  <1>7. ASSUME x # Backslash PROVE unescape(<<x>> \o u) = <<x>> \o r
    <2>1. replace_all(<<x>> \o u, zero, none) = <<x>> \o a
      BY <1>2, <1>7, ReplaceStep DEF a
    <2>2. replace_all(<<x>> \o a, Quote, quote) = <<x>> \o b
      BY <1>2, <1>5, <1>7, ReplaceStep DEF b
    <2>3. replace_all(<<x>> \o b, Backslash, backslash) = <<x>> \o c
      BY <1>2, <1>5, <1>7, ReplaceStep DEF c
    <2>4. replace_all(<<x>> \o c, letter, newline) = <<x>> \o r
      BY <1>2, <1>5, <1>7, ReplaceStep DEF r
    <2> QED
      BY <1>1, <2>1, <2>2, <2>3, <2>4
  <1>8. ASSUME x \notin {Backslash, zero} PROVE unescape(<<Backslash, x>> \o u) = EscapeMeans(x) \o r
    <2>1. replace_all(<<Backslash, x>> \o u, zero, none) = <<Backslash, x>> \o a
      BY <1>2, <1>8, ReplaceOther DEF a
    <2>2. CASE x = Quote
      <3>0. replace_all(<<Backslash, Quote>> \o a, Quote, quote) = quote \o b
        <4>1. Backslash \in S /\ Quote \in S /\ a \in Seq(S) /\ quote \in Seq(S)
          BY <1>2, <1>5
        <4>2. replace_all(<<Backslash, Quote>> \o a, Quote, quote) = quote \o replace_all(a, Quote, quote)
          BY <4>1, ReplaceFound
        <4> QED
          BY <4>2 DEF b
      <3>1. replace_all(<<Backslash, x>> \o a, Quote, quote) = quote \o b
        BY <2>2, <3>0
      <3>2. replace_all(<<Quote>> \o b, Backslash, backslash) = <<Quote>> \o c
        BY <1>2, <1>3, <1>5, ReplaceStep DEF c
      <3>3. replace_all(<<Quote>> \o c, letter, newline) = <<Quote>> \o r
        BY <1>2, <1>3, <1>5, ReplaceStep DEF r
      <3> QED
        BY <1>1, <1>4, <1>8, <2>1, <2>2, <3>1, <3>2, <3>3 DEF quote
    <2>3. CASE x # Quote
      <3>1. replace_all(<<Backslash, x>> \o a, Quote, quote) = <<Backslash, x>> \o b
        BY <1>2, <1>5, <1>8, <2>3, ReplaceOther, SMTT(30) DEF b
      <3>2. replace_all(<<Backslash, x>> \o b, Backslash, backslash) = <<Backslash, x>> \o c
        BY <1>2, <1>5, <1>8, ReplaceOther, SMTT(30) DEF c
      <3>3. x = letter => replace_all(<<Backslash, x>> \o c, letter, newline) = newline \o r
        <4>1. Backslash \in S /\ letter \in S /\ c \in Seq(S) /\ newline \in Seq(S)
          BY <1>2, <1>5
        <4>2. replace_all(<<Backslash, letter>> \o c, letter, newline) = newline \o replace_all(c, letter, newline)
          BY <4>1, ReplaceFound
        <4> QED
          BY <4>2 DEF r
      <3>4. x # letter => replace_all(<<Backslash, x>> \o c, letter, newline) = <<Backslash, x>> \o r
        BY <1>2, <1>5, <1>8, ReplaceOther, SMTT(30) DEF r
      <3>5. replace_all(<<Backslash, x>> \o c, letter, newline) = EscapeMeans(x) \o r
        BY <1>4, <1>8, <2>3, <3>3, <3>4
      <3> QED
        BY <1>1, <2>1, <3>1, <3>2, <3>5
    <2> QED
      BY <2>2, <2>3
  <1> QED
    BY <1>5, <1>6, <1>7, <1>8 DEF zero

\* What a character of a string contributes to its contents
Stands(s, k) == IF ~Escaped(s)[k] THEN IF s[k] = Backslash THEN <<>> ELSE <<s[k]>> ELSE EscapeMeans(s[k])

LEMMA EmptyConcat ==
    ASSUME NEW S, NEW t \in Seq(S)
    PROVE  <<>> \o t = t
  OBVIOUS

\* The contents of a string satisfy their recursive definition.
LEMMA ContentsExist ==
    ASSUME NEW s \in Seq(STRING), Len(s) > 1
    PROVE  \E g : /\ Contents(s) = g[2] /\ g[Len(s)] = <<>>
                  /\ \A k \in 2 .. Len(s) - 1 : g[k] = Stands(s, k) \o g[k + 1]
  <1> DEFINE N == Len(s)
             step(k, one) == IF k = N THEN <<>> ELSE Stands(s, k) \o one
             Is(g, n) == g = [k \in n .. N |-> step(k, g[k + 1])]
             Good == {n \in Nat : n <= N - 2 => \E g : Is(g, N - n)}
  <1>1. N \in Nat /\ N > 1
    OBVIOUS
  <1>2. /\ \A one : step(N, one) = <<>>
        /\ \A k, one : k # N => step(k, one) = Stands(s, k) \o one
    OBVIOUS
  <1>0. Contents(s) = (CHOOSE f : Is(f, 2))[2]
    BY Zenon DEF Contents, Stands, EscapeMeans
  <1> HIDE DEF step, N
  <1>3. 0 \in Good
    <2> DEFINE g == [k \in N - 0 .. N |-> <<>>]
    <2>1. N - 0 = N /\ \A k \in N .. N : k = N
      BY <1>1
    <2>2. Is(g, N - 0)
      BY <1>2, <2>1
    <2> QED
      BY <2>2
  <1>4. ASSUME NEW n \in Nat, n \in Good PROVE n + 1 \in Good
    <2>1. SUFFICES ASSUME n + 1 <= N - 2 PROVE \E g : Is(g, N - (n + 1))
      OBVIOUS
    <2>2. n <= N - 2
      BY <1>1, <2>1
    <2>3. PICK g : Is(g, N - n)
      BY <1>4, <2>2
    <2> DEFINE m == N - (n + 1)
               new == step(m, g[m + 1])
               h == [k \in m .. N |-> IF k = m THEN new ELSE g[k]]
    <2>4. m \in Int /\ m < N /\ m + 1 = N - n /\ m \in m .. N
      BY <1>1, <2>1
    <2>5. h[m] = new /\ \A k \in m + 1 .. N : h[k] = g[k]
      <3>1. \A k \in m + 1 .. N : k \in m .. N /\ k # m
        BY <1>1, <2>4
      <3> HIDE DEF new, m
      <3> QED
        BY <2>4, <3>1
    <2>6. \A k \in m + 1 .. N : g[k] = step(k, g[k + 1])
      BY <2>3, <2>4
    <2>7. ASSUME NEW k \in m .. N
          PROVE  h[k] = step(k, h[k + 1])
      <3> HIDE DEF h
      <3>1. k = m \/ k \in m + 1 .. N
        BY <1>1, <2>4
      <3>2. h[k] = step(k, g[k + 1])
        BY <2>5, <2>6, <3>1
      <3>3. k = N \/ k + 1 \in m + 1 .. N
        BY <1>1, <2>4
      <3> HIDE DEF m
      <3> QED
        BY <1>2, <2>5, <3>2, <3>3
    <2> HIDE DEF new
    <2>8. Is(h, m)
      BY <2>7, Zenon
    <2> HIDE DEF Is, h
    <2> QED
      BY <2>8
  <1>5. N - 2 \in Good
    <2>1. Nat \subseteq Good
      <3> HIDE DEF Good
      <3> QED
        BY <1>3, <1>4, NatSet, Zenon
    <2> QED
      BY <1>1, <2>1
  <1>6. \E g : Is(g, 2)
    <2>1. N - (N - 2) = 2 /\ N - 2 <= N - 2
      BY <1>1
    <2> HIDE DEF Is
    <2> QED
      BY <1>5, <2>1
  <1> DEFINE F == CHOOSE f : Is(f, 2)
  <1>7. Is(F, 2)
    BY <1>6
  <1>8. Contents(s) = F[2]
    BY <1>0
  <1> HIDE DEF F
  <1>9. \A k \in 2 .. N : F[k] = step(k, F[k + 1])
    BY <1>7, Zenon
  <1>10. N \in 2 .. N /\ \A k \in 2 .. N - 1 : k \in 2 .. N /\ k # N
    BY <1>1
  <1>11. F[N] = <<>>
    BY <1>2, <1>9, <1>10
  <1>12. \A k \in 2 .. N - 1 : F[k] = Stands(s, k) \o F[k + 1]
    BY <1>2, <1>9, <1>10
  <1> QED
    BY <1>8, <1>11, <1>12 DEF N

\* The passes of unescape leave the contents of a string, if no backslash is
\* before a backslash or a zero.
LEMMA ContentsRead ==
    ASSUME NEW s \in Seq(STRING), IsString(s), ~EscapesInterfere(s)
    PROVE  unescape(SubSeq(s, 2, Len(s) - 1)) = Contents(s)
  <1> DEFINE N == Len(s)
             W(k) == SubSeq(s, k, N - 1)
             S == STRING \cup {Quote, Backslash, Newline, "0", "n"}
  <1>1. N \in Nat /\ N > 1 /\ s[1] = Quote
    BY DEF IsString
  <1>2. PICK g : Contents(s) = g[2] /\ g[N] = <<>> /\ \A k \in 2 .. N - 1 : g[k] = Stands(s, k) \o g[k + 1]
    BY <1>1, ContentsExist
  <1> DEFINE E == Escaped(s)
  <1>3. \A k \in 1 .. N : E[k] <=> k > 1 /\ s[k - 1] = Backslash /\ ~E[k - 1]
    BY EscapedStep
  <1>4. s[N] = Quote /\ ~E[N]
    <2>1. Last(s) = s[N] /\ N \in 2 .. N
      BY <1>1 DEF Last
    <2>2. Last(s) = Quote /\ \A k \in 2 .. N : s[k] = Quote => (E[k] <=> k < N)
      BY Zenon DEF IsString
    <2>3. ~(N < N)
      BY <1>1
    <2>4. s[N] = Quote /\ (E[N] <=> N < N)
      BY <2>1, <2>2, Zenon
    <2> QED
      BY <2>3, <2>4, Zenon
  <1>5. \A k \in 2 .. N : s[k - 1] = Backslash => s[k] \notin {Backslash, "0"}
    BY <1>1 DEF EscapesInterfere
  <1>6. s \in Seq(S) /\ {Quote, Backslash, Newline, "0", "n"} \subseteq S /\ \A k \in 1 .. N : s[k] \in S
    <2>1. \A k \in 1 .. N : s[k] \in STRING
      BY ElementOfSeq
    <2>2. s \in Seq(S)
      OBVIOUS
    <2> QED
      BY <2>1, <2>2
  <1> HIDE DEF S, N, E
  <1>7. ASSUME NEW k \in 2 .. N, ~E[k], \A i \in k + 1 .. N : ~E[i] => unescape(W(i)) = g[i]
        PROVE  unescape(W(k)) = g[k]
    <2>1. CASE k = N
      <3>1. W(k) = <<>>
        BY <1>1, <2>1, SubSeqEmpty
      <3> QED
        BY <1>2, <1>6, <2>1, <3>1, UnescapeStep
    <2>2. CASE k # N /\ s[k] # Backslash
      <3>1. k \in 2 .. N - 1 /\ k + 1 \in k + 1 .. N /\ k \in 1 .. N /\ k + 1 \in 1 .. N /\ k + 1 - 1 = k /\ k \in 1 .. N - 1
            /\ N - 1 \in k .. N
        BY <1>1, <2>2
      <3>2. ~E[k + 1]
        BY <1>3, <2>2, <3>1
      <3>3. W(k) = <<s[k]>> \o W(k + 1)
        BY <1>6, <3>1, SubSeqRecursiveFirst DEF N
      <3>4. W(k + 1) \in Seq(S)
        <4>1. \A i \in k + 1 .. N - 1 : s[i] \in S
          BY <1>1, <1>6, <3>1
        <4> QED
          BY <1>1, <3>1, <4>1, SubSeqProperties
      <3> HIDE DEF W
      <3>5. unescape(W(k)) = <<s[k]>> \o unescape(W(k + 1))
        BY <1>6, <2>2, <3>1, <3>3, <3>4, UnescapeStep
      <3>6. Stands(s, k) = <<s[k]>>
        BY <1>7, <2>2 DEF Stands, E
      <3> QED
        BY <1>2, <1>7, <3>1, <3>2, <3>5, <3>6
    <2>3. CASE k # N /\ s[k] = Backslash
      <3>1. k \in 2 .. N - 1 /\ k + 1 \in k + 1 .. N /\ k \in 1 .. N /\ k + 1 \in 1 .. N /\ k + 1 - 1 = k /\ k + 1 > 1
        BY <1>1, <2>3
      <3>2. E[k + 1]
        BY <1>3, <1>7, <2>3, <3>1
      <3>3. k + 1 # N
        BY <1>4, <3>2
      <3>4. k + 1 \in 2 .. N - 1 /\ k + 2 \in k + 1 .. N /\ k + 2 \in 1 .. N /\ k + 2 - 1 = k + 1 /\ N - 1 \in k .. N
            /\ N - 1 \in k + 1 .. N /\ k + 1 + 1 = k + 2 /\ k + 1 \in 2 .. N
        BY <1>1, <3>1, <3>3
      <3>5. ~E[k + 2]
        BY <1>3, <3>2, <3>4
      <3> DEFINE x == s[k + 1]
      <3>6. x \notin {Backslash, "0"} /\ x \in S
        BY <1>5, <1>6, <2>3, <3>1, <3>4
      <3>7. W(k + 2) \in Seq(S)
        <4>1. \A i \in k + 2 .. N - 1 : s[i] \in S
          BY <1>1, <1>6, <3>1
        <4> QED
          BY <1>1, <3>1, <4>1, SubSeqProperties
      <3>8. W(k) = <<Backslash>> \o (<<x>> \o W(k + 2))
        <4>1. W(k) = <<s[k]>> \o W(k + 1)
          BY <1>6, <3>1, <3>4, SubSeqRecursiveFirst DEF N
        <4>2. W(k + 1) = <<s[k + 1]>> \o W(k + 2)
          BY <1>6, <3>1, <3>4, SubSeqRecursiveFirst DEF N
        <4> QED
          BY <2>3, <4>1, <4>2
      <3> HIDE DEF W, x
      <3>9. W(k) = <<Backslash, x>> \o W(k + 2)
        BY <1>6, <3>6, <3>7, <3>8, EscapePrefix
      <3>10. unescape(W(k)) = EscapeMeans(x) \o unescape(W(k + 2))
        BY <1>6, <3>6, <3>7, <3>9, UnescapeStep
      <3>11. unescape(W(k + 2)) = g[k + 2] /\ unescape(W(k + 2)) \in Seq(S)
        BY <1>6, <1>7, <3>4, <3>5, <3>6, <3>7, UnescapeStep
      <3>12. Stands(s, k) = <<>> /\ Stands(s, k + 1) = EscapeMeans(x)
        BY <1>7, <2>3, <3>2 DEF Stands, E, x
      <3>13. g[k] = <<>> \o (EscapeMeans(x) \o g[k + 2])
        BY <1>2, <3>1, <3>4, <3>12
      <3>14. EscapeMeans(x) \o g[k + 2] \in Seq(S)
        <4>1. EscapeMeans(x) \in Seq(S)
          BY <1>6, <3>6 DEF EscapeMeans, EscapeValue
        <4> QED
          BY <3>11, <4>1, ConcatProperties
      <3>15. g[k] = EscapeMeans(x) \o g[k + 2]
        BY <3>13, <3>14, EmptyConcat
      <3> QED
        BY <3>10, <3>11, <3>15
    <2> QED
      BY <2>1, <2>2, <2>3
  <1> DEFINE T == {k \in Int : k >= 2 /\ ~E[k] => unescape(W(k)) = g[k]}
             M == N - 1
  <1>8. M \in Nat /\ M + 1 = N
    BY <1>1
  <1>9. \A i : i \in T <=> i \in Int /\ (i >= 2 /\ ~E[i] => unescape(W(i)) = g[i])
    OBVIOUS
  <1> HIDE DEF T, M, W
  <1>10. ASSUME NEW k \in 1 .. N, \A i \in k + 1 .. N : i \in T PROVE k \in T
    <2>1. k \in Int /\ (k >= 2 => k \in 2 .. N) /\ \A i \in k + 1 .. N : i >= 2
      BY <1>1
    <2>2. \A i \in k + 1 .. N : ~E[i] => unescape(W(i)) = g[i]
      BY <1>9, <1>10, <2>1
    <2> QED
      BY <1>7, <1>9, <2>1, <2>2
  <1>11. N \in T
    BY <1>1, <1>10, \A i \in N + 1 .. N : FALSE
  <1>12. \A k \in 1 .. M : (\A i \in k + 1 .. M + 1 : i \in T) => k \in T
    BY <1>8, <1>10
  <1>13. \A k \in 1 .. N : k \in T
    BY <1>8, <1>11, <1>12, Downwards
  <1>14. 2 \in 1 .. N /\ 2 >= 2 /\ 1 \in 1 .. N /\ 2 - 1 = 1 /\ Quote # Backslash
    <2>1. Quote # Backslash
      BY Zenon DEF Quote, Backslash
    <2> QED
      BY <1>1, <2>1
  <1>15. ~E[2]
    BY <1>1, <1>3, <1>14
  <1>16. unescape(W(2)) = g[2]
    BY <1>9, <1>13, <1>14, <1>15
  <1> QED
    BY <1>2, <1>16 DEF W, N

-----------------------------------------------------------------------------
(* What a lexeme stands for, by its first character                        *)

\* How the lexemes of each kind begin
LEMMA FirstCharacters ==
    ASSUME NEW s \in Seq(STRING), Len(s) > 0
    PROVE  /\ IsIdent(s) => s[1] \in Initials
           /\ IsNumber(s) => s[1] \in Digits
           /\ IsString(s) => s[1] = Quote
           /\ s \in DOMAIN Compound => s[1] \in Singles /\ Len(s) > 1
           /\ s \in Keywords => IsIdent(s)
  <1>1. 1 \in DOMAIN s /\ Len(s) \in Nat
    OBVIOUS
  <1>2. ASSUME IsNumber(s) PROVE s[1] \in Digits
    <2>1. IsDecimal(s) => s[1] \in Digits
      BY <1>1 DEF IsDecimal, Consists
    <2>2. IsHex(s, "H", LongBits) \/ IsHex(s, "X", CharBits) => s[1] \in Digits
      BY DEF IsHex
    <2>3. ASSUME IsReal(s) PROVE s[1] \in Digits
      <3>1. PICK p \in 2 .. Len(s) : RealShape(s, p)
        BY <2>3, RealHasShape
      <3>2. 1 \in 1 .. p - 1
        BY <1>1
      <3> QED
        BY <3>1, <3>2 DEF RealShape
    <2> QED
      BY <1>2, <2>1, <2>2, <2>3 DEF IsNumber
  <1>3. ASSUME s \in DOMAIN Compound PROVE s[1] \in Singles /\ Len(s) > 1
    <2>1. s[1] \in {"<", ">", ":", "."} /\ Len(s) > 1
      BY <1>3 DEF Compound
    <2> QED
      BY <2>1 DEF Singles
  <1>4. ASSUME s \in Keywords PROVE IsIdent(s)
    <2>1. PICK c \in {"O", "I", "D"}, d \in {"R", "F", "O", "N"} : s = <<c, d>>
      BY <1>4 DEF Keywords
    <2>2. c \in Letters /\ d \in Letters
      <3>1. {"O", "I", "D", "R", "F", "N"} \subseteq Letters
        BY DEF Letters, HexLetters
      <3> QED
        BY <3>1
    <2>3. Len(s) = 2 /\ s[1] = c /\ s[2] = d
      BY <2>1
    <2>4. \A k \in DOMAIN s : k = 1 \/ k = 2
      BY <2>3
    <2>5. s # <<>>
      BY <1>1
    <2> QED
      BY <2>2, <2>3, <2>4, <2>5 DEF IsIdent, Consists
  <1> QED
    BY <1>2, <1>3, <1>4 DEF IsIdent, IsString, Initials

\* No lexeme is of two kinds, as far as the first character tells them apart.
LEMMA KindsDiffer ==
    ASSUME NEW c
    PROVE  /\ c \in Initials => c \notin Digits /\ c # Quote /\ c \notin Singles
           /\ c \in Digits => c # Quote /\ c \notin Singles
           /\ c = Quote => c \notin Singles
  BY DEF Initials, Letters, HexLetters, Digits, Quote, Singles

\* No number is of two kinds.
LEMMA NumbersDiffer ==
    ASSUME NEW s \in Seq(STRING), Len(s) > 0
    PROVE  /\ IsDecimal(s) => /\ ~IsHex(s, "H", LongBits) /\ ~IsHex(s, "X", CharBits) /\ ~IsReal(s)
           /\ IsHex(s, "H", LongBits) => ~IsHex(s, "X", CharBits) /\ ~IsReal(s)
           /\ IsHex(s, "X", CharBits) => ~IsReal(s)
  <1> DEFINE n == Len(s)
             c == s[n]
  <1>1. n \in DOMAIN s /\ n \in Nat /\ n \in 1 .. n
    OBVIOUS
  <1>2. Last(s) = c
    BY DEF Last
  <1>3. IsHex(s, "H", LongBits) => c = "H"
    BY <1>2 DEF IsHex
  <1>4. IsHex(s, "X", CharBits) => c = "X"
    BY <1>2 DEF IsHex
  <1>5. IsDecimal(s) => \A k \in 1 .. n : s[k] \in Digits
    BY DEF IsDecimal, Consists
  <1> HIDE DEF c, n
  <1>6. ASSUME IsReal(s)
        PROVE  c \notin {"H", "X"} /\ \E p \in 1 .. n : s[p] = "."
    <2>1. PICK p \in 2 .. Len(s) : RealShape(s, p)
      BY <1>6, RealHasShape
    <2>2. p \in 1 .. n /\ (n = p \/ n \in p + 1 .. n)
      BY <1>1 DEF n
    <2>3. s[p] = "." /\ c \in Digits \cup Scales \cup {"+", "-", "."}
      BY <2>1, <2>2 DEF RealShape, c, n
    <2> QED
      BY <2>2, <2>3 DEF Digits, Scales, LongScales
  <1>7. c \in Digits => c \notin {"H", "X"}
    BY DEF Digits
  <1>8. "." \notin Digits
    BY DEF Digits
  <1>9. IsDecimal(s) => c \in Digits
    BY <1>1, <1>5 DEF c
  <1>10. IsDecimal(s) => ~IsReal(s)
    BY <1>5, <1>6, <1>8
  <1> QED
    BY <1>3, <1>4, <1>6, <1>7, <1>9, <1>10

LEMMA NameMeans ==
    ASSUME NEW s \in Seq(STRING), Len(s) > 0, IsIdent(s)
    PROVE  Meaning(s) = [kind |-> IF s \in Keywords THEN "keyword" ELSE "ident", value |-> s]
  <1>1. s[1] \in Initials
    BY FirstCharacters
  <1>2. ~IsNumber(s) /\ ~IsString(s) /\ s \notin DOMAIN Compound /\ s[1] \notin Singles
    BY <1>1, FirstCharacters, KindsDiffer
  <1>3. ~IsDecimal(s) /\ ~IsHex(s, "H", LongBits) /\ ~IsHex(s, "X", CharBits) /\ ~IsReal(s)
    BY <1>2 DEF IsNumber
  <1> QED
    BY <1>2, <1>3 DEF Meaning

LEMMA NumberMeans ==
    ASSUME NEW s \in Seq(STRING), Len(s) > 0
    PROVE  /\ IsDecimal(s) =>
                LET n == ValueIn(10, s)
                IN  Meaning(s) = [kind |-> IntegerKind(n <= MaxSigned(ShortBits), n <= MaxSigned(IntBits)), value |-> n]
           /\ IsHex(s, "H", LongBits) =>
                LET n == ValueIn(16, Front(s))
                IN  Meaning(s) = [kind |-> IntegerKind(n <= MaxUnsigned(ShortBits), n <= MaxUnsigned(IntBits)), value |-> n]
           /\ IsHex(s, "X", CharBits) => Meaning(s) = [kind |-> "char", value |-> ValueIn(16, Front(s))]
           /\ IsReal(s) => Meaning(s) = RealMeaning(s)
  <1>1. SUFFICES ASSUME IsNumber(s)
                 PROVE  /\ IsDecimal(s) =>
                              LET n == ValueIn(10, s)
                              IN  Meaning(s) = [kind |-> IntegerKind(n <= MaxSigned(ShortBits), n <= MaxSigned(IntBits)),
                                                value |-> n]
                        /\ IsHex(s, "H", LongBits) =>
                              LET n == ValueIn(16, Front(s))
                              IN  Meaning(s) = [kind |-> IntegerKind(n <= MaxUnsigned(ShortBits), n <= MaxUnsigned(IntBits)),
                                                value |-> n]
                        /\ IsHex(s, "X", CharBits) => Meaning(s) = [kind |-> "char", value |-> ValueIn(16, Front(s))]
                        /\ IsReal(s) => Meaning(s) = RealMeaning(s)
    BY <1>1, Zenon DEF IsNumber
  <1>2. s[1] \in Digits
    BY <1>1, FirstCharacters
  <1>3. ~IsIdent(s) /\ ~IsString(s) /\ s \notin DOMAIN Compound /\ s[1] \notin Singles /\ s \notin Keywords
    BY <1>2, FirstCharacters, KindsDiffer
  <1>4. IsDecimal(s) \/ IsHex(s, "H", LongBits) \/ IsHex(s, "X", CharBits) \/ IsReal(s)
    BY <1>1 DEF IsNumber
  <1> QED
    BY <1>3, <1>4, NumbersDiffer DEF Meaning

LEMMA StringMeans ==
    ASSUME NEW s \in Seq(STRING), Len(s) > 0, IsString(s)
    PROVE  Meaning(s) = [kind |-> IF Len(Contents(s)) < 2 THEN "char" ELSE "string", value |-> Contents(s)]
  <1>1. s[1] = Quote
    BY FirstCharacters
  <1>2. ~IsNumber(s) /\ ~IsIdent(s) /\ s \notin DOMAIN Compound /\ s[1] \notin Singles /\ s \notin Keywords
    BY <1>1, FirstCharacters, KindsDiffer
  <1>3. ~IsDecimal(s) /\ ~IsHex(s, "H", LongBits) /\ ~IsHex(s, "X", CharBits) /\ ~IsReal(s)
    BY <1>2 DEF IsNumber
  <1> QED
    BY <1>2, <1>3 DEF Meaning

LEMMA SymbolMeans ==
    ASSUME NEW s \in Seq(STRING), Len(s) > 0, (Len(s) = 1 /\ s[1] \in Singles) \/ s \in DOMAIN Compound
    PROVE  Meaning(s) = [kind |-> IF Len(s) = 1 THEN s[1] ELSE Compound[s], value |-> s]
  <1>1. s[1] \in Singles
    <2>1. s \in DOMAIN Compound => s[1] \in Singles
      BY FirstCharacters
    <2> QED
      BY <2>1
  <1>2. ~IsNumber(s) /\ ~IsIdent(s) /\ ~IsString(s) /\ s \notin Keywords
    BY <1>1, FirstCharacters, KindsDiffer
  <1>3. ~IsDecimal(s) /\ ~IsHex(s, "H", LongBits) /\ ~IsHex(s, "X", CharBits) /\ ~IsReal(s)
    BY <1>2 DEF IsNumber
  <1>4. s \in DOMAIN Compound => Len(s) # 1
    <2> DEFINE n == Len(s)
    <2>1. n \in Nat /\ (s \in DOMAIN Compound => n > 1)
      BY FirstCharacters
    <2> HIDE DEF n
    <2>2. s \in DOMAIN Compound => n # 1
      BY <2>1
    <2> QED
      BY <2>2 DEF n
  <1> QED
    BY <1>2, <1>3, <1>4 DEF Meaning

-----------------------------------------------------------------------------
(* Integers that keep their value                                          *)

\* A larger power of two is a larger number: they count sets.
LEMMA PowersOrdered ==
    ASSUME NEW m \in Nat, NEW n \in Nat, m <= n
    PROVE  2 ^ m \in Nat /\ 2 ^ n \in Nat /\ 2 ^ m <= 2 ^ n
  <1> DEFINE A == SUBSET (1 .. m)
             B == SUBSET (1 .. n)
  <1>1. IsFiniteSet(A) /\ Cardinality(A) = 2 ^ m /\ IsFiniteSet(B) /\ Cardinality(B) = 2 ^ n
    BY CountsSets
  <1>2. A \subseteq B
    <2>1. 1 .. m \subseteq 1 .. n
      OBVIOUS
    <2> QED
      BY <2>1
  <1>3. Cardinality(A) \in Nat /\ Cardinality(B) \in Nat /\ Cardinality(A) <= Cardinality(B)
    BY <1>1, <1>2, FS_Subset, FS_CardinalityType
  <1> QED
    BY <1>1, <1>3

LEMMA LimitsGrow ==
    ASSUME NEW m \in Nat \ {0}, NEW n \in Nat \ {0}, m <= n
    PROVE  /\ MaxSigned(m) \in Int /\ MaxSigned(n) \in Int /\ MaxSigned(m) <= MaxSigned(n)
           /\ MaxUnsigned(m) \in Int /\ MaxUnsigned(n) \in Int /\ MaxUnsigned(m) <= MaxUnsigned(n)
           /\ MaxSigned(n) <= MaxUnsigned(n)
  <1> DEFINE i == m - 1
             j == n - 1
  <1>1. i \in Nat /\ j \in Nat /\ i <= j /\ j <= n
    OBVIOUS
  <1> HIDE DEF i, j
  <1>2. /\ 2 ^ i \in Nat /\ 2 ^ j \in Nat /\ 2 ^ i <= 2 ^ j /\ 2 ^ j <= 2 ^ n
        /\ 2 ^ m \in Nat /\ 2 ^ n \in Nat /\ 2 ^ m <= 2 ^ n
    BY <1>1, PowersOrdered
  <1>3. MaxSigned(m) = 2 ^ i - 1 /\ MaxSigned(n) = 2 ^ j - 1 /\ MaxUnsigned(m) = 2 ^ m - 1 /\ MaxUnsigned(n) = 2 ^ n - 1
    BY DEF MaxSigned, MaxUnsigned, i, j
  <1> QED
    BY <1>2, <1>3

\* A number that fits an unsigned integer keeps its value as a signed one,
\* unless it is only unsigned a number of that width.
LEMMA KeepsValue ==
    ASSUME NEW bits \in Nat \ {0}, NEW n \in Nat, n <= MaxUnsigned(bits), n <= MaxSigned(bits)
    PROVE  AsSigned(n, bits) = n
  <1> DEFINE q == 2 ^ bits
  <1>1. q \in Nat /\ n < q
    <2>1. q \in Nat
      BY PowersOrdered
    <2> HIDE DEF q
    <2>2. n <= q - 1
      BY DEF MaxUnsigned, q
    <2> QED
      BY <2>1, <2>2
  <1>2. n % q = n
    <2> HIDE DEF q
    <2> QED
      BY <1>1
  <1> HIDE DEF q
  <1>3. MaxSigned(bits) \in Int
    BY LimitsGrow
  <1> QED
    BY <1>2, <1>3 DEF AsSigned, q

\* The smallest type is found for an integer, and its value is kept but for
\* the departure.
LEMMA IntegerKept ==
    ASSUME NEW n \in Nat, NEW short \in Int, NEW int \in Int, short <= int,
           short <= MaxUnsigned(ShortBits), int <= MaxUnsigned(IntBits), n <= MaxUnsigned(LongBits),
           NEW m, m = [kind |-> IntegerKind(n <= short, n <= int), value |-> n]
    PROVE  Integer(n, short, int) = m \/ OnlyUnsigned(m)
  <1> DEFINE width == [short |-> ShortBits, int |-> IntBits, long |-> LongBits]
  <1>1. ASSUME NEW bits \in {ShortBits, IntBits, LongBits}, n <= MaxUnsigned(bits),
               NEW kind \in {"short", "int", "long"}, m = [kind |-> kind, value |-> n], width[kind] = bits,
               Integer(n, short, int) = [kind |-> kind, value |-> AsSigned(n, bits)]
        PROVE  Integer(n, short, int) = m \/ OnlyUnsigned(m)
    <2>1. bits \in Nat \ {0}
      BY WidthsAssumption
    <2>2. MaxSigned(bits) \in Int
      BY <2>1, LimitsGrow
    <2>3. CASE n <= MaxSigned(bits)
      BY <1>1, <2>1, <2>3, KeepsValue
    <2>4. CASE n > MaxSigned(bits)
      <3>1. m.kind = kind /\ m.value = n
        BY <1>1
      <3> QED
        BY <1>1, <2>4, <3>1 DEF OnlyUnsigned
    <2> QED
      BY <2>2, <2>3, <2>4
  <1>2. {ShortBits, IntBits, LongBits} \subseteq Nat \ {0}
    BY WidthsAssumption
  <1>3. MaxUnsigned(ShortBits) \in Int /\ MaxUnsigned(IntBits) \in Int /\ MaxUnsigned(LongBits) \in Int
    BY <1>2, LimitsGrow
  <1>4. width["short"] = ShortBits /\ width["int"] = IntBits /\ width["long"] = LongBits
    OBVIOUS
  <1> HIDE DEF width
  <1>5. CASE n > int
    <2>1. m = [kind |-> "long", value |-> n]
      BY <1>5 DEF IntegerKind
    <2>2. Integer(n, short, int) = [kind |-> "long", value |-> AsSigned(n, LongBits)]
      BY <1>5 DEF Integer
    <2> QED
      BY <1>1, <1>4, <2>1, <2>2
  <1>6. CASE n <= int /\ n > short
    <2>1. m = [kind |-> "int", value |-> n]
      BY <1>6 DEF IntegerKind
    <2>2. Integer(n, short, int) = [kind |-> "int", value |-> AsSigned(n, IntBits)]
      BY <1>6 DEF Integer
    <2>3. n <= MaxUnsigned(IntBits)
      BY <1>3, <1>6
    <2> QED
      BY <1>1, <1>4, <2>1, <2>2, <2>3
  <1>7. CASE n <= int /\ n <= short
    <2>1. m = [kind |-> "short", value |-> n]
      BY <1>7 DEF IntegerKind
    <2>2. Integer(n, short, int) = [kind |-> "short", value |-> AsSigned(n, ShortBits)]
      BY <1>7 DEF Integer
    <2>3. n <= MaxUnsigned(ShortBits)
      BY <1>3, <1>7
    <2> QED
      BY <1>1, <1>4, <2>1, <2>2, <2>3
  <1> QED
    BY <1>5, <1>6, <1>7

-----------------------------------------------------------------------------
(* Tokens that mean what their text means                                  *)

LEMMA TokensStayMeant ==
    ASSUME TokensAreMeant, file' = file, tokens' = tokens
    PROVE  TokensAreMeant'
  <1>1. ASSUME NEW i \in DOMAIN tokens PROVE IsMeant(tokens[i])'
    <2>1. IsMeant(tokens[i])
      BY <1>1 DEF TokensAreMeant
    <2> QED
      BY <2>1 DEF IsMeant, PointAtEnd, Text
  <1> QED
    BY <1>1 DEF TokensAreMeant

\* A token is added that means what its text means.
LEMMA MeantAdded ==
    ASSUME TokensAreMeant, Shape, NEW t, IsMeant(t), tokens' = Append(tokens, t), file' = file
    PROVE  TokensAreMeant'
  <1>1. /\ DOMAIN tokens' = 1 .. Len(tokens) + 1 /\ tokens'[Len(tokens) + 1] = t
        /\ DOMAIN tokens = 1 .. Len(tokens)
        /\ \A i \in 1 .. Len(tokens) : tokens'[i] = tokens[i]
        /\ Len(tokens) \in Nat
    BY Appended DEF Shape
  <1>2. ASSUME NEW i \in DOMAIN tokens' PROVE IsMeant(tokens[i])'
    <2>1. PICK u : u = tokens'[i]
      OBVIOUS
    <2>2. IsMeant(u)
      <3>1. CASE i = Len(tokens) + 1
        BY <1>1, <2>1, <3>1
      <3>2. CASE i \in 1 .. Len(tokens)
        <4>1. u = tokens[i]
          BY <1>1, <2>1, <3>2
        <4>2. IsMeant(tokens[i])
          BY <1>1, <3>2 DEF TokensAreMeant
        <4> QED
          BY <4>1, <4>2
      <3> QED
        BY <1>1, <1>2, <3>1, <3>2
    <2>3. IsMeant(u)'
      BY <2>2 DEF IsMeant, PointAtEnd, Text
    <2> QED
      BY <2>1, <2>3, Zenon DEF IsMeant, PointAtEnd, Text
  <1> QED
    BY <1>2 DEF TokensAreMeant

\* The meaning of an accepted text that ends at e is m, but for the departures.
Agrees(ok, m, text, e) ==
    ok /\ IsLexeme(text) => \/ m = Meaning(text)
                            \/ EscapesInterfere(text) \/ OnlyUnsigned(Meaning(text)) \/ PointAtEnd(text, e)

\* The token that is emitted for the text from b to e
LEMMA EmittedIsMeant ==
    ASSUME IInv, TokensAreMeant, file' = file, NEW start, NEW s, NEW ok, NEW kind, NEW value, NEW m,
           m = [kind |-> kind, value |-> value], Emit(start, s, ok, m),
           NEW b, NEW e, start.at = b, LastRead(s) = e, NEW text, text = SubSeq(file, b, e),
           Agrees(ok, m, text, e)
    PROVE  TokensAreMeant'
  <1> DEFINE t == Token(start, s, ok, m)
  <1>1. t.kind = m.kind /\ t.value = m.value /\ t.from = b /\ t.to = e /\ t.ok = ok
    BY DEF Token
  <1>2. tokens' = Append(tokens, t)
    BY DEF Emit
  <1> HIDE DEF t
  <1>3. [kind |-> t.kind, value |-> t.value] = m
    BY <1>1
  <1>4. Text(t) = text
    BY <1>1 DEF Text
  <1>5. IsMeant(t)
    BY <1>1, <1>3, <1>4 DEF IsMeant, Agrees
  <1> QED
    BY <1>2, <1>5, MeantAdded DEF IInv

-----------------------------------------------------------------------------
(* Symbols                                                                 *)

LEMMA SymbolIsMeant ==
    ASSUME IInv, TokensAreMeant, scanSymbol
    PROVE  TokensAreMeant'
  <1> DEFINE b == in.at
             r1 == Read(in)
             r2 == Read(r1)
             r3 == Read(r2)
  <1>1. mode = "scan" /\ ~in.eof /\ file' = file /\ in.ch \in Singles
    BY DEF scanSymbol
  <1>2. /\ file \in Seq(STRING) /\ Len(file) \in Nat /\ Positioned(in) /\ in.ch = file[b] /\ b \in 1 .. Len(file)
    BY <1>1, Scanning
  <1>3. /\ Positioned(r1) /\ LastRead(r1) = b
        /\ b < Len(file) => r1.at = b + 1 /\ ~r1.eof /\ r1.ch = file[b + 1]
        /\ b = Len(file) => r1.ch = in.ch /\ r1.eof
    BY <1>1, <1>2, ReadPlaces
  <1>4. /\ Positioned(r2)
        /\ ~r1.eof => LastRead(r2) = r1.at
        /\ r1.at < Len(file) => r2.at = r1.at + 1 /\ r2.ch = file[r1.at + 1] /\ ~r2.eof
        /\ r1.at = Len(file) => r2.eof
        /\ r1.at \in 1 .. Len(file)
    BY <1>2, <1>3, ReadPlaces
  <1>5. ~r2.eof => LastRead(r3) = r2.at
    BY <1>2, <1>4, ReadPlaces
  <1> HIDE DEF r1, r2, r3, b
  <1>6. ASSUME NEW e \in b .. Len(file)
        PROVE  LET s == SubSeq(file, b, e)
               IN  /\ s \in Seq(STRING) /\ Len(s) = e - b + 1
                   /\ e = b => s = <<file[b]>>
                   /\ e = b + 1 => s = <<file[b], file[b + 1]>>
                   /\ e = b + 2 => s = <<file[b], file[b + 1], file[b + 2]>>
    <2> DEFINE s == SubSeq(file, b, e)
    <2>1. e \in b - 1 .. Len(file)
      BY <1>2
    <2>2. s \in Seq(STRING) /\ Len(s) = e - b + 1 /\ \A k \in 1 .. Len(s) : s[k] = file[b + k - 1]
      BY <1>2, <2>1, PartOfText
    <2> HIDE DEF s
    <2>3. s[1] = file[b] /\ (Len(s) > 1 => s[2] = file[b + 1]) /\ (Len(s) > 2 => s[3] = file[b + 2])
      <3>1. b + 1 - 1 = b /\ b + 2 - 1 = b + 1 /\ b + 3 - 1 = b + 2 /\ Len(s) \in Nat \ {0}
        BY <1>2, <2>2
      <3> QED
        BY <2>2, <3>1
    <2>4. e = b => s = <<file[b]>>
      <3>1. SUFFICES ASSUME Len(s) = 1 PROVE s = <<s[1]>>
        <4>1. e = b => Len(s) = 1
          BY <1>2, <2>2
        <4> QED
          BY <2>3, <3>1, <4>1
      <3>2. s[1] \in STRING
        <4>1. 1 \in 1 .. Len(s)
          BY <3>1
        <4> QED
          BY <2>2, <4>1, ElementOfSeq
      <3> DEFINE u == <<s[1]>>
      <3>3. u \in Seq(STRING) /\ Len(u) = 1 /\ u[1] = s[1]
        BY <3>2
      <3>4. \A i \in 1 .. Len(s) : s[i] = u[i]
        BY <3>1, <3>3
      <3> HIDE DEF u
      <3> QED
        BY <2>2, <3>1, <3>3, <3>4, SeqEqual DEF u
    <2>5. e = b + 1 => s = <<file[b], file[b + 1]>>
      <3>1. e = b + 1 => Len(s) = 2
        BY <1>2, <2>2
      <3>2. e = b + 1 => s = <<s[1], s[2]>>
        BY <2>2, <3>1, ShortTexts
      <3>3. Len(s) = 2 => s[2] = file[b + 1]
        BY <2>3
      <3> QED
        BY <2>3, <3>1, <3>2, <3>3
    <2>6. e = b + 2 => s = <<file[b], file[b + 1], file[b + 2]>>
      <3>1. e = b + 2 => Len(s) = 3
        BY <1>2, <2>2
      <3>2. e = b + 2 => s = <<s[1], s[2], s[3]>>
        BY <2>2, <3>1, ShortTexts
      <3>3. Len(s) = 3 => s[2] = file[b + 1] /\ s[3] = file[b + 2]
        BY <2>3
      <3> QED
        BY <2>3, <3>1, <3>2, <3>3
    <2> QED
      BY <2>2, <2>4, <2>5, <2>6 DEF s
  <1>7. ASSUME NEW chars, NEW s, Symbol(chars, s), LastRead(s) \in b .. Len(file), chars = SubSeq(file, b, LastRead(s)),
               LastRead(s) = b \/ chars \in DOMAIN Compound
        PROVE  TokensAreMeant'
    <2> DEFINE kind == IF Len(chars) = 1 THEN chars[1] ELSE Compound[chars]
               m == [kind |-> kind, value |-> chars]
    <2>1. Emit(in, s, TRUE, m)
      BY <1>7 DEF Symbol
    <2>2. chars \in Seq(STRING) /\ Len(chars) > 0 /\ (LastRead(s) = b => Len(chars) = 1 /\ chars[1] \in Singles)
      <3>1. chars \in Seq(STRING) /\ Len(chars) = LastRead(s) - b + 1 /\ (LastRead(s) = b => chars = <<file[b]>>)
        BY <1>6, <1>7
      <3> QED
        BY <1>1, <1>2, <1>7, <3>1
    <2>3. Meaning(chars) = m
      BY <1>7, <2>2, SymbolMeans
    <2> HIDE DEF kind
    <2> QED
      BY <1>1, <1>7, <2>1, <2>3, EmittedIsMeant DEF Agrees, b
  <1>8. ASSUME Symbol(<<in.ch>>, r1) PROVE TokensAreMeant'
    <2>1. LastRead(r1) \in b .. Len(file) /\ <<in.ch>> = SubSeq(file, b, LastRead(r1))
      BY <1>2, <1>3, <1>6
    <2> QED
      BY <1>3, <1>7, <1>8, <2>1
  <1>9. CASE in.ch \in {"<", ">", ":"} /\ r1.ch = "=" /\ Symbol(<<in.ch, "=">>, r2)
    <2>1. b < Len(file) /\ file[b + 1] = "=" /\ ~r1.eof /\ r1.at = b + 1
      BY <1>2, <1>3, <1>9
    <2>2. LastRead(r2) = b + 1 /\ b + 1 \in b .. Len(file)
      BY <1>2, <1>4, <2>1
    <2>3. <<in.ch, "=">> = SubSeq(file, b, LastRead(r2))
      BY <1>2, <1>6, <2>1, <2>2
    <2>4. <<in.ch, "=">> \in DOMAIN Compound
      BY <1>9 DEF Compound
    <2> QED
      BY <1>7, <1>9, <2>2, <2>3, <2>4
  <1>10. CASE in.ch = "." /\ ~r1.eof /\ r1.ch = "."
    <2>1. b < Len(file) /\ file[b + 1] = "." /\ r1.at = b + 1
      BY <1>2, <1>3, <1>10
    <2>2. LastRead(r2) = b + 1 /\ b + 1 \in b .. Len(file)
      BY <1>2, <1>4, <1>10, <2>1
    <2>3. CASE Symbol(<<".", ".">>, r2)
      <3>1. <<".", ".">> = SubSeq(file, b, LastRead(r2))
        BY <1>2, <1>6, <1>10, <2>1, <2>2
      <3>2. <<".", ".">> \in DOMAIN Compound
        BY DEF Compound
      <3> QED
        BY <1>7, <2>2, <2>3, <3>1, <3>2
    <2>4. CASE ~r2.eof /\ r2.ch = "." /\ Symbol(<<".", ".", ".">>, r3)
      <3>1. b + 1 < Len(file)
        BY <1>2, <1>4, <2>1, <2>4
      <3>2. r2.at = b + 2 /\ file[b + 2] = "." /\ b + 2 \in b .. Len(file) /\ LastRead(r3) = b + 2
        BY <1>2, <1>4, <1>5, <2>1, <2>4, <3>1
      <3>3. <<".", ".", ".">> = SubSeq(file, b, LastRead(r3))
        BY <1>2, <1>6, <1>10, <2>1, <3>2
      <3>4. <<".", ".", ".">> \in DOMAIN Compound
        BY DEF Compound
      <3> QED
        BY <1>7, <2>4, <3>2, <3>3, <3>4
    <2>5. CASE Symbol(<<".">>, r1)
      BY <1>8, <1>10, <2>5
    <2> QED
      BY <1>8, <1>10, <2>3, <2>4, <2>5 DEF scanSymbol, r1, r2, r3
  <1> QED
    BY <1>8, <1>9, <1>10 DEF scanSymbol, r1, r2, r3

-----------------------------------------------------------------------------
(* Identifiers                                                             *)

\* The characters that scanIdent has collected
NameKept == lexeme = SubSeq(file, begin.at, LastRead(in))

LEMMA BeginNameKept ==
    ASSUME IInv, BeginIdent
    PROVE  NameKept'
  <1>1. /\ mode = "scan" /\ ~in.eof /\ begin' = in /\ in' = Read(in) /\ file' = file /\ lexeme' = <<in.ch>>
    BY DEF BeginIdent, Loop
  <1>2. file \in Seq(STRING) /\ Positioned(in)
    BY <1>1, Scanning
  <1> DEFINE b == in.at
  <1>3. b \in 1 .. Len(file) /\ in.ch = file[b] /\ LastRead(Read(in)) = b
    BY <1>1, <1>2, ReadPlaces
  <1> HIDE DEF b
  <1>4. SubSeq(file, b, b) = <<file[b]>>
    <2>1. b \in b .. Len(file) /\ b - 1 < b
      BY <1>3
    <2>2. SubSeq(file, b, b) = SubSeq(file, b, b - 1) \o <<file[b]>>
      BY <1>2, <1>3, <2>1, SubSeqRecursiveSecond
    <2>3. SubSeq(file, b, b - 1) = <<>>
      BY <1>3, <2>1, SubSeqEmpty
    <2>4. <<file[b]>> \in Seq(STRING)
      BY <1>2, <1>3, ElementOfSeq
    <2> QED
      BY <2>2, <2>3, <2>4, EmptyConcat
  <1>5. LastRead(in)' = b /\ begin'.at = b
    BY <1>1, <1>3 DEF LastRead, b
  <1> QED
    BY <1>1, <1>3, <1>4, <1>5 DEF NameKept

LEMMA NameStepKept ==
    ASSUME IInv, TokensAreMeant, InName, NameKept, scanIdent
    PROVE  TokensAreMeant' /\ (mode' = "ident" => NameKept') /\ mode' \in {"ident", "scan"}
  <1> DEFINE b == begin.at
             e == LastRead(in)
  <1>1. mode = "ident" /\ file' = file /\ begin' = begin
    BY DEF scanIdent
  <1>2. file \in Seq(STRING) /\ Positioned(in) /\ Positioned(begin)
    BY <1>1, Collecting
  <1>3. /\ in.at \in 1 .. Len(file) /\ in.ch = file[in.at] /\ Len(file) \in Nat
        /\ e \in 0 .. Len(file) /\ (~in.eof => e = in.at - 1 /\ LastRead(Read(in)) = in.at)
        /\ b \in 1 .. Len(file)
    BY <1>2, ReadPlaces
  <1>4. b <= e /\ file[b] \in Initials /\ \A k \in b .. e : file[k] \in NameCharacters
    BY DEF InName
  <1>5. CASE /\ ~in.eof /\ lexeme' = Append(lexeme, in.ch) /\ Loop("ident", Read(in)) /\ UNCHANGED tokens
    <2>1. mode' = "ident" /\ in' = Read(in) /\ tokens' = tokens
      BY <1>5 DEF Loop
    <2>2. LastRead(in)' = in.at /\ in.at = e + 1
      BY <1>3, <1>5, <2>1 DEF LastRead
    <2>3. lexeme = SubSeq(file, b, e)
      BY DEF NameKept
    <2> HIDE DEF b, e
    <2>4. e \in b - 1 .. Len(file) - 1
      BY <1>3, <1>4, <2>2
    <2>5. SubSeq(file, b, e) \o <<file[e + 1]>> = SubSeq(file, b, e + 1)
      BY <1>2, <1>3, <2>4, Collect
    <2>6. lexeme \in Seq(STRING) /\ in.ch \in STRING
      <3>1. e \in b - 1 .. Len(file)
        BY <2>4
      <3>2. lexeme \in Seq(STRING)
        BY <1>2, <1>3, <2>3, <3>1, PartOfText
      <3> QED
        BY <1>2, <1>3, <3>2, ElementOfSeq
    <2>7. lexeme' = SubSeq(file, b, e + 1)
      BY <1>3, <1>5, <2>2, <2>3, <2>5, <2>6, AppendIsConcat
    <2>8. NameKept'
      BY <1>1, <2>2, <2>7 DEF NameKept, b
    <2> QED
      BY <1>1, <2>1, <2>8, TokensStayMeant
  <1>6. CASE Emit(begin, in, TRUE, [kind |-> IF lexeme \in Keywords THEN "keyword" ELSE "ident", value |-> lexeme])
    <2> DEFINE kind == IF lexeme \in Keywords THEN "keyword" ELSE "ident"
               m == [kind |-> kind, value |-> lexeme]
    <2>1. lexeme = SubSeq(file, b, e)
      BY DEF NameKept
    <2>2. mode' = "scan" /\ Emit(begin, in, TRUE, m)
      BY <1>6 DEF Emit
    <2>3. ASSUME IsLexeme(lexeme) PROVE m = Meaning(lexeme)
      <3> HIDE DEF b, e, m
      <3>1. e \in b - 1 .. Len(file) /\ b \in b .. e /\ b - b + 1 = 1
        BY <1>3, <1>4
      <3>2. lexeme \in Seq(STRING) /\ Len(lexeme) = e - b + 1 /\ lexeme[b - b + 1] = file[b]
        BY <1>2, <1>3, <2>1, <3>1, PartOfText
      <3>3. lexeme \in Seq(STRING) /\ Len(lexeme) > 0 /\ lexeme[1] \in Initials
        <4>1. e - b + 1 > 0
          BY <1>3, <1>4
        <4>2. lexeme[1] = file[b]
          BY <3>1, <3>2
        <4> QED
          BY <1>4, <3>2, <4>1, <4>2
      <3>4. IsIdent(lexeme)
        BY <2>3, <3>3, FirstCharacters, KindsDiffer DEF IsLexeme
      <3> QED
        BY <3>3, <3>4, NameMeans DEF m
    <2> HIDE DEF kind
    <2> QED
      BY <1>1, <2>1, <2>2, <2>3, EmittedIsMeant DEF Agrees
  <1> QED
    BY <1>5, <1>6 DEF scanIdent

-----------------------------------------------------------------------------
(* Strings                                                                 *)

\* The characters that scanString has collected; a quote at the end of the
\* file that it has read over does not close the string.
StringKept == LET b == begin.at
              IN  /\ ~in.eof => lexeme = SubSeq(file, b + 1, in.at - 1)
                  /\ in.eof /\ file[Len(file)] = Quote => b = Len(file) \/ Esc(b, Len(file))

LEMMA BeginStringKept ==
    ASSUME IInv, BeginString
    PROVE  StringKept'
  <1> DEFINE b == in.at
             r == Read(in)
  <1>1. mode = "scan" /\ ~in.eof /\ begin' = in /\ in' = r /\ file' = file /\ lexeme' = <<>>
    BY DEF BeginString, Loop
  <1>2. file \in Seq(STRING) /\ Positioned(in)
    BY <1>1, Scanning
  <1>3. /\ b \in 1 .. Len(file) /\ Len(file) \in Nat
        /\ b < Len(file) => r.at = b + 1 /\ ~r.eof
    BY <1>1, <1>2, ReadPlaces
  <1> HIDE DEF b, r
  <1>4. ~r.eof => b < Len(file) /\ r.at = b + 1
    <2>1. b = Len(file) => r.eof
      BY <1>2, ReadPlaces DEF b, r
    <2> QED
      BY <1>3, <2>1
  <1>5. r.eof => b = Len(file)
    BY <1>3
  <1>6. SubSeq(file, b + 1, b + 1 - 1) = <<>>
    <2>1. b + 1 \in Int /\ b + 1 - 1 \in Int /\ b + 1 - 1 < b + 1
      BY <1>3
    <2> QED
      BY <2>1, SubSeqEmpty
  <1>7. begin'.at = b /\ in'.at = r.at /\ in'.eof = r.eof
    BY <1>1 DEF b
  <1>8. ASSUME ~in'.eof PROVE lexeme' = SubSeq(file', begin'.at + 1, in'.at - 1)
    <2> DEFINE x == in'.at
               y == begin'.at
    <2>1. x = b + 1 /\ y = b
      BY <1>4, <1>7, <1>8
    <2> HIDE DEF x, y
    <2>2. lexeme' = SubSeq(file, y + 1, x - 1)
      BY <1>1, <1>6, <2>1
    <2>3. lexeme' = SubSeq(file', y + 1, x - 1)
      BY <1>1, <2>2
    <2> QED
      BY <2>3 DEF x, y
  <1>9. in'.eof => begin'.at = Len(file')
    BY <1>1, <1>5, <1>7
  <1> QED
    BY <1>8, <1>9 DEF StringKept

LEMMA StringCharacterKept ==
    ASSUME IInv, InString, StringKept, StringCharacter
    PROVE  StringKept'
  <1> DEFINE b == begin.at
             n == in.at
             r == Read(in)
             text(k) == SubSeq(file, b + 1, k)
  <1>1. mode = "string" /\ in.ch # Quote /\ file' = file /\ begin' = begin
        /\ in' = (IF in.ch = Backslash THEN Read(r) ELSE r)
        /\ lexeme' = IF in.eof THEN lexeme
                     ELSE Append(lexeme, in.ch) \o (IF in.ch = Backslash THEN <<r.ch>> ELSE <<>>)
    BY DEF StringCharacter
  <1>2. file \in Seq(STRING) /\ Positioned(in) /\ Positioned(begin)
    BY <1>1, Collecting
  <1>3. /\ n \in 1 .. Len(file) /\ in.ch = file[n] /\ Len(file) \in Nat /\ b \in 1 .. Len(file)
        /\ Positioned(r) /\ (n = Len(file) => r.eof /\ r.ch = in.ch) 
        /\ n < Len(file) => r.at = n + 1 /\ ~in.eof /\ ~r.eof /\ r.ch = file[n + 1]
        /\ in.eof => n = Len(file)
    BY <1>2, ReadPlaces
  <1>4. /\ r.at = Len(file) => Read(r).eof
        /\ r.at < Len(file) => Read(r).at = r.at + 1 /\ ~r.eof /\ ~Read(r).eof
        /\ r.at \in 1 .. Len(file) /\ (r.eof => r.at = Len(file))
    BY <1>2, <1>3, ReadPlaces
  <1>5. ~in.eof => b < n /\ ~Esc(b, n)
    BY DEF InString
  <1>6. ~in.eof => lexeme = text(n - 1)
    BY DEF StringKept
  <1>7. in.eof /\ file[Len(file)] = Quote => b = Len(file) \/ Esc(b, Len(file))
    BY DEF StringKept
  <1> HIDE DEF b, n, r
  <1>8. SUFFICES /\ ~in'.eof => lexeme' = text(in'.at - 1)
                 /\ in'.eof /\ file[Len(file)] = Quote => b = Len(file) \/ Esc(b, Len(file))
    <2>1. \A k : Esc(b, k)' <=> Esc(b, k)
      BY <1>1 DEF Esc, b
    <2> QED
      BY <1>1, <2>1 DEF StringKept, b, Esc
  <1>9. Quote # Backslash
    BY Zenon DEF Quote, Backslash
  <1>10. CASE in.eof
    <2>1. n = Len(file) /\ r.eof /\ file[Len(file)] # Quote
      BY <1>1, <1>3, <1>10
    <2>2. Read(r).eof
      BY <1>4, <2>1
    <2>3. in'.eof
      BY <1>1, <2>1, <2>2
    <2> QED
      BY <2>1, <2>3
  <1>11. ASSUME ~in.eof
         PROVE  text(n) \in Seq(STRING) /\ Append(lexeme, in.ch) = text(n) /\ (n < Len(file) => text(n) \o <<file[n + 1]>> = text(n + 1))
    <2> DEFINE c == b + 1
    <2>1. c \in 1 .. Len(file) /\ n - 1 \in c - 1 .. Len(file) - 1 /\ n - 1 \in c - 1 .. Len(file)
          /\ n - 1 + 1 = n /\ n \in c - 1 .. Len(file) /\ (n < Len(file) => n \in c - 1 .. Len(file) - 1)
      BY <1>3, <1>5, <1>11
    <2> HIDE DEF c
    <2>2. SubSeq(file, c, n - 1) \o <<file[n - 1 + 1]>> = SubSeq(file, c, n - 1 + 1)
      BY <1>2, <2>1, Collect
    <2>3. n < Len(file) => SubSeq(file, c, n) \o <<file[n + 1]>> = SubSeq(file, c, n + 1)
      BY <1>2, <2>1, Collect
    <2>4. SubSeq(file, c, n - 1) \in Seq(STRING) /\ SubSeq(file, c, n) \in Seq(STRING)
      BY <1>2, <2>1, PartOfText
    <2>5. file[n] \in STRING
      BY <1>2, <1>3, ElementOfSeq
    <2>6. Append(SubSeq(file, c, n - 1), file[n]) = SubSeq(file, c, n)
      BY <2>1, <2>2, <2>4, <2>5, AppendIsConcat
    <2> QED
      BY <1>3, <1>6, <1>11, <2>3, <2>4, <2>6 DEF c
  <1>12. CASE ~in.eof /\ in.ch # Backslash
    <2>1. in' = r /\ lexeme' = text(n)
      <3>1. text(n) \o <<>> = text(n)
        <4>1. text(n) \in Seq(STRING)
          BY <1>11, <1>12
        <4> HIDE DEF text
        <4> QED
          BY <4>1
      <3> QED
        BY <1>1, <1>11, <1>12, <3>1
    <2>2. CASE n < Len(file)
      <3>1. ~in'.eof /\ in'.at - 1 = n
        BY <1>3, <2>1, <2>2
      <3> QED
        BY <2>1, <3>1
    <2>3. CASE n = Len(file)
      <3>1. in'.eof /\ file[Len(file)] # Quote
        BY <1>1, <1>3, <2>1, <2>3
      <3> QED
        BY <3>1
    <2> QED
      BY <1>3, <2>2, <2>3
  <1>13. CASE ~in.eof /\ in.ch = Backslash
    <2>1. in' = Read(r) /\ lexeme' = text(n) \o <<r.ch>>
      BY <1>1, <1>11, <1>13
    <2>2. CASE n + 1 < Len(file)
      <3>1. n < Len(file) /\ r.at = n + 1 /\ r.ch = file[n + 1]
        BY <1>3, <2>2
      <3>2. ~in'.eof /\ in'.at = n + 2
        BY <1>3, <1>4, <2>1, <2>2, <3>1
      <3>3. lexeme' = text(n + 1)
        BY <1>11, <1>13, <2>1, <3>1
      <3>4. in'.at - 1 = n + 1
        BY <1>3, <3>2
      <3> QED
        BY <3>2, <3>3, <3>4
    <2>3. CASE n + 1 = Len(file)
      <3>1. r.at = Len(file)
        BY <1>3, <2>3
      <3>2. in'.eof
        BY <1>4, <2>1, <3>1
      <3>3. Esc(b, n + 1)
        <4> DEFINE m == n + 1
        <4>1. m \in b + 1 .. Len(file) /\ m - 1 = n
          BY <1>3, <1>5, <1>13, <2>3
        <4> HIDE DEF m
        <4>2. Esc(b, m) <=> file[m - 1] = Backslash /\ ~Esc(b, m - 1)
          BY <1>2, <1>3, <4>1, EscNext
        <4>3. Esc(b, m)
          BY <1>3, <1>5, <1>13, <4>1, <4>2
        <4> QED
          BY <4>3 DEF m
      <3>4. Esc(b, Len(file))
        BY <2>3, <3>3
      <3> QED
        BY <3>2, <3>4
    <2>4. CASE n = Len(file)
      <3>1. file[Len(file)] # Quote /\ r.eof
        BY <1>1, <1>3, <2>4
      <3>2. in'.eof
        BY <1>4, <2>1, <3>1
      <3> QED
        BY <3>1, <3>2
    <2> QED
      BY <1>3, <2>2, <2>3, <2>4
  <1> QED
    BY <1>10, <1>12, <1>13

\* The characters of a string are those between its quotes.
LEMMA BetweenQuotes ==
    ASSUME NEW f \in Seq(STRING), NEW b \in 1 .. Len(f), NEW e \in b + 1 .. Len(f), NEW s, s = SubSeq(f, b, e)
    PROVE  SubSeq(s, 2, Len(s) - 1) = SubSeq(f, b + 1, e - 1)
  <1>1. e \in b - 1 .. Len(f) /\ e \in 1 .. Len(f)
    OBVIOUS
  <1>2. Len(s) = e - b + 1
    BY <1>1, PartOfText
  <1>3. CASE e = b + 1
    <2>1. Len(s) - 1 < 2 /\ Len(s) - 1 \in Int /\ e - 1 < b + 1 /\ e - 1 \in Int /\ b + 1 \in Int
      BY <1>2, <1>3
    <2> QED
      BY <2>1, SubSeqEmpty
  <1>4. CASE e # b + 1
    <2>1. /\ 2 \in 1 .. e - b + 1 /\ Len(s) - 1 \in 1 .. e - b + 1
          /\ b + 2 - 1 = b + 1 /\ b + (Len(s) - 1) - 1 = e - 1
      BY <1>2, <1>4
    <2>2. SubSeq(SubSeq(f, b, e), 2, Len(s) - 1) = SubSeq(f, b + 2 - 1, b + (Len(s) - 1) - 1)
      BY <1>1, <2>1, SubSeqOfSubSeq
    <2> QED
      BY <2>1, <2>2
  <1> QED
    BY <1>3, <1>4

LEMMA FinishStringIsMeant ==
    ASSUME IInv, TokensAreMeant, InString, StringKept, FinishString
    PROVE  TokensAreMeant' /\ mode' = "scan"
  <1> DEFINE b == begin.at
             r == Read(in)
             contents == unescape(lexeme)
             kind == IF Len(contents) < 2 THEN "char" ELSE "string"
             m == [kind |-> kind, value |-> contents]
  <1>1. mode = "string" /\ in.ch = Quote /\ file' = file /\ Emit(begin, r, TRUE, m)
    BY DEF FinishString
  <1>2. file \in Seq(STRING) /\ Positioned(in) /\ Positioned(begin)
    BY <1>1, Collecting
  <1>3. /\ in.at \in 1 .. Len(file) /\ in.ch = file[in.at] /\ Len(file) \in Nat
        /\ ~in.eof => LastRead(r) = in.at
        /\ in.eof => in.at = Len(file) 
        /\ b \in 1 .. Len(file)
    BY <1>2, ReadPlaces
  <1>4. file[b] = Quote /\ (~in.eof => b < in.at)
    BY DEF InString
  <1>5. /\ ~in.eof => lexeme = SubSeq(file, b + 1, in.at - 1)
        /\ in.eof /\ file[Len(file)] = Quote => b = Len(file) \/ Esc(b, Len(file))
    BY DEF StringKept
  <1>6. mode' = "scan"
    BY <1>1 DEF Emit
  <1>7. CASE ~in.eof
    <2> DEFINE e == in.at
               s == SubSeq(file, b, e)
    <2> HIDE DEF b, r, e
    <2>1. e \in b + 1 .. Len(file) /\ e \in b - 1 .. Len(file) /\ b - b + 1 = 1 /\ b \in b .. e
      BY <1>3, <1>4, <1>7 DEF e
    <2>2. s \in Seq(STRING) /\ Len(s) = e - b + 1 /\ s[1] = Quote
      BY <1>2, <1>3, <1>4, <2>1, PartOfText
    <2>3. Len(s) > 0
      BY <1>3, <2>1, <2>2
    <2>4. SubSeq(s, 2, Len(s) - 1) = lexeme
      BY <1>2, <1>3, <1>5, <1>7, <2>1, BetweenQuotes DEF e
    <2> HIDE DEF s
    <2>5. ASSUME IsLexeme(s), ~EscapesInterfere(s) PROVE m = Meaning(s)
      <3>1. IsString(s)
        BY <2>2, <2>3, <2>5, FirstCharacters, KindsDiffer DEF IsLexeme
      <3>2. contents = Contents(s)
        BY <2>2, <2>4, <2>5, <3>1, ContentsRead
      <3> HIDE DEF contents
      <3> QED
        BY <2>2, <2>3, <3>1, <3>2, StringMeans
    <2> HIDE DEF contents, kind
    <2>6. LastRead(r) = e
      BY <1>3, <1>7 DEF e
    <2> QED
      BY <1>1, <1>6, <2>5, <2>6, EmittedIsMeant DEF Agrees, s, b
  <1>8. CASE in.eof
    <2> DEFINE e == Len(file)
               s == SubSeq(file, b, e)
    <2>1. LastRead(r) = e
      <3>1. r.eof /\ Positioned(r)
        BY <1>2, <1>3, <1>8, ReadPlaces
      <3> QED
        BY <1>2, <3>1, ReadPlaces
    <2>2. file[e] = Quote /\ (b = e \/ Esc(b, e))
      BY <1>1, <1>3, <1>5, <1>8
    <2>3. ~IsLexeme(s)
      <3> HIDE DEF b
      <3>1. e \in b .. Len(file) /\ ~(e < e) /\ (b < e => e \in b + 1 .. e)
        BY <1>3
      <3>2. IsLexeme(s) => b < e /\ (Esc(b, e) <=> e < e)
        BY <1>2, <1>3, <1>4, <2>2, <3>1, StringLexemes
      <3> QED
        BY <1>3, <2>2, <3>1, <3>2
    <2> HIDE DEF kind, contents, r, s
    <2> QED
      BY <1>1, <1>6, <2>1, <2>3, EmittedIsMeant DEF Agrees, s
  <1> QED
    BY <1>7, <1>8

-----------------------------------------------------------------------------
(* Numbers                                                                 *)

\* What FinishNumber emits, with its meaning
LEMMA NumberEmitted ==
    ASSUME FinishNumber, ~(real /\ in.ch \in {"H", "X"})
    PROVE  \E s, ok, kind, value :
             /\ Emit(begin, s, ok, [kind |-> kind, value |-> value])
             /\ \/ real /\ s = in /\ RealEmitted(ok, [kind |-> kind, value |-> value])
                \/ /\ ~real /\ in.ch = "X" /\ s = Read(in) /\ ok = Converts(lexeme, 16, CharBits)
                   /\ ok => kind = "char" /\ value = ValueIn(16, lexeme)
                \/ /\ ~real /\ in.ch = "H" /\ s = Read(in) /\ ok = Converts(lexeme, 16, LongBits)
                   /\ ok => [kind |-> kind, value |-> value] =
                              Integer(ValueIn(16, lexeme), MaxUnsigned(ShortBits), MaxUnsigned(IntBits))
                \/ /\ ~real /\ in.ch \notin {"H", "X"} /\ s = in /\ ok = Converts(lexeme, 10, LongBits)
                   /\ ok => [kind |-> kind, value |-> value] =
                              Integer(ValueIn(10, lexeme), MaxSigned(ShortBits), MaxSigned(IntBits))
  <1>1. \A n, short, int : \E kind, value : Integer(n, short, int) = [kind |-> kind, value |-> value]
    <2>1. ASSUME NEW n, NEW short, NEW int PROVE \E kind, value : Integer(n, short, int) = [kind |-> kind, value |-> value]
      <3> DEFINE kind == IF n > int THEN "long" ELSE IF n > short THEN "int" ELSE "short"
                 value == IF n > int THEN AsSigned(n, LongBits) ELSE IF n > short THEN AsSigned(n, IntBits)
                          ELSE AsSigned(n, ShortBits)
      <3>1. Integer(n, short, int) = [kind |-> kind, value |-> value]
        BY DEF Integer
      <3> QED
        BY <3>1
    <2> QED
      BY <2>1
  <1>2. CASE real /\ FloatToken(in)
    <2>1. PICK ok, kind, value :
             Emit(begin, in, ok, [kind |-> kind, value |-> value]) /\ RealEmitted(ok, [kind |-> kind, value |-> value])
      BY <1>2, FloatEmitted
    <2> QED
      BY <1>2, <2>1
  <1>3. CASE ~real /\ in.ch = "X" /\ CharToken(Read(in))
    <2> DEFINE ok == Converts(lexeme, 16, CharBits)
               value == IF ok THEN ValueIn(16, lexeme) ELSE 0
    <2>1. Emit(begin, Read(in), ok, [kind |-> "char", value |-> value])
      BY <1>3 DEF CharToken
    <2>2. ok => value = ValueIn(16, lexeme)
      OBVIOUS
    <2> HIDE DEF value
    <2> QED
      BY <1>3, <2>1, <2>2
  <1>4. ASSUME NEW s, NEW base \in {10, 16}, IntegerToken(s, base)
        PROVE  \E kind, value :
                 /\ Emit(begin, s, Converts(lexeme, base, LongBits), [kind |-> kind, value |-> value])
                 /\ Converts(lexeme, base, LongBits) =>
                      [kind |-> kind, value |-> value] =
                        Integer(ValueIn(base, lexeme),
                                IF base = 16 THEN MaxUnsigned(ShortBits) ELSE MaxSigned(ShortBits),
                                IF base = 16 THEN MaxUnsigned(IntBits) ELSE MaxSigned(IntBits))
    <2> DEFINE ok == Converts(lexeme, base, LongBits)
               n == IF ok THEN ValueIn(base, lexeme) ELSE 0
               short == IF base = 16 THEN MaxUnsigned(ShortBits) ELSE MaxSigned(ShortBits)
               int == IF base = 16 THEN MaxUnsigned(IntBits) ELSE MaxSigned(IntBits)
    <2>1. Emit(begin, s, ok, Integer(n, short, int))
      BY <1>4 DEF IntegerToken
    <2>2. ok => n = ValueIn(base, lexeme)
      OBVIOUS
    <2> HIDE DEF short, int, n
    <2>3. PICK kind, value : Integer(n, short, int) = [kind |-> kind, value |-> value]
      BY <1>1
    <2>4. Emit(begin, s, ok, [kind |-> kind, value |-> value])
      BY <2>1, <2>3
    <2>5. ok => [kind |-> kind, value |-> value] = Integer(ValueIn(base, lexeme), short, int)
      BY <2>2, <2>3
    <2> QED
      BY <2>4, <2>5 DEF short, int
  <1>5. CASE ~real /\ in.ch = "H" /\ IntegerToken(Read(in), 16)
    <2>1. PICK kind, value :
                 /\ Emit(begin, Read(in), Converts(lexeme, 16, LongBits), [kind |-> kind, value |-> value])
                 /\ Converts(lexeme, 16, LongBits) =>
                      [kind |-> kind, value |-> value] =
                        Integer(ValueIn(16, lexeme), MaxUnsigned(ShortBits), MaxUnsigned(IntBits))
      BY <1>4, <1>5
    <2> QED
      BY <1>5, <2>1
  <1>6. CASE ~real /\ in.ch \notin {"H", "X"} /\ IntegerToken(in, 10)
    <2> DEFINE short == IF 10 = 16 THEN MaxUnsigned(ShortBits) ELSE MaxSigned(ShortBits)
               int == IF 10 = 16 THEN MaxUnsigned(IntBits) ELSE MaxSigned(IntBits)
    <2>0. short = MaxSigned(ShortBits) /\ int = MaxSigned(IntBits) /\ 10 \in {10, 16}
      OBVIOUS
    <2>1. PICK kind, value :
                 /\ Emit(begin, in, Converts(lexeme, 10, LongBits), [kind |-> kind, value |-> value])
                 /\ Converts(lexeme, 10, LongBits) =>
                      [kind |-> kind, value |-> value] = Integer(ValueIn(10, lexeme), short, int)
      BY <1>4, <1>6, <2>0, Zenon
    <2> HIDE DEF short, int
    <2>2. Converts(lexeme, 10, LongBits) =>
            [kind |-> kind, value |-> value] = Integer(ValueIn(10, lexeme), MaxSigned(ShortBits), MaxSigned(IntBits))
      BY <2>0, <2>1
    <2> QED
      BY <1>6, <2>1, <2>2, Zenon
  <1> QED
    BY <1>2, <1>3, <1>5, <1>6 DEF FinishNumber

\* A lexeme of digits is a decimal number, and the suffix tells what a
\* hexadecimal one is.
LEMMA NumberText ==
    ASSUME NEW s \in Seq(STRING), Len(s) > 0, s[1] \in Digits, IsLexeme(s)
    PROVE  /\ Consists(s, HexDigits) => IsDecimal(s)
           /\ s[Len(s)] = "H" => IsHex(s, "H", LongBits)
           /\ s[Len(s)] = "X" => IsHex(s, "X", CharBits)
  <1> DEFINE n == Len(s)
             c == s[n]
  <1>1. IsNumber(s)
    BY DigitsBeginNumbers
  <1>2. n \in DOMAIN s /\ n \in Nat /\ Last(s) = c
    BY DEF Last
  <1>3. /\ IsHex(s, "H", LongBits) => c = "H"
        /\ IsHex(s, "X", CharBits) => c = "X"
    BY <1>2 DEF IsHex
  <1>4. IsDecimal(s) => c \in Digits
    BY <1>2 DEF IsDecimal, Consists
  <1>5. ASSUME IsReal(s) PROVE ~Consists(s, HexDigits) /\ c \notin {"H", "X"}
    <2>1. PICK p \in 2 .. Len(s) : RealShape(s, p)
      BY <1>5, RealHasShape
    <2>2. p \in DOMAIN s /\ (n = p \/ n \in p + 1 .. n)
      OBVIOUS
    <2>3. s[p] = "." /\ c \in Digits \cup Scales \cup {"+", "-", "."}
      BY <2>1, <2>2 DEF RealShape
    <2> QED
      BY <2>2, <2>3 DEF Consists, HexDigits, Digits, HexLetters, Scales, LongScales
  <1>6. c \in HexDigits => c \notin {"H", "X"}
    BY DEF HexDigits, Digits, HexLetters
  <1>7. Consists(s, HexDigits) => c \in HexDigits
    BY <1>2 DEF Consists
  <1>8. Digits \subseteq HexDigits /\ "H" # "X"
    BY DEF HexDigits
  <1> HIDE DEF c, n
  <1> QED
    BY <1>1, <1>3, <1>4, <1>5, <1>6, <1>7, <1>8 DEF IsNumber, c, n

\* The text before the suffix
LEMMA BeforeSuffix ==
    ASSUME NEW f \in Seq(STRING), NEW b \in 1 .. Len(f), NEW e \in b .. Len(f) - 1, NEW s, s = SubSeq(f, b, e + 1)
    PROVE  /\ s \in Seq(STRING) /\ Len(s) > 0 /\ s[1] = f[b] /\ s[Len(s)] = f[e + 1]
           /\ Front(s) = SubSeq(f, b, e)
  <1>1. e + 1 \in b .. Len(f) /\ e + 1 \in b - 1 .. Len(f) /\ e + 1 \in 1 .. Len(f)
    OBVIOUS
  <1>2. s \in Seq(STRING) /\ Len(s) = e + 1 - b + 1 /\ \A k \in b .. e + 1 : s[k - b + 1] = f[k]
    BY <1>1, PartOfText
  <1>3. /\ b - b + 1 = 1 /\ b \in b .. e + 1 /\ e + 1 \in b .. e + 1 /\ e + 1 - b + 1 = Len(s)
        /\ Len(s) - 1 = e - b + 1 /\ Len(s) > 0
    BY <1>2
  <1>4. s[1] = f[b] /\ s[Len(s)] = f[e + 1]
    <2>1. s[b - b + 1] = f[b] /\ s[e + 1 - b + 1] = f[e + 1]
      BY <1>2, <1>3
    <2> QED
      BY <1>3, <2>1
  <1>5. SubSeq(s, 1, Len(s) - 1) = SubSeq(f, b, e)
    <2>1. b + 1 - 1 = b /\ b + (e - b + 1) - 1 = e /\ 1 \in 1 .. e + 1 - b + 1 /\ e - b + 1 \in 1 .. e + 1 - b + 1
      OBVIOUS
    <2>2. SubSeq(SubSeq(f, b, e + 1), 1, e - b + 1) = SubSeq(f, b + 1 - 1, b + (e - b + 1) - 1)
      BY <1>1, <2>1, SubSeqOfSubSeq
    <2> QED
      BY <1>3, <2>1, <2>2
  <1> QED
    BY <1>2, <1>3, <1>4, <1>5 DEF Front

\* Integers to the base 10 and 16, as the scanner converts them
LEMMA DecimalIsMeant ==
    ASSUME NEW s \in Seq(STRING), Len(s) > 0, s[1] \in Digits, IsLexeme(s), Converts(s, 10, LongBits),
           NEW m, m = Integer(ValueIn(10, s), MaxSigned(ShortBits), MaxSigned(IntBits))
    PROVE  m = Meaning(s) \/ OnlyUnsigned(Meaning(s))
  <1> DEFINE n == ValueIn(10, s)
             short == MaxSigned(ShortBits)
             int == MaxSigned(IntBits)
             meaning == [kind |-> IntegerKind(n <= short, n <= int), value |-> n]
  <1>1. Consists(s, Digits) /\ n <= MaxUnsigned(LongBits)
    BY DEF Converts
  <1>2. Consists(s, HexDigits)
    BY <1>1 DEF Consists, HexDigits
  <1>3. n \in Nat
    BY <1>2, ValueType
  <1>4. Meaning(s) = meaning
    BY <1>2, NumberText, NumberMeans
  <1>5. ShortBits \in Nat \ {0} /\ IntBits \in Nat \ {0} /\ ShortBits <= IntBits
    BY WidthsAssumption
  <1>6. /\ short \in Int /\ int \in Int /\ short <= int
        /\ short <= MaxUnsigned(ShortBits) /\ int <= MaxUnsigned(IntBits)
    BY <1>5, LimitsGrow
  <1> HIDE DEF n, short, int
  <1>7. Integer(n, short, int) = meaning \/ OnlyUnsigned(meaning)
    BY <1>1, <1>3, <1>6, IntegerKept
  <1> HIDE DEF meaning
  <1> QED
    BY <1>4, <1>7 DEF n, short, int

LEMMA HexIsMeant ==
    ASSUME NEW s \in Seq(STRING), Len(s) > 0, s[1] \in Digits, IsLexeme(s), s[Len(s)] = "H",
           NEW d \in Seq(STRING), d = Front(s), Converts(d, 16, LongBits),
           NEW m, m = Integer(ValueIn(16, d), MaxUnsigned(ShortBits), MaxUnsigned(IntBits))
    PROVE  m = Meaning(s) \/ OnlyUnsigned(Meaning(s))
  <1> DEFINE n == ValueIn(16, d)
             short == MaxUnsigned(ShortBits)
             int == MaxUnsigned(IntBits)
             meaning == [kind |-> IntegerKind(n <= short, n <= int), value |-> n]
  <1>1. Consists(d, HexDigits) /\ n <= MaxUnsigned(LongBits)
    BY DEF Converts
  <1>2. n \in Nat
    BY <1>1, ValueType
  <1>3. Meaning(s) = meaning
    BY NumberText, NumberMeans
  <1>4. ShortBits \in Nat \ {0} /\ IntBits \in Nat \ {0} /\ ShortBits <= IntBits
    BY WidthsAssumption
  <1>5. short \in Int /\ int \in Int /\ short <= int
    BY <1>4, LimitsGrow
  <1>6. short <= MaxUnsigned(ShortBits) /\ int <= MaxUnsigned(IntBits)
    BY <1>5
  <1> HIDE DEF n, short, int
  <1>7. Integer(n, short, int) = meaning \/ OnlyUnsigned(meaning)
    BY <1>1, <1>2, <1>5, <1>6, IntegerKept
  <1> HIDE DEF meaning
  <1> QED
    BY <1>3, <1>7 DEF n, short, int

LEMMA FinishNumberIsMeant ==
    ASSUME IInv, TokensAreMeant, NumberRead, FinishNumber
    PROVE  TokensAreMeant' /\ mode' = "scan"
  <1> DEFINE b == begin.at
             e == LastRead(in)
             c == in.ch
  <1>1. mode = "number" /\ ~InNumber /\ file' = file
    BY DEF FinishNumber
  <1>2. file \in Seq(STRING) /\ Positioned(in) /\ Positioned(begin)
    BY <1>1, Collecting
  <1>3. /\ in.at \in 1 .. Len(file) /\ c = file[in.at] /\ Len(file) \in Nat /\ b \in 1 .. Len(file)
        /\ in.eof => e = in.at /\ in.at = Len(file)
        /\ ~in.eof => e = in.at - 1 /\ LastRead(Read(in)) = in.at
        /\ e \in 0 .. Len(file) /\ (e < Len(file) => ~in.eof)
    BY <1>2, ReadPlaces
  <1>4. ~in.eof => c \notin HexDigits
    BY <1>1 DEF InNumber
  <1>5. b <= in.at /\ file[b] \in Digits
    BY DEF NumberRead
  <1>6. mode' = "scan"
    BY DEF FinishNumber, Emit, FloatToken, CharToken, IntegerToken
  <1>7. CASE real /\ c \in {"H", "X"}
    <2> DEFINE kind == "undefined"
               value == <<>>
               s == Read(in)
               ok == FALSE
    <2>1. Emit(begin, s, ok, [kind |-> kind, value |-> value])
      BY <1>7 DEF FinishNumber
    <2> HIDE DEF kind, value, s
    <2>2. PICK k : LastRead(s) = k
      OBVIOUS
    <2> QED
      BY <1>1, <1>6, <2>1, <2>2, EmittedIsMeant DEF Agrees
  <1>8. ASSUME ~(real /\ c \in {"H", "X"})
        PROVE  TokensAreMeant'
    <2>1. PICK s, ok, kind, value :
             /\ Emit(begin, s, ok, [kind |-> kind, value |-> value])
             /\ \/ real /\ s = in /\ RealEmitted(ok, [kind |-> kind, value |-> value])
                \/ /\ ~real /\ c = "X" /\ s = Read(in) /\ ok = Converts(lexeme, 16, CharBits)
                   /\ ok => kind = "char" /\ value = ValueIn(16, lexeme)
                \/ /\ ~real /\ c = "H" /\ s = Read(in) /\ ok = Converts(lexeme, 16, LongBits)
                   /\ ok => [kind |-> kind, value |-> value] =
                              Integer(ValueIn(16, lexeme), MaxUnsigned(ShortBits), MaxUnsigned(IntBits))
                \/ /\ ~real /\ c \notin {"H", "X"} /\ s = in /\ ok = Converts(lexeme, 10, LongBits)
                   /\ ok => [kind |-> kind, value |-> value] =
                              Integer(ValueIn(10, lexeme), MaxSigned(ShortBits), MaxSigned(IntBits))
      BY <1>8, NumberEmitted
    <2> DEFINE m == [kind |-> kind, value |-> value]
    <2>2. CASE in.eof /\ file[Len(file)] = "."
      <3>1. s = in /\ e = Len(file)
        BY <1>3, <2>1, <2>2
      <3> DEFINE text == SubSeq(file, b, e)
      <3>2. PointAtEnd(text, e)
        <4> HIDE DEF b, e
        <4>1. e \in b - 1 .. Len(file) /\ e \in b .. e
          BY <1>3, <3>1
        <4>2. Len(text) = e - b + 1 /\ text[e - b + 1] = file[e]
          BY <1>2, <1>3, <4>1, PartOfText
        <4> HIDE DEF text
        <4>3. Last(text) = "."
          BY <2>2, <3>1, <4>2 DEF Last
        <4> QED
          BY <3>1, <4>3 DEF PointAtEnd
      <3> QED
        BY <1>1, <2>1, <3>1, <3>2, EmittedIsMeant DEF Agrees
    <2>3. CASE ~(in.eof /\ file[Len(file)] = ".")
      <3>1. b - 1 <= e /\ lexeme = SubSeq(file, b, e) /\ Chars(b, e, real)
        BY <2>3 DEF NumberRead
      <3>2. e \in b .. Len(file)
        <4>1. ASSUME e = b - 1 PROVE FALSE
          <5>1. ~in.eof /\ in.at = b
            BY <1>3, <4>1
          <5> QED
            BY <1>3, <1>4, <1>5, <5>1 DEF HexDigits
        <4> QED
          BY <1>3, <3>1, <4>1
      <3>3. e < Len(file) => ~in.eof /\ in.at = e + 1 /\ c = file[e + 1] /\ LastRead(Read(in)) = e + 1
        BY <1>3
      <3>4. c \in {"H", "X"} => e < Len(file)
        <4>1. ASSUME e = Len(file) PROVE c = file[e]
          <5>1. in.eof
            BY <1>3, <4>1
          <5> QED
            BY <1>3, <4>1, <5>1
        <4>2. e \in b .. e
          BY <1>3, <3>2
        <4>3. file[e] \in HexDigits \cup {".", "+", "-"}
          BY <3>1, <4>2 DEF Chars
        <4>4. file[e] \notin {"H", "X"}
          BY <4>3 DEF HexDigits, Digits, HexLetters
        <4> QED
          BY <1>3, <3>2, <4>1, <4>4
      <3>5. lexeme \in Seq(STRING) /\ Len(lexeme) > 0 /\ lexeme[1] \in Digits
        <4> HIDE DEF b, e
        <4>1. e \in b - 1 .. Len(file) /\ b \in b .. e /\ b - b + 1 = 1 /\ e - b + 1 > 0
          BY <1>3, <3>2
        <4>2. lexeme \in Seq(STRING) /\ Len(lexeme) = e - b + 1 /\ lexeme[b - b + 1] = file[b]
          BY <1>2, <1>3, <3>1, <4>1, PartOfText
        <4>3. lexeme[1] = file[b]
          BY <4>1, <4>2
        <4> QED
          BY <1>5, <4>1, <4>2, <4>3
      <3> DEFINE long == SubSeq(file, b, e + 1)
      <3>6. c \in {"H", "X"} => /\ long \in Seq(STRING) /\ Len(long) > 0 /\ long[1] \in Digits /\ long[Len(long)] = c
                                /\ Front(long) = lexeme
        <4> HIDE DEF b, e, c, long
        <4>1. c \in {"H", "X"} => e \in b .. Len(file) - 1
          BY <1>3, <3>2, <3>4
        <4>2. c \in {"H", "X"} => /\ long \in Seq(STRING) /\ Len(long) > 0 /\ long[1] = file[b]
                                  /\ long[Len(long)] = file[e + 1] /\ Front(long) = SubSeq(file, b, e)
          BY <1>2, <1>3, <4>1, BeforeSuffix DEF long
        <4> QED
          BY <1>5, <3>1, <3>3, <3>4, <4>2
      <3>11. m = [kind |-> kind, value |-> value] /\ Emit(begin, s, ok, m) /\ begin.at = b /\ LastRead(in) = e
        BY <2>1
      <3>12. long = SubSeq(file, b, e + 1)
        OBVIOUS
      <3> HIDE DEF b, e, c, long, m
      <3>13. ASSUME NEW text, NEW k, LastRead(s) = k, text = SubSeq(file, b, k),
                    ok = TRUE /\ IsLexeme(text) => m = Meaning(text) \/ OnlyUnsigned(Meaning(text))
             PROVE  TokensAreMeant'
        <4>1. Agrees(ok, m, text, k)
          BY <3>13 DEF Agrees
        <4> QED
          BY <1>1, <3>11, <3>13, <4>1, EmittedIsMeant
      <3>7. CASE real /\ s = in
        <4>1. ASSUME ok = TRUE PROVE m = Meaning(lexeme)
          <5>1. IsReal(lexeme) /\ m = RealMeaning(lexeme)
            BY <2>1, <3>5, <3>7, <4>1 DEF m, RealEmitted
          <5> QED
            BY <3>5, <5>1, NumberMeans
        <4> QED
          BY <3>1, <3>7, <3>11, <3>13, <4>1
      <3>8. CASE ~real /\ c = "X"
        <4>1. s = Read(in) /\ LastRead(s) = e + 1
          BY <2>1, <3>3, <3>4, <3>8
        <4>2. ASSUME ok = TRUE, IsLexeme(long) PROVE m = Meaning(long)
          <5>1. m = [kind |-> "char", value |-> ValueIn(16, lexeme)]
            BY <2>1, <3>8, <4>2 DEF m
          <5>2. IsHex(long, "X", CharBits)
            BY <3>6, <3>8, <4>2, NumberText
          <5>3. Meaning(long) = [kind |-> "char", value |-> ValueIn(16, Front(long))]
            BY <3>6, <3>8, <5>2, NumberMeans
          <5> QED
            BY <3>6, <3>8, <5>1, <5>3
        <4> QED
          BY <3>12, <3>13, <4>1, <4>2
      <3>9. CASE ~real /\ c = "H"
        <4>1. s = Read(in) /\ LastRead(s) = e + 1
          BY <2>1, <3>3, <3>4, <3>9
        <4>2. ASSUME ok = TRUE, IsLexeme(long) PROVE m = Meaning(long) \/ OnlyUnsigned(Meaning(long))
          <5>1. m = Integer(ValueIn(16, lexeme), MaxUnsigned(ShortBits), MaxUnsigned(IntBits))
                /\ Converts(lexeme, 16, LongBits)
            BY <2>1, <3>9, <4>2 DEF m
          <5> QED
            BY <3>5, <3>6, <3>9, <4>2, <5>1, HexIsMeant
        <4> QED
          BY <3>12, <3>13, <4>1, <4>2
      <3>10. CASE ~real /\ c \notin {"H", "X"}
        <4>1. s = in
          BY <2>1, <3>10
        <4>2. ASSUME ok = TRUE, IsLexeme(lexeme) PROVE m = Meaning(lexeme) \/ OnlyUnsigned(Meaning(lexeme))
          <5>1. m = Integer(ValueIn(10, lexeme), MaxSigned(ShortBits), MaxSigned(IntBits))
                /\ Converts(lexeme, 10, LongBits)
            BY <2>1, <3>10, <4>2 DEF m
          <5> QED
            BY <3>5, <4>2, <5>1, DecimalIsMeant
        <4> QED
          BY <3>1, <3>11, <3>13, <4>1, <4>2
      <3> QED
        BY <2>1, <3>7, <3>8, <3>9, <3>10
    <2> QED
      BY <2>2, <2>3
  <1> QED
    BY <1>6, <1>7, <1>8

-----------------------------------------------------------------------------
(* What the loops have collected is the text that they have read.          *)
Kept == /\ mode = "ident" => NameKept
        /\ mode = "string" => StringKept

MInv == LInv /\ TokensAreMeant /\ Kept

\* The end of the file has no meaning.
LEMMA EndIsMeant ==
    ASSUME IInv, TokensAreMeant, EndOfFile
    PROVE  TokensAreMeant' /\ mode' = "done"
  <1> DEFINE t == Token(in, in, TRUE, [kind |-> "eof", value |-> <<>>])
  <1>1. tokens' = Append(tokens, t) /\ file' = file /\ mode' = "done"
    BY DEF EndOfFile
  <1>2. IsMeant(t)
    BY DEF IsMeant, Token
  <1> HIDE DEF t
  <1> QED
    BY <1>1, <1>2, MeantAdded DEF IInv

LEMMA MeaningStep ==
    ASSUME MInv, Next
    PROVE  TokensAreMeant' /\ Kept'
  <1>1. IInv /\ Collected /\ TokensAreMeant /\ Kept
    BY DEF MInv, LInv
  <1>2. CASE SkipBlank \/ BadCharacter \/ BeginComment \/ scanComment \/ BeginNumber \/ ScanDigit
    <2>1. file' = file /\ tokens' = tokens /\ mode' \notin {"ident", "string"}
      BY <1>2 DEF SkipBlank, BadCharacter, BeginComment, Loop, scanComment, OpenComment, CloseComment, SkipComment,
                  BeginNumber, ScanDigit
    <2> QED
      BY <1>1, <2>1, TokensStayMeant DEF Kept
  <1>3. CASE scanSymbol
    <2>1. mode' = "scan"
      BY <1>3 DEF scanSymbol, Symbol, Emit
    <2> QED
      BY <1>1, <1>3, <2>1, SymbolIsMeant DEF Kept
  <1>4. CASE EndOfFile
    BY <1>1, <1>4, EndIsMeant DEF Kept
  <1>5. CASE BeginIdent
    <2>1. file' = file /\ tokens' = tokens /\ mode' = "ident"
      BY <1>5 DEF BeginIdent, Loop
    <2> QED
      BY <1>1, <1>5, <2>1, BeginNameKept, TokensStayMeant DEF Kept
  <1>6. CASE scanIdent
    <2>1. mode = "ident"
      BY <1>6 DEF scanIdent
    <2> QED
      BY <1>1, <1>6, <2>1, NameStepKept DEF Kept, Collected
  <1>7. CASE FinishNumber
    <2>1. mode = "number"
      BY <1>7 DEF FinishNumber
    <2> QED
      BY <1>1, <1>7, <2>1, FinishNumberIsMeant DEF Kept, Collected
  <1>8. CASE BeginString
    <2>1. file' = file /\ tokens' = tokens /\ mode' = "string"
      BY <1>8 DEF BeginString, Loop
    <2> QED
      BY <1>1, <1>8, <2>1, BeginStringKept, TokensStayMeant DEF Kept
  <1>9. CASE StringCharacter
    <2>1. file' = file /\ tokens' = tokens /\ mode = "string" /\ mode' = "string"
      BY <1>9 DEF StringCharacter
    <2> QED
      BY <1>1, <1>9, <2>1, StringCharacterKept, TokensStayMeant DEF Kept, Collected
  <1>10. CASE FinishString
    <2>1. mode = "string"
      BY <1>10 DEF FinishString
    <2> QED
      BY <1>1, <1>10, <2>1, FinishStringIsMeant DEF Kept, Collected
  <1> QED
    BY <1>2, <1>3, <1>4, <1>5, <1>6, <1>7, <1>8, <1>9, <1>10
    DEF Next, scanToken, scanNumber, scanString

\* MInv holds in every state of the scanner: what it converts is the text
\* that it has read, from the first character of the token on.
THEOREM MeantInvariant == Spec => []MInv
  <1>1. Init => TokensAreMeant /\ Kept
    <2>1. Init => mode = "scan" /\ tokens = <<>>
      BY DEF Init
    <2>2. \A i \in DOMAIN <<>> : FALSE
      OBVIOUS
    <2>3. mode = "scan" /\ tokens = <<>> => TokensAreMeant /\ Kept
      BY <2>2 DEF TokensAreMeant, Kept
    <2> QED
      BY <2>1, <2>3
  <1>2. MInv /\ [Next]_vars => TokensAreMeant' /\ Kept'
    <2>1. CASE UNCHANGED vars
      <3>1. MInv => TokensAreMeant'
        BY <2>1, TokensStayMeant DEF MInv, vars
      <3>2. MInv => Kept'
        BY <2>1 DEF MInv, vars, Kept, NameKept, StringKept, Esc, LastRead
      <3> QED
        BY <3>1, <3>2
    <2> QED
      BY <2>1, MeaningStep
  <1>3. Spec => []LInv
    BY LexemeInvariant
  <1> QED
    BY <1>1, <1>2, <1>3, PTL DEF Spec, MInv

\* Every token of every file that is accepted and is a lexeme has the kind
\* and the value that its text means, but for the known departures.
THEOREM TokensAreAlwaysMeant == Spec => []TokensAreMeant
  <1>1. MInv => TokensAreMeant
    BY DEF MInv
  <1> QED
    BY <1>1, MeantInvariant, PTL
=============================================================================
