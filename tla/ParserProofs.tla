---------------------------- MODULE ParserProofs ----------------------------
(***************************************************************************)
(* Proofs about the parser, for every file of tokens: what the semantic    *)
(* actions count is back where it was at the end, and nothing undefined is *)
(* done before an error is reported.                                       *)
(*                                                                         *)
(* The productions are programs of a stack machine, and the proof is a     *)
(* type system for them.  A shape says how many values are on the stack,   *)
(* how many loops and scopes are open, and what is known of errors and of  *)
(* the top of the stack.  Typed(t, a, c, k) says that the list of          *)
(* instructions t goes from shape a to shape c, and that a break in it     *)
(* which leaves the list has a shape of k.                                 *)
(***************************************************************************)
EXTENDS Parser, SequenceTheorems, WellFoundedInduction, TLAPS

-----------------------------------------------------------------------------
(* Lists of instructions                                                   *)

IsList(t) == \E X : t \in Seq(X)
IsLoop(i) == i.op \in {"while", "forever"}
NoLoop(t) == \A j \in DOMAIN t : ~IsLoop(t[j])

\* Two lists have their instructions in one set.
LEMMA ListsShare ==
    ASSUME NEW s, IsList(s), NEW t, IsList(t)
    PROVE  \E X : s \in Seq(X) /\ t \in Seq(X)
  <1>1. PICK X : s \in Seq(X)
    BY DEF IsList
  <1>2. PICK Y : t \in Seq(Y)
    BY DEF IsList
  <1>3. s \in Seq(X \cup Y) /\ t \in Seq(X \cup Y)
    BY <1>1, <1>2, SeqMonotonic
  <1> QED
    BY <1>3

\* One list after another is a list.
LEMMA ListConcat ==
    ASSUME NEW s, IsList(s), NEW t, IsList(t)
    PROVE  /\ IsList(s \o t)
           /\ s = <<>> => s \o t = t
           /\ s # <<>> => /\ s \o t # <<>>
                          /\ Head(s \o t) = Head(s)
                          /\ Tail(s \o t) = Tail(s) \o t
                          /\ IsList(Tail(s))
  <1>1. PICK X : s \in Seq(X) /\ t \in Seq(X)
    BY ListsShare
  <1>2. s \o t \in Seq(X)
    BY <1>1
  <1>3. s = <<>> => s \o t = t
    BY <1>1
  <1>4. ASSUME s # <<>>
        PROVE  /\ s \o t # <<>>
               /\ Head(s \o t) = Head(s)
               /\ Tail(s) \in Seq(X)
               /\ Tail(s \o t) = Tail(s) \o t
    <2>1. Len(s) \in Nat \ {0}
      BY <1>1, <1>4, EmptySeq
    <2>2. Tail(s) \in Seq(X) /\ Len(Tail(s)) = Len(s) - 1
      BY <1>1, <1>4, HeadTailProperties
    <2>3. /\ Len(s \o t) = Len(s) + Len(t)
          /\ \A j \in 1 .. Len(s) + Len(t) : (s \o t)[j] = IF j <= Len(s) THEN s[j] ELSE t[j - Len(s)]
      BY <1>1, ConcatProperties
    <2>4. s \o t # <<>> /\ Head(s \o t) = Head(s)
      BY <1>1, <1>2, <2>1, <2>3
    <2>5. /\ Tail(s \o t) \in Seq(X)
          /\ Len(Tail(s \o t)) = Len(s) + Len(t) - 1
          /\ \A j \in 1 .. Len(s) + Len(t) - 1 : Tail(s \o t)[j] = (s \o t)[j + 1]
      BY <1>1, <1>2, <2>3, <2>4, HeadTailProperties
    <2>6. /\ Tail(s) \o t \in Seq(X)
          /\ Len(Tail(s) \o t) = Len(s) + Len(t) - 1
          /\ \A j \in 1 .. Len(s) + Len(t) - 1 :
               (Tail(s) \o t)[j] = IF j <= Len(s) - 1 THEN Tail(s)[j] ELSE t[j - (Len(s) - 1)]
      BY <1>1, <2>1, <2>2, ConcatProperties
    <2>7. \A j \in 1 .. Len(s) - 1 : Tail(s)[j] = s[j + 1]
      BY <1>1, <1>4, <2>2, HeadTailProperties
    <2>8. \A j \in 1 .. Len(s) + Len(t) - 1 : Tail(s \o t)[j] = (Tail(s) \o t)[j]
      <3> TAKE j \in 1 .. Len(s) + Len(t) - 1
      <3>1. Len(s) \in Nat /\ Len(t) \in Nat
        BY <1>1
      <3>2. Tail(s \o t)[j] = IF j + 1 <= Len(s) THEN s[j + 1] ELSE t[(j + 1) - Len(s)]
        BY <2>3, <2>5, <3>1
      <3>3. (j + 1) - Len(s) = j - (Len(s) - 1)
        BY <3>1
      <3> QED
        BY <2>6, <2>7, <3>1, <3>2, <3>3
    <2> QED
      BY <2>2, <2>4, <2>5, <2>6, <2>8, SeqEqual
  <1> QED
    BY <1>1, <1>2, <1>3, <1>4 DEF IsList

\* A list that begins with an instruction.
LEMMA ListCons ==
    ASSUME NEW i, NEW t, IsList(t)
    PROVE  /\ IsList(<<i>> \o t) /\ <<i>> \o t # <<>>
           /\ Head(<<i>> \o t) = i /\ Tail(<<i>> \o t) = t
  <1>1. <<i>> \in Seq({i}) /\ <<i>> # <<>> /\ Head(<<i>>) = i /\ Tail(<<i>>) = <<>>
    OBVIOUS
  <1>2. IsList(<<i>>) /\ <<>> \o t = t
    <2>1. PICK X : t \in Seq(X)
      BY DEF IsList
    <2>2. <<>> \o t = t
      BY <2>1
    <2> QED
      BY <1>1, <2>2 DEF IsList
  <1> QED
    BY <1>1, <1>2, ListConcat

\* Three lists one after another
LEMMA ListConcatAssociative ==
    ASSUME NEW s, IsList(s), NEW t, IsList(t), NEW u, IsList(u)
    PROVE  (s \o t) \o u = s \o (t \o u)
  <1>1. PICK X : s \in Seq(X) /\ t \in Seq(X)
    BY ListsShare
  <1>2. PICK Y : u \in Seq(Y)
    BY DEF IsList
  <1>3. s \in Seq(X \cup Y) /\ t \in Seq(X \cup Y) /\ u \in Seq(X \cup Y)
    BY <1>1, <1>2, SeqMonotonic
  <1> QED
    BY <1>3, ConcatAssociative

\* A list with a loop has a first one, and what is left after it is known.
LEMMA FirstLoop ==
    ASSUME NEW t, IsList(t), ~NoLoop(t)
    PROVE  \E n \in 1 .. Len(t) : IsLoop(t[n]) /\ \A j \in 1 .. n - 1 : ~IsLoop(t[j])
  <1>1. DOMAIN t = 1 .. Len(t) /\ Len(t) \in Nat
    BY DEF IsList
  <1> DEFINE loops == {k \in 1 .. Len(t) : IsLoop(t[k])}
  <1>2. loops # {} /\ loops \subseteq Nat
    BY <1>1 DEF NoLoop
  <1>3. PICK n \in loops : \A m \in loops : ~(<<m, n>> \in OpToRel(<, Nat))
    BY <1>2, NatLessThanWellFounded, WFMin
  <1>4. \A m \in loops : ~(m < n)
    <2> TAKE m \in loops
    <2>1. m \in Nat /\ n \in Nat
      BY <1>2
    <2> HIDE DEF loops
    <2> QED
      BY <1>3, <2>1 DEF OpToRel
  <1>5. n \in 1 .. Len(t) /\ IsLoop(t[n])
    BY <1>3
  <1>6. \A j \in 1 .. n - 1 : ~IsLoop(t[j])
    <2> TAKE j \in 1 .. n - 1
    <2>1. j \in 1 .. Len(t) /\ j < n
      BY <1>1, <1>5
    <2> QED
      BY <1>4, <2>1
  <1> QED
    BY <1>5, <1>6

\* A loop with none before it is the first one.
LEMMA AfterFirstLoop ==
    ASSUME NEW t, IsList(t), NEW n \in 1 .. Len(t), IsLoop(t[n]), \A j \in 1 .. n - 1 : ~IsLoop(t[j])
    PROVE  /\ ~NoLoop(t)
           /\ AfterLoop(t) = SubSeq(t, n + 1, Len(t))
  <1>1. DOMAIN t = 1 .. Len(t) /\ Len(t) \in Nat
    BY DEF IsList
  <1> DEFINE loops == {k \in DOMAIN t : t[k].op \in {"while", "forever"}}
             first == CHOOSE k \in loops : \A j \in loops : k <= j
  <1>2. n \in loops /\ \A j \in loops : n <= j
    BY <1>1 DEF IsLoop
  <1>3. first \in loops /\ \A j \in loops : first <= j
    BY <1>2
  <1>4. first = n
    BY <1>1, <1>2, <1>3
  <1>5. AfterLoop(t) = SubSeq(t, 1 + first, Len(t))
    BY DEF AfterLoop
  <1>6. ~NoLoop(t)
    BY <1>1 DEF NoLoop
  <1> HIDE DEF first
  <1>7. 1 + first = n + 1
    BY <1>4
  <1> QED
    BY <1>5, <1>6, <1>7

\* What is left after the first loop is a list.
LEMMA AfterLoopIsList ==
    ASSUME NEW t, IsList(t), ~NoLoop(t)
    PROVE  IsList(AfterLoop(t))
  <1>1. PICK X : t \in Seq(X)
    BY DEF IsList
  <1>2. PICK n \in 1 .. Len(t) : IsLoop(t[n]) /\ \A j \in 1 .. n - 1 : ~IsLoop(t[j])
    BY FirstLoop
  <1>3. AfterLoop(t) = SubSeq(t, n + 1, Len(t))
    BY <1>2, AfterFirstLoop
  <1>4. SubSeq(t, n + 1, Len(t)) \in Seq(X)
    BY <1>1
  <1> QED
    BY <1>3, <1>4 DEF IsList

\* The first loop of two lists is that of the first list, or else that of
\* the second.
LEMMA LoopInFirst ==
    ASSUME NEW s, IsList(s), NEW t, IsList(t), ~NoLoop(s)
    PROVE  /\ ~NoLoop(s \o t)
           /\ AfterLoop(s \o t) = AfterLoop(s) \o t
  <1>1. PICK X : s \in Seq(X) /\ t \in Seq(X)
    BY ListsShare
  <1>2. PICK n \in 1 .. Len(s) : IsLoop(s[n]) /\ \A j \in 1 .. n - 1 : ~IsLoop(s[j])
    BY FirstLoop
  <1>3. AfterLoop(s) = SubSeq(s, n + 1, Len(s))
    BY <1>2, AfterFirstLoop
  <1>4. /\ s \o t \in Seq(X) /\ Len(s \o t) = Len(s) + Len(t) /\ Len(s) \in Nat /\ Len(t) \in Nat
        /\ \A j \in 1 .. Len(s) + Len(t) : (s \o t)[j] = IF j <= Len(s) THEN s[j] ELSE t[j - Len(s)]
    BY <1>1, ConcatProperties
  <1>5. n \in 1 .. Len(s \o t) /\ IsLoop((s \o t)[n]) /\ \A j \in 1 .. n - 1 : ~IsLoop((s \o t)[j])
    BY <1>2, <1>4
  <1>6. ~NoLoop(s \o t) /\ AfterLoop(s \o t) = SubSeq(s \o t, n + 1, Len(s \o t))
    BY <1>4, <1>5, AfterFirstLoop DEF IsList
  <1>7. /\ SubSeq(s \o t, n + 1, Len(s \o t)) \in Seq(X)
        /\ Len(SubSeq(s \o t, n + 1, Len(s \o t))) = Len(s) + Len(t) - n
        /\ \A j \in 1 .. Len(s) + Len(t) - n : SubSeq(s \o t, n + 1, Len(s \o t))[j] = (s \o t)[n + j]
    <2>1. \A j \in n + 1 .. Len(s \o t) : (s \o t)[j] \in X
      BY <1>4
    <2> QED
      BY <1>4, <2>1
  <1>8. /\ SubSeq(s, n + 1, Len(s)) \in Seq(X)
        /\ Len(SubSeq(s, n + 1, Len(s))) = Len(s) - n
        /\ \A j \in 1 .. Len(s) - n : SubSeq(s, n + 1, Len(s))[j] = s[n + j]
    BY <1>1, <1>4
  <1> DEFINE u == SubSeq(s, n + 1, Len(s))
  <1> HIDE DEF u
  <1>9. /\ u \o t \in Seq(X)
        /\ Len(u \o t) = Len(s) + Len(t) - n
        /\ \A j \in 1 .. Len(s) + Len(t) - n : (u \o t)[j] = IF j <= Len(s) - n THEN u[j] ELSE t[j - (Len(s) - n)]
    <2>1. Len(u) = Len(s) - n /\ u \in Seq(X) /\ t \in Seq(X)
      BY <1>1, <1>8 DEF u
    <2>2. Len(u) + Len(t) = Len(s) + Len(t) - n
      BY <1>4, <2>1
    <2>3. /\ u \o t \in Seq(X)
          /\ Len(u \o t) = Len(u) + Len(t)
          /\ \A j \in 1 .. Len(u) + Len(t) : (u \o t)[j] = IF j <= Len(u) THEN u[j] ELSE t[j - Len(u)]
      BY <2>1, ConcatProperties
    <2> QED
      BY <2>1, <2>2, <2>3
  <1>10. \A j \in 1 .. Len(s) + Len(t) - n : (s \o t)[n + j] = (u \o t)[j]
    <2> TAKE j \in 1 .. Len(s) + Len(t) - n
    <2>1. n + j \in 1 .. Len(s) + Len(t) /\ (n + j) - Len(s) = j - (Len(s) - n)
      BY <1>4
    <2>2. j <= Len(s) - n => u[j] = s[n + j]
      BY <1>4, <1>8 DEF u
    <2>3. (n + j <= Len(s)) <=> (j <= Len(s) - n)
      BY <1>4
    <2> QED
      BY <1>4, <1>9, <2>1, <2>2, <2>3
  <1>11. SubSeq(s \o t, n + 1, Len(s \o t)) = u \o t
    <2> DEFINE v == SubSeq(s \o t, n + 1, Len(s \o t))
    <2> HIDE DEF v
    <2>1. v \in Seq(X) /\ Len(v) = Len(u \o t) /\ \A j \in 1 .. Len(v) : v[j] = (u \o t)[j]
      BY <1>7, <1>9, <1>10 DEF v
    <2> QED
      BY <1>9, <2>1, SeqEqual DEF v
  <1> QED
    BY <1>3, <1>6, <1>11 DEF u

\* A list without a loop before one that has one
LEMMA LoopInSecond ==
    ASSUME NEW s, IsList(s), NEW t, IsList(t), NoLoop(s), ~NoLoop(t)
    PROVE  /\ ~NoLoop(s \o t)
           /\ AfterLoop(s \o t) = AfterLoop(t)
  <1>1. PICK X : s \in Seq(X) /\ t \in Seq(X)
    BY ListsShare
  <1>2. PICK n \in 1 .. Len(t) : IsLoop(t[n]) /\ \A j \in 1 .. n - 1 : ~IsLoop(t[j])
    BY FirstLoop
  <1>3. AfterLoop(t) = SubSeq(t, n + 1, Len(t))
    BY <1>2, AfterFirstLoop
  <1>4. /\ s \o t \in Seq(X) /\ Len(s \o t) = Len(s) + Len(t) /\ Len(s) \in Nat /\ Len(t) \in Nat
        /\ \A j \in 1 .. Len(s) + Len(t) : (s \o t)[j] = IF j <= Len(s) THEN s[j] ELSE t[j - Len(s)]
    BY <1>1, ConcatProperties
  <1> DEFINE m == Len(s) + n
  <1>5. m \in 1 .. Len(s \o t) /\ IsLoop((s \o t)[m])
    <2>1. (s \o t)[m] = t[m - Len(s)] /\ m - Len(s) = n
      BY <1>4
    <2> QED
      BY <1>2, <1>4, <2>1
  <1>6. \A j \in 1 .. m - 1 : ~IsLoop((s \o t)[j])
    <2> TAKE j \in 1 .. m - 1
    <2>1. CASE j <= Len(s)
      BY <1>1, <1>4, <2>1 DEF NoLoop
    <2>2. CASE ~(j <= Len(s))
      <3>1. j - Len(s) \in 1 .. n - 1 /\ (s \o t)[j] = t[j - Len(s)]
        BY <1>4, <2>2
      <3> QED
        BY <1>2, <3>1
    <2> QED
      BY <2>1, <2>2
  <1>7. ~NoLoop(s \o t) /\ AfterLoop(s \o t) = SubSeq(s \o t, m + 1, Len(s \o t))
    <2> HIDE DEF m
    <2> QED
      BY <1>4, <1>5, <1>6, AfterFirstLoop DEF IsList
  <1>8. SubSeq(s \o t, m + 1, Len(s \o t)) = SubSeq(t, n + 1, Len(t))
    <2> DEFINE v == SubSeq(s \o t, m + 1, Len(s \o t))
               w == SubSeq(t, n + 1, Len(t))
    <2>1. /\ v \in Seq(X) /\ Len(v) = Len(t) - n
          /\ \A j \in 1 .. Len(t) - n : v[j] = (s \o t)[m + j]
      <3>1. \A j \in m + 1 .. Len(s \o t) : (s \o t)[j] \in X
        BY <1>4
      <3> QED
        BY <1>4, <3>1, SMTT(30)
    <2>2. /\ w \in Seq(X) /\ Len(w) = Len(t) - n
          /\ \A j \in 1 .. Len(t) - n : w[j] = t[n + j]
      BY <1>1, <1>4
    <2>3. \A j \in 1 .. Len(t) - n : (s \o t)[m + j] = t[n + j]
      <3> TAKE j \in 1 .. Len(t) - n
      <3>1. (m + j) - Len(s) = n + j /\ m + j \in 1 .. Len(s) + Len(t) /\ ~(m + j <= Len(s))
        BY <1>4
      <3> QED
        BY <1>4, <3>1
    <2> HIDE DEF v, w
    <2>4. v = w
      BY <2>1, <2>2, <2>3, SeqEqual
    <2> QED
      BY <2>4 DEF v, w
  <1> QED
    BY <1>3, <1>7, <1>8

\* Two lists without a loop
LEMMA LoopInNone ==
    ASSUME NEW s, IsList(s), NEW t, IsList(t), NoLoop(s), NoLoop(t)
    PROVE  NoLoop(s \o t)
  <1>1. PICK X : s \in Seq(X) /\ t \in Seq(X)
    BY ListsShare
  <1>2. /\ DOMAIN (s \o t) = 1 .. Len(s) + Len(t) /\ Len(s) \in Nat /\ Len(t) \in Nat
        /\ \A j \in 1 .. Len(s) + Len(t) : (s \o t)[j] = IF j <= Len(s) THEN s[j] ELSE t[j - Len(s)]
    BY <1>1, ConcatProperties
  <1>3. \A j \in 1 .. Len(s) + Len(t) : ~IsLoop((s \o t)[j])
    <2> TAKE j \in 1 .. Len(s) + Len(t)
    <2>1. CASE j <= Len(s)
      BY <1>1, <1>2, <2>1 DEF NoLoop
    <2>2. CASE ~(j <= Len(s))
      <3>1. j - Len(s) \in DOMAIN t /\ (s \o t)[j] = t[j - Len(s)]
        BY <1>1, <1>2, <2>2
      <3> QED
        BY <3>1 DEF NoLoop
    <2> QED
      BY <2>1, <2>2
  <1> QED
    BY <1>2, <1>3 DEF NoLoop

\* A loop and what is left after it
LEMMA LoopAtHead ==
    ASSUME NEW i, IsLoop(i), NEW t, IsList(t)
    PROVE  /\ ~NoLoop(<<i>> \o t)
           /\ AfterLoop(<<i>> \o t) = t
  <1>1. IsList(<<i>>) /\ Len(<<i>>) = 1 /\ <<i>>[1] = i
    <2>1. <<i>> \in Seq({i})
      OBVIOUS
    <2> QED
      BY <2>1 DEF IsList
  <1>2. ~NoLoop(<<i>>) /\ AfterLoop(<<i>>) = SubSeq(<<i>>, 2, 1)
    <2>1. 1 \in 1 .. Len(<<i>>) /\ \A j \in 1 .. 1 - 1 : ~IsLoop(<<i>>[j])
      BY <1>1
    <2> QED
      BY <1>1, <2>1, AfterFirstLoop
  <1>3. SubSeq(<<i>>, 2, 1) = <<>> /\ <<>> \o t = t
    <2>1. PICK X : t \in Seq(X)
      BY DEF IsList
    <2> QED
      BY <2>1, SubSeqEmpty
  <1> QED
    BY <1>1, <1>2, <1>3, LoopInFirst

-----------------------------------------------------------------------------
(* Shapes                                                                  *)

(* What is known besides the counts: an error was reported, the top of the *)
(* stack is a designator, no value is null, or only the top may be.        *)
Failed == 0
Designates == 1
Sound == 2
Loose == 3
Shape == [height : Nat, loops : Int, scopes : Int, mode : 0 .. 3]
Sh(h, l, s, m) == [height |-> h, loops |-> l, scopes |-> s, mode |-> m]
Fail(a) == Sh(a.height, a.loops, a.scopes, Failed)
\* With a new value on the top that is not null
Kept(m) == IF m = Failed THEN Failed ELSE Sound

\* What has shape a may be taken to have shape b.
Fits(a, b) ==
    /\ a.height = b.height /\ a.loops = b.loops /\ a.scopes = b.scopes
    /\ a.mode <= b.mode

(* What the productions do to the stack: those of Appenders add to the     *)
(* value on the top, the others push one, or two.                          *)
Appenders ==
    {"import", "field_list", "fp_section", "procedure", "procedure_declaration", "procedure_definition",
     "elsif_then", "elsif_do", "assignment"}
Gain(p) == IF p \in Appenders THEN 0 ELSE IF p = "procedure_body" THEN 2 ELSE 1
Post(p) == IF p = "statement" THEN Loose ELSE IF p = "designator" THEN Designates ELSE Sound
Calls(p, a, b) ==
    /\ p \in DOMAIN Production /\ a.mode <= Sound
    /\ p \in Appenders => a.height >= 1
    /\ b = Sh(a.height + Gain(p), a.loops, a.scopes, Post(p))

SemaKinds ==
    {"binary", "negation", "not", "range", "if", "labels", "set", "qualified", "call", "exit", "for", "array",
     "case", "module", "procedure"}
\* Kinds whose semantic action looks into its first operand
LookingInto == {"labels", "set", "qualified", "call"}

(* An instruction that is no jump takes a stack of shape a to shape b.     *)
Does(i, a, b) ==
    \/ i.op \in {"next", "look", "resync"} /\ b = a
    \/ i.op = "report" /\ b = Fail(a)
    \/ i.op = "stale" /\ (i.report = TRUE \/ (i.report = FALSE /\ a.mode = Failed)) /\ b = Fail(a)
    \/ i.op \in {"leaf", "value"} /\ a.mode <= Sound /\ b = Sh(a.height + 1, a.loops, a.scopes, Kept(a.mode))
    \/ /\ i.op = "push" /\ a.mode <= Sound
       /\ \/ i.kind \notin NodeKinds /\ b = Sh(a.height + 1, a.loops, a.scopes, Kept(a.mode))
          \/ i.kind = "null" /\ b = Sh(a.height + 1, a.loops, a.scopes, IF a.mode = Failed THEN Failed ELSE Loose)
    \/ /\ i.op = "append" /\ a.mode <= Sound /\ a.height >= 2
       /\ b = Sh(a.height - 1, a.loops, a.scopes, Kept(a.mode))
    \/ /\ i.op = "add" /\ a.height >= 2
       /\ b = Sh(a.height - 1, a.loops, a.scopes, Kept(a.mode))
    \/ /\ i.op = "drop" /\ a.mode <= Sound /\ i.n \in Nat /\ a.height >= i.n
       /\ b = Sh(a.height - i.n, a.loops, a.scopes, Kept(a.mode))
    \/ /\ i.op = "make" /\ a.mode <= Sound /\ i.n \in Nat /\ a.height >= i.n
       /\ i.kind # "null"
       /\ i.kind \in {"index", "parameters"} => i.n = 1
       /\ i.kind = "designator" => i.n = 2
       /\ b = Sh(a.height - i.n + 1, a.loops, a.scopes,
                 IF i.kind = "designator" /\ a.mode # Failed THEN Designates ELSE Kept(a.mode))
    \/ /\ i.op = "sema" /\ a.mode <= Sound /\ i.n \in Nat /\ a.height >= i.n
       /\ i.kind \in SemaKinds
       /\ i.kind \in LookingInto => i.n = 1
       /\ i.kind \in {"qualified", "call"} => a.mode <= Designates
       /\ b = Sh(a.height - i.n + 1, a.loops, a.scopes, Kept(a.mode))
    \/ /\ i.op = "count" /\ i.of \in {"loops", "scopes"} /\ i.by \in Int
       /\ b = IF i.of = "loops" THEN Sh(a.height, a.loops + i.by, a.scopes, a.mode)
                                ELSE Sh(a.height, a.loops, a.scopes + i.by, a.mode)
    \/ /\ i.op = "deref" /\ a.mode <= Sound /\ i.depth \in 1 .. a.height /\ b = a

(* Of a set of judgements <<t, a, c, k>>, those that follow from others.   *)
Works(G, i, a, b, k) ==
    \/ Does(i, a, b)
    \/ /\ i.op = "when"
       /\ <<i.then, a, b, k>> \in G
       /\ <<i.else, IF i.report THEN Fail(a) ELSE a, b, k>> \in G
    \/ /\ IsLoop(i)
       /\ \E e \in Shape : /\ Fits(a, e)
                           /\ <<i.body, e, e, {b}>> \in G
                           /\ i.op = "while" => Fits(e, b)
    \/ i.op = "call" /\ Calls(i.of, a, b)
    \/ i.op = "break" /\ \E e \in k : Fits(a, e)
Lands(G, kk, t, c, k) ==
    \A e \in kk : \E e1 \in Shape :
        /\ Fits(e, e1)
        /\ NoLoop(t) => e1 \in k
        /\ ~NoLoop(t) => <<AfterLoop(t), e1, c, k>> \in G
Follows(G, t, a, c, k) ==
    /\ t = <<>> => Fits(a, c)
    /\ t # <<>> => \E a1 \in Shape, b \in Shape, kk \in SUBSET Shape :
                      /\ Fits(a, a1)
                      /\ Works(G, Head(t), a1, b, kk)
                      /\ <<Tail(t), b, c, k>> \in G
                      /\ Lands(G, kk, Tail(t), c, k)
Consistent(G) ==
    \A t, a, c, k : <<t, a, c, k>> \in G =>
        IsList(t) /\ a \in Shape /\ c \in Shape /\ k \in SUBSET Shape /\ Follows(G, t, a, c, k)

Typed(t, a, c, k) == \E G : Consistent(G) /\ <<t, a, c, k>> \in G
Ok(i, a, b, k) == \E G : Consistent(G) /\ Works(G, i, a, b, k)

\* The parts of a shape
LEMMA ShParts ==
    \A h, l, s, m : /\ Sh(h, l, s, m).height = h /\ Sh(h, l, s, m).loops = l
                    /\ Sh(h, l, s, m).scopes = s /\ Sh(h, l, s, m).mode = m
  BY DEF Sh

\* Fitting is a preorder, and a failure fits where no failure was.
LEMMA FitsPreorder ==
    /\ \A a \in Shape : Fits(a, a)
    /\ \A a, b, c \in Shape : Fits(a, b) /\ Fits(b, c) => Fits(a, c)
    /\ \A a, b \in Shape : Fits(a, b) => Fits(Fail(a), b) /\ Fits(Fail(a), Fail(b))
    /\ \A a \in Shape : Fail(a) \in Shape
  BY DEF Fits, Shape, Fail, Sh, Failed

\* More judgements are no hindrance.
LEMMA WorksMonotone ==
    ASSUME NEW G, NEW H, G \subseteq H, NEW i, NEW a, NEW b, NEW k, Works(G, i, a, b, k)
    PROVE  Works(H, i, a, b, k)
  BY DEF Works

\* The same of where breaks lead
LEMMA LandsMonotone ==
    ASSUME NEW G, NEW H, G \subseteq H, NEW kk, NEW t, NEW c, NEW k, Lands(G, kk, t, c, k)
    PROVE  Lands(H, kk, t, c, k)
  BY DEF Lands

\* The same of what follows from judgements
LEMMA FollowsMonotone ==
    ASSUME NEW G, NEW H, G \subseteq H, NEW t, NEW a, NEW c, NEW k, Follows(G, t, a, c, k)
    PROVE  Follows(H, t, a, c, k)
  <1>1. SUFFICES ASSUME t # <<>>
                 PROVE  \E a1 \in Shape, b \in Shape, kk \in SUBSET Shape :
                           /\ Fits(a, a1)
                           /\ Works(H, Head(t), a1, b, kk)
                           /\ <<Tail(t), b, c, k>> \in H
                           /\ Lands(H, kk, Tail(t), c, k)
    BY DEF Follows
  <1>2. PICK a1 \in Shape, b \in Shape, kk \in SUBSET Shape :
                /\ Fits(a, a1)
                /\ Works(G, Head(t), a1, b, kk)
                /\ <<Tail(t), b, c, k>> \in G
                /\ Lands(G, kk, Tail(t), c, k)
    BY <1>1 DEF Follows
  <1>3. Works(H, Head(t), a1, b, kk) /\ Lands(H, kk, Tail(t), c, k)
    BY <1>2, WorksMonotone, LandsMonotone
  <1> QED
    BY <1>2, <1>3

\* Two consistent sets of judgements are consistent together.
LEMMA ConsistentUnion ==
    ASSUME NEW G, Consistent(G), NEW H, Consistent(H)
    PROVE  Consistent(G \cup H)
  <1> SUFFICES ASSUME NEW t, NEW a, NEW c, NEW k, <<t, a, c, k>> \in G \cup H
               PROVE  /\ IsList(t) /\ a \in Shape /\ c \in Shape /\ k \in SUBSET Shape
                      /\ Follows(G \cup H, t, a, c, k)
    BY DEF Consistent
  <1>1. CASE <<t, a, c, k>> \in G
    BY <1>1, FollowsMonotone, G \subseteq G \cup H DEF Consistent
  <1>2. CASE <<t, a, c, k>> \in H
    BY <1>2, FollowsMonotone, H \subseteq G \cup H DEF Consistent
  <1> QED
    BY <1>1, <1>2

-----------------------------------------------------------------------------
(* How judgements are made                                                 *)

\* A judgement that follows from others is one.
LEMMA TypedBy ==
    ASSUME NEW G, Consistent(G), NEW t, IsList(t), NEW a \in Shape, NEW c \in Shape,
           NEW k \in SUBSET Shape, Follows(G, t, a, c, k)
    PROVE  Typed(t, a, c, k)
  <1> DEFINE H == G \cup {<<t, a, c, k>>}
  <1>1. Consistent(H)
    <2> SUFFICES ASSUME NEW u, NEW x, NEW y, NEW z, <<u, x, y, z>> \in H
                 PROVE  IsList(u) /\ x \in Shape /\ y \in Shape /\ z \in SUBSET Shape /\ Follows(H, u, x, y, z)
      BY DEF Consistent
    <2>1. G \subseteq H
      OBVIOUS
    <2>2. CASE <<u, x, y, z>> \in G
      <3>1. IsList(u) /\ x \in Shape /\ y \in Shape /\ z \in SUBSET Shape /\ Follows(G, u, x, y, z)
        BY <2>2 DEF Consistent
      <3> HIDE DEF H
      <3> QED
        BY <2>1, <3>1, FollowsMonotone
    <2>3. CASE <<u, x, y, z>> = <<t, a, c, k>>
      <3>1. u = t /\ x = a /\ y = c /\ z = k
        BY <2>3
      <3>2. Follows(H, t, a, c, k)
        <4> HIDE DEF H
        <4> QED
          BY <2>1, FollowsMonotone
      <3> HIDE DEF H
      <3> QED
        BY <3>1, <3>2
    <2> QED
      BY <2>2, <2>3
  <1>2. <<t, a, c, k>> \in H
    OBVIOUS
  <1> HIDE DEF H
  <1> QED
    BY <1>1, <1>2 DEF Typed

\* What a judgement says
LEMMA TypedSays ==
    ASSUME NEW t, NEW a, NEW c, NEW k, Typed(t, a, c, k)
    PROVE  /\ IsList(t) /\ a \in Shape /\ c \in Shape /\ k \in SUBSET Shape
           /\ \E G : Consistent(G) /\ <<t, a, c, k>> \in G /\ Follows(G, t, a, c, k)
  BY DEF Typed, Consistent

\* Nothing to do is a list.
LEMMA EmptyList == IsList(<<>>)
  <1>1. <<>> \in Seq({})
    OBVIOUS
  <1> QED
    BY <1>1 DEF IsList

\* Doing nothing keeps what is known.
LEMMA TypedEmpty ==
    ASSUME NEW a \in Shape, NEW c \in Shape, NEW k \in SUBSET Shape, Fits(a, c)
    PROVE  Typed(<<>>, a, c, k)
  <1>1. Consistent({})
    BY DEF Consistent
  <1>2. Follows({}, <<>>, a, c, k)
    BY DEF Follows
  <1> QED
    BY <1>1, <1>2, EmptyList, TypedBy

\* A judgement follows for every shape that fits in the place of its first one.
LEMMA FollowsFits ==
    ASSUME NEW G, NEW t, NEW a \in Shape, NEW a1 \in Shape, NEW c \in Shape, NEW k,
           Follows(G, t, a1, c, k), Fits(a, a1)
    PROVE  Follows(G, t, a, c, k)
  <1>1. CASE t = <<>>
    BY <1>1, FitsPreorder DEF Follows
  <1>2. CASE t # <<>>
    <2>1. PICK a2 \in Shape, b \in Shape, kk \in SUBSET Shape :
                  /\ Fits(a1, a2)
                  /\ Works(G, Head(t), a2, b, kk)
                  /\ <<Tail(t), b, c, k>> \in G
                  /\ Lands(G, kk, Tail(t), c, k)
      BY <1>2 DEF Follows
    <2>2. Fits(a, a2)
      BY <2>1, FitsPreorder
    <2> QED
      BY <1>2, <2>1, <2>2 DEF Follows
  <1> QED
    BY <1>1, <1>2

\* The same of what is typed
LEMMA TypedFits ==
    ASSUME NEW t, NEW a \in Shape, NEW a1, NEW c, NEW k, Typed(t, a1, c, k), Fits(a, a1)
    PROVE  Typed(t, a, c, k)
  BY TypedSays, FollowsFits, TypedBy

\* An instruction before a typed list
LEMMA TypedCons ==
    ASSUME NEW i, NEW t, NEW a \in Shape, NEW b, NEW c, NEW k, NEW kk,
           Ok(i, a, b, kk), Typed(t, b, c, k), kk = {} \/ (kk = k /\ NoLoop(t))
    PROVE  Typed(<<i>> \o t, a, c, k)
  <1>1. PICK G : Consistent(G) /\ Works(G, i, a, b, kk)
    BY DEF Ok
  <1>2. PICK H : Consistent(H) /\ <<t, b, c, k>> \in H
    BY DEF Typed
  <1>3. IsList(t) /\ b \in Shape /\ c \in Shape /\ k \in SUBSET Shape /\ kk \in SUBSET Shape
    BY TypedSays
  <1> DEFINE J == G \cup H
  <1>4. Consistent(J)
    BY <1>1, <1>2, ConsistentUnion
  <1>5. Works(J, i, a, b, kk)
    BY <1>1, G \subseteq J, WorksMonotone
  <1>6. <<t, b, c, k>> \in J
    BY <1>2
  <1> HIDE DEF J
  <1>7. Lands(J, kk, t, c, k)
    BY <1>3, FitsPreorder DEF Lands
  <1>8. /\ IsList(<<i>> \o t) /\ <<i>> \o t # <<>>
        /\ Head(<<i>> \o t) = i /\ Tail(<<i>> \o t) = t
    BY <1>3, ListCons
  <1>9. Follows(J, <<i>> \o t, a, c, k)
    <2> DEFINE u == <<i>> \o t
    <2>1. Fits(a, a)
      BY FitsPreorder
    <2>2. u # <<>> /\ Head(u) = i /\ Tail(u) = t
      BY <1>8
    <2> HIDE DEF u
    <2>3. /\ Fits(a, a) /\ Works(J, Head(u), a, b, kk)
          /\ <<Tail(u), b, c, k>> \in J /\ Lands(J, kk, Tail(u), c, k)
      BY <1>5, <1>6, <1>7, <2>1, <2>2
    <2>4. Follows(J, u, a, c, k)
      BY <1>3, <2>2, <2>3 DEF Follows
    <2> QED
      BY <2>4 DEF u
  <1> QED
    BY <1>3, <1>4, <1>8, <1>9, TypedBy

\* An instruction that is no loop before a list without loops
LEMMA NoLoopCons ==
    ASSUME NEW i, ~IsLoop(i), NEW t, IsList(t), NoLoop(t)
    PROVE  NoLoop(<<i>> \o t)
  <1>1. <<i>> \in Seq({i}) /\ Len(<<i>>) = 1 /\ <<i>>[1] = i
    OBVIOUS
  <1>2. NoLoop(<<i>>)
    BY <1>1 DEF NoLoop
  <1>3. IsList(<<i>>)
    BY <1>1 DEF IsList
  <1> QED
    BY <1>2, <1>3, LoopInNone

\* The instructions, by what they are made of
LEMMA OkDoes ==
    ASSUME NEW i, NEW a, NEW b, NEW k, Does(i, a, b)
    PROVE  Ok(i, a, b, k)
  <1>1. Consistent({}) /\ Works({}, i, a, b, k)
    BY DEF Consistent, Works
  <1> QED
    BY <1>1 DEF Ok

\* Both branches lead to the same shape; one that reports an error starts with a failure.
LEMMA OkBranches ==
    ASSUME NEW i, i.op = "when", NEW a, NEW b, NEW k, Typed(i.then, a, b, k),
           Typed(i.else, IF i.report THEN Fail(a) ELSE a, b, k)
    PROVE  Ok(i, a, b, k)
  <1> DEFINE a1 == IF i.report THEN Fail(a) ELSE a
  <1>1. PICK G : Consistent(G) /\ <<i.then, a, b, k>> \in G
    BY DEF Typed
  <1>2. PICK H : Consistent(H) /\ <<i.else, a1, b, k>> \in H
    BY DEF Typed
  <1>3. Consistent(G \cup H)
    BY <1>1, <1>2, ConsistentUnion
  <1>4. Works(G \cup H, i, a, b, k)
    BY <1>1, <1>2 DEF Works
  <1> QED
    BY <1>3, <1>4 DEF Ok

\* A choice
LEMMA OkWhen ==
    ASSUME NEW test, NEW then, NEW else, NEW a, NEW b, NEW k, Typed(then, a, b, k), Typed(else, a, b, k)
    PROVE  Ok(when(test, then, else), a, b, k) /\ ~IsLoop(when(test, then, else))
  <1> DEFINE i == when(test, then, else)
  <1>1. i.op = "when" /\ i.report = FALSE /\ i.then = then /\ i.else = else
    BY DEF when
  <1> HIDE DEF i
  <1>2. Ok(i, a, b, k)
    BY <1>1, OkBranches
  <1> QED
    BY <1>1, <1>2 DEF IsLoop, i

\* A choice whose else branch reports an error
LEMMA OkAssert ==
    ASSUME NEW test, NEW then, NEW else, NEW a, NEW b, NEW k, Typed(then, a, b, k), Typed(else, Fail(a), b, k)
    PROVE  Ok(assert(test, then, else), a, b, k) /\ ~IsLoop(assert(test, then, else))
  <1> DEFINE i == assert(test, then, else)
  <1>1. i.op = "when" /\ i.report = TRUE /\ i.then = then /\ i.else = else
    BY DEF assert
  <1> HIDE DEF i
  <1>2. Ok(i, a, b, k)
    BY <1>1, OkBranches
  <1> QED
    BY <1>1, <1>2 DEF IsLoop, i

\* A choice with one branch
LEMMA OkUnless ==
    ASSUME NEW test, NEW else, NEW a \in Shape, NEW b \in Shape, NEW k \in SUBSET Shape,
           Fits(a, b), Typed(else, a, b, k)
    PROVE  Ok(unless(test, else), a, b, k) /\ ~IsLoop(unless(test, else))
  <1>1. Typed(<<>>, a, b, k)
    BY TypedEmpty
  <1> QED
    BY <1>1, OkWhen DEF unless

\* The body of a loop leads back to where it starts, and its breaks to the end.
LEMMA OkLoop ==
    ASSUME NEW i, IsLoop(i), NEW a \in Shape, NEW b, NEW k, NEW e \in Shape, Fits(a, e),
           Typed(i.body, e, e, {b}), i.op = "while" => Fits(e, b)
    PROVE  Ok(i, a, b, k)
  <1>1. PICK G : Consistent(G) /\ <<i.body, e, e, {b}>> \in G
    BY DEF Typed
  <1>2. Works(G, i, a, b, k)
    BY <1>1 DEF Works
  <1> QED
    BY <1>1, <1>2 DEF Ok

\* A loop with a test has the shape of its start at its end.
LEMMA OkWhile ==
    ASSUME NEW test, NEW body, NEW a \in Shape, NEW k, Typed(body, a, a, {a})
    PROVE  Ok(while(test, body), a, a, k)
  <1> DEFINE i == while(test, body)
  <1>1. i.op = "while" /\ i.body = body
    BY DEF while
  <1> HIDE DEF i
  <1>2. Fits(a, a) /\ IsLoop(i)
    BY <1>1, FitsPreorder DEF IsLoop
  <1>3. Ok(i, a, a, k)
    BY <1>1, <1>2, OkLoop
  <1> QED
    BY <1>3 DEF i

\* A loop without a test has the shape of its breaks at its end.
LEMMA OkForever ==
    ASSUME NEW body, NEW a \in Shape, NEW b, NEW k, Typed(body, a, a, {b})
    PROVE  Ok(forever(body), a, b, k)
  <1> DEFINE i == forever(body)
  <1>1. i.op = "forever" /\ i.body = body
    BY DEF forever
  <1> HIDE DEF i
  <1>2. Fits(a, a) /\ IsLoop(i)
    BY <1>1, FitsPreorder DEF IsLoop
  <1>3. Ok(i, a, b, k)
    BY <1>1, <1>2, OkLoop
  <1> QED
    BY <1>3 DEF i

\* A break to a shape that is expected
LEMMA OkBreak ==
    ASSUME NEW a, NEW b, NEW k, NEW e \in k, Fits(a, e)
    PROVE  Ok(break, a, b, k)
  <1>1. Consistent({}) /\ Works({}, break, a, b, k)
    BY DEF Consistent, Works, break
  <1> QED
    BY <1>1 DEF Ok

\* A call does what is known of its production.
LEMMA OkCall ==
    ASSUME NEW p, NEW a, NEW b, NEW k, Calls(p, a, b)
    PROVE  Ok(call(p), a, b, k)
  <1> DEFINE i == call(p)
  <1>1. i.op = "call" /\ i.of = p
    BY DEF call
  <1>2. Consistent({}) /\ Works({}, i, a, b, k)
    BY <1>1 DEF Consistent, Works
  <1> QED
    BY <1>2 DEF Ok

-----------------------------------------------------------------------------
(* One list after another                                                  *)

\* A judgement of a list that is followed by another follows from the judgements of both.
LEMMA ComposedIn ==
    ASSUME NEW G, Consistent(G), NEW t, NEW b, NEW c, NEW k1, NEW k,
           <<t, b, c, k>> \in G, Lands(G, k1, t, c, k),
           NEW u, NEW x, <<u, x, b, k1>> \in G,
           NEW H, G \subseteq H,
           \A v, y : <<v, y, b, k1>> \in G => <<v \o t, y, c, k>> \in H
    PROVE  IsList(u \o t) /\ x \in Shape /\ c \in Shape /\ k \in SUBSET Shape /\ Follows(H, u \o t, x, c, k)
  <1>1. /\ IsList(u) /\ x \in Shape /\ b \in Shape /\ k1 \in SUBSET Shape
        /\ Follows(G, u, x, b, k1)
    BY DEF Consistent
  <1>2. IsList(t) /\ c \in Shape /\ k \in SUBSET Shape /\ Follows(G, t, b, c, k)
    BY DEF Consistent
  <1>3. IsList(u \o t)
    BY <1>1, <1>2, ListConcat
  <1>4. CASE u = <<>>
    <2>1. Fits(x, b) /\ u \o t = t
      BY <1>1, <1>2, <1>4, ListConcat DEF Follows
    <2>2. Follows(G, t, x, c, k)
      BY <1>1, <1>2, <2>1, FollowsFits
    <2>3. Follows(H, t, x, c, k)
      BY <2>2, FollowsMonotone
    <2> QED
      BY <1>1, <1>2, <1>3, <2>1, <2>3
  <1>5. CASE u # <<>>
    <2>1. PICK x1 \in Shape, y \in Shape, kk \in SUBSET Shape :
                  /\ Fits(x, x1)
                  /\ Works(G, Head(u), x1, y, kk)
                  /\ <<Tail(u), y, b, k1>> \in G
                  /\ Lands(G, kk, Tail(u), b, k1)
      BY <1>1, <1>5 DEF Follows
    <2>2. /\ u \o t # <<>> /\ Head(u \o t) = Head(u) /\ Tail(u \o t) = Tail(u) \o t
          /\ IsList(Tail(u))
      BY <1>1, <1>2, <1>5, ListConcat
    <2>3. Works(H, Head(u), x1, y, kk) /\ <<Tail(u) \o t, y, c, k>> \in H
      BY <2>1, WorksMonotone
    <2>4. Lands(H, kk, Tail(u) \o t, c, k)
      <3> SUFFICES ASSUME NEW e \in kk
                   PROVE  \E e1 \in Shape :
                            /\ Fits(e, e1)
                            /\ NoLoop(Tail(u) \o t) => e1 \in k
                            /\ ~NoLoop(Tail(u) \o t) => <<AfterLoop(Tail(u) \o t), e1, c, k>> \in H
        BY DEF Lands
      <3>1. PICK e1 \in Shape : /\ Fits(e, e1)
                                /\ NoLoop(Tail(u)) => e1 \in k1
                                /\ ~NoLoop(Tail(u)) => <<AfterLoop(Tail(u)), e1, b, k1>> \in G
        BY <2>1 DEF Lands
      <3>2. CASE ~NoLoop(Tail(u))
        <4>1. ~NoLoop(Tail(u) \o t) /\ AfterLoop(Tail(u) \o t) = AfterLoop(Tail(u)) \o t
          BY <1>2, <2>2, <3>2, LoopInFirst
        <4>2. <<AfterLoop(Tail(u)) \o t, e1, c, k>> \in H
          BY <3>1, <3>2
        <4> QED
          BY <3>1, <4>1, <4>2
      <3>3. CASE NoLoop(Tail(u))
        <4>1. PICK e2 \in Shape : /\ Fits(e1, e2)
                                  /\ NoLoop(t) => e2 \in k
                                  /\ ~NoLoop(t) => <<AfterLoop(t), e2, c, k>> \in G
          BY <3>1, <3>3 DEF Lands
        <4>2. e \in Shape
          BY <2>1
        <4>3. Fits(e, e2)
          BY <3>1, <4>1, <4>2, FitsPreorder
        <4>4. CASE NoLoop(t)
          <5>1. NoLoop(Tail(u) \o t)
            BY <1>2, <2>2, <3>3, <4>4, LoopInNone
          <5> QED
            BY <4>1, <4>3, <4>4, <5>1
        <4>5. CASE ~NoLoop(t)
          <5>1. ~NoLoop(Tail(u) \o t) /\ AfterLoop(Tail(u) \o t) = AfterLoop(t)
            BY <1>2, <2>2, <3>3, <4>5, LoopInSecond
          <5>2. <<AfterLoop(t), e2, c, k>> \in H
            BY <4>1, <4>5
          <5> QED
            BY <4>3, <5>1, <5>2
        <4> QED
          BY <4>4, <4>5
      <3> QED
        BY <3>2, <3>3
    <2> DEFINE w == u \o t
    <2>5. w # <<>> /\ Head(w) = Head(u) /\ Tail(w) = Tail(u) \o t
      BY <2>2
    <2> HIDE DEF w
    <2>6. /\ Fits(x, x1) /\ Works(H, Head(w), x1, y, kk)
          /\ <<Tail(w), y, c, k>> \in H /\ Lands(H, kk, Tail(w), c, k)
      BY <2>1, <2>3, <2>4, <2>5
    <2>7. Follows(H, w, x, c, k)
      BY <2>5, <2>6 DEF Follows
    <2> QED
      BY <1>1, <1>2, <1>3, <2>7 DEF w
  <1> QED
    BY <1>4, <1>5

\* A list leads to where the one after it starts.
LEMMA Compose ==
    ASSUME NEW s, NEW t, NEW a, NEW b, NEW c, NEW k1, NEW k, Typed(s, a, b, k1), Typed(t, b, c, k),
           NEW G0, Consistent(G0), Lands(G0, k1, t, c, k)
    PROVE  Typed(s \o t, a, c, k)
  <1>1. PICK G1 : Consistent(G1) /\ <<s, a, b, k1>> \in G1
    BY DEF Typed
  <1>2. PICK G2 : Consistent(G2) /\ <<t, b, c, k>> \in G2
    BY DEF Typed
  <1> DEFINE G == (G0 \cup G1) \cup G2
             J == {<<q[1] \o t, q[2], c, k>> : q \in {p \in G : \E u, x : p = <<u, x, b, k1>>}}
             H == G \cup J
  <1>3. Consistent(G)
    BY <1>1, <1>2, ConsistentUnion
  <1>4. <<s, a, b, k1>> \in G /\ <<t, b, c, k>> \in G
    BY <1>1, <1>2
  <1>5. Lands(G, k1, t, c, k)
    <2>1. G0 \subseteq G
      OBVIOUS
    <2> HIDE DEF G
    <2> QED
      BY <2>1, LandsMonotone
  <1> HIDE DEF G
  <1>6. \A u, x : <<u, x, b, k1>> \in G => <<u \o t, x, c, k>> \in J
    <2> TAKE u, x
    <2> HAVE <<u, x, b, k1>> \in G
    <2> DEFINE q == <<u, x, b, k1>>
    <2>1. q \in {p \in G : \E v, y : p = <<v, y, b, k1>>}
      OBVIOUS
    <2>2. q[1] = u /\ q[2] = x
      OBVIOUS
    <2> HIDE DEF q
    <2>3. <<q[1] \o t, q[2], c, k>> \in J
      BY <2>1
    <2> QED
      BY <2>2, <2>3
  <1>7. \A r \in J : \E u, x : <<u, x, b, k1>> \in G /\ r = <<u \o t, x, c, k>>
    <2> TAKE r \in J
    <2>1. PICK q \in {p \in G : \E v, y : p = <<v, y, b, k1>>} : r = <<q[1] \o t, q[2], c, k>>
      OBVIOUS
    <2>2. PICK u, x : q = <<u, x, b, k1>>
      BY <2>1
    <2>3. q[1] = u /\ q[2] = x
      BY <2>2
    <2> QED
      BY <2>1, <2>2, <2>3
  <1> HIDE DEF J
  <1>8. G \subseteq H /\ \A v, y : <<v, y, b, k1>> \in G => <<v \o t, y, c, k>> \in H
    BY <1>6
  <1>9. Consistent(H)
    <2> SUFFICES ASSUME NEW u, NEW x, NEW y, NEW z, <<u, x, y, z>> \in H
                 PROVE  IsList(u) /\ x \in Shape /\ y \in Shape /\ z \in SUBSET Shape /\ Follows(H, u, x, y, z)
      BY DEF Consistent
    <2>1. CASE <<u, x, y, z>> \in G
      <3>1. IsList(u) /\ x \in Shape /\ y \in Shape /\ z \in SUBSET Shape /\ Follows(G, u, x, y, z)
        BY <1>3, <2>1 DEF Consistent
      <3> HIDE DEF H
      <3> QED
        BY <1>8, <3>1, FollowsMonotone
    <2>2. CASE <<u, x, y, z>> \in J
      <3>1. PICK v, w : <<v, w, b, k1>> \in G /\ <<u, x, y, z>> = <<v \o t, w, c, k>>
        BY <1>7, <2>2
      <3>2. u = v \o t /\ x = w /\ y = c /\ z = k
        BY <3>1
      <3> HIDE DEF H
      <3>3. /\ IsList(v \o t) /\ w \in Shape /\ c \in Shape /\ k \in SUBSET Shape
            /\ Follows(H, v \o t, w, c, k)
        BY <1>3, <1>4, <1>5, <1>8, <3>1, ComposedIn
      <3> QED
        BY <3>2, <3>3
    <2> QED
      BY <2>1, <2>2
  <1>10. <<s \o t, a, c, k>> \in H
    BY <1>4, <1>6
  <1> HIDE DEF H
  <1> QED
    BY <1>9, <1>10 DEF Typed

-----------------------------------------------------------------------------
(* The instructions on stacks of given shapes                              *)

\* Shapes of counts and modes
LEMMA ShapesAre == \A l \in Int, s \in Int : \A h \in Nat, m \in 0 .. 3 : Sh(h, l, s, m) \in Shape
  BY DEF Sh, Shape

\* Which shapes fit, with the same counts
LEMMA ShFits ==
    \A h, l, s : /\ Fits(Sh(h, l, s, 0), Sh(h, l, s, 0)) /\ Fits(Sh(h, l, s, 0), Sh(h, l, s, 1))
                 /\ Fits(Sh(h, l, s, 0), Sh(h, l, s, 2)) /\ Fits(Sh(h, l, s, 0), Sh(h, l, s, 3))
                 /\ Fits(Sh(h, l, s, 1), Sh(h, l, s, 1)) /\ Fits(Sh(h, l, s, 2), Sh(h, l, s, 2))
                 /\ Fits(Sh(h, l, s, 2), Sh(h, l, s, 3)) /\ Fits(Sh(h, l, s, 3), Sh(h, l, s, 3))
  BY DEF Fits, Sh

\* A failure keeps the counts.
LEMMA FailSh == \A h, l, s, m : Fail(Sh(h, l, s, m)) = Sh(h, l, s, 0)
  BY DEF Fail, Sh, Failed

\* Tokens and locals do not concern the stack.
LEMMA OkStay ==
    ASSUME NEW a, NEW k
    PROVE  /\ Ok(next, a, a, k) /\ Ok(take, a, a, k) /\ Ok(fetch, a, a, k) /\ Ok(look, a, a, k)
           /\ \A types : Ok(resync(types), a, a, k)
  BY OkDoes DEF Does, next, take, fetch, look, resync

\* A reported error is a failure.
LEMMA OkReport ==
    ASSUME NEW h, NEW l, NEW s, NEW m, NEW k
    PROVE  Ok(report, Sh(h, l, s, m), Sh(h, l, s, 0), k) /\ Ok(report_stale, Sh(h, l, s, m), Sh(h, l, s, 0), k)
  <1>1. Does(report, Sh(h, l, s, m), Sh(h, l, s, 0))
    BY FailSh DEF Does, report
  <1>2. report_stale.op = "stale" /\ report_stale.report = TRUE
    BY DEF report_stale, stale
  <1>3. Does(report_stale, Sh(h, l, s, m), Sh(h, l, s, 0))
    BY <1>2, FailSh DEF Does
  <1> QED
    BY <1>1, <1>3, OkDoes

\* A stale token is read where an error was reported.
LEMMA OkStale ==
    ASSUME NEW h, NEW l, NEW s, NEW k
    PROVE  Ok(stale, Sh(h, l, s, 0), Sh(h, l, s, 0), k)
  <1>1. stale.op = "stale" /\ stale.report = FALSE
    BY DEF stale
  <1>2. Does(stale, Sh(h, l, s, 0), Sh(h, l, s, 0))
    BY <1>1, FailSh, ShParts DEF Does, Failed
  <1> QED
    BY <1>2, OkDoes

\* The token that was kept is pushed.
LEMMA OkLeaf ==
    ASSUME NEW h \in Nat, NEW l, NEW s, NEW m \in 0 .. 2, NEW k,
           NEW g, g = h + 1, NEW n, n = Kept(m)
    PROVE  Ok(leaf, Sh(h, l, s, m), Sh(g, l, s, n), k)
  <1> DEFINE a == Sh(h, l, s, m)
             i == leaf
  <1>1. a.height = h /\ a.loops = l /\ a.scopes = s /\ a.mode = m
    BY ShParts
  <1>2. i.op = "leaf"
    BY DEF leaf
  <1> HIDE DEF a, i
  <1>3. Does(i, a, Sh(g, l, s, n))
    BY <1>1, <1>2 DEF Does, Sound, Failed, Loose, Designates
  <1> QED
    BY <1>3, OkDoes DEF a, i

\* The token that was peeked is pushed.
LEMMA OkValue ==
    ASSUME NEW h \in Nat, NEW l, NEW s, NEW m \in 0 .. 2, NEW k,
           NEW g, g = h + 1, NEW n, n = Kept(m)
    PROVE  Ok(value, Sh(h, l, s, m), Sh(g, l, s, n), k)
  <1> DEFINE a == Sh(h, l, s, m)
             i == value
  <1>1. a.height = h /\ a.loops = l /\ a.scopes = s /\ a.mode = m
    BY ShParts
  <1>2. i.op = "value"
    BY DEF value
  <1> HIDE DEF a, i
  <1>3. Does(i, a, Sh(g, l, s, n))
    BY <1>1, <1>2 DEF Does, Sound, Failed, Loose, Designates
  <1> QED
    BY <1>3, OkDoes DEF a, i

\* A leaf that is not null is pushed.
LEMMA OkPush ==
    ASSUME NEW kind, kind \notin NodeKinds, NEW h \in Nat, NEW l, NEW s, NEW m \in 0 .. 2, NEW k,
           NEW g, g = h + 1, NEW n, n = Kept(m)
    PROVE  Ok(push(kind), Sh(h, l, s, m), Sh(g, l, s, n), k)
  <1> DEFINE a == Sh(h, l, s, m)
             i == push(kind)
  <1>1. a.height = h /\ a.loops = l /\ a.scopes = s /\ a.mode = m
    BY ShParts
  <1>2. i.op = "push" /\ i.kind = kind
    BY DEF push
  <1> HIDE DEF a, i
  <1>3. Does(i, a, Sh(g, l, s, n))
    BY <1>1, <1>2 DEF Does, Sound, Failed, Loose, Designates
  <1> QED
    BY <1>3, OkDoes DEF a, i

\* A null is pushed: the stack is loose.
LEMMA OkNull ==
    ASSUME NEW h \in Nat, NEW l, NEW s, NEW m \in 0 .. 2, NEW k,
           NEW g, g = h + 1, NEW n, n = IF m = 0 THEN 0 ELSE 3
    PROVE  Ok(null, Sh(h, l, s, m), Sh(g, l, s, n), k)
  <1> DEFINE a == Sh(h, l, s, m)
             i == null
  <1>1. a.height = h /\ a.loops = l /\ a.scopes = s /\ a.mode = m
    BY ShParts
  <1>2. i.op = "push" /\ i.kind = "null"
    BY DEF null, push
  <1> HIDE DEF a, i
  <1>3. Sh(g, l, s, n) = Sh(a.height + 1, a.loops, a.scopes, IF a.mode = Failed THEN Failed ELSE Loose) /\ a.mode <= Sound
    BY <1>1 DEF Failed, Loose, Sound
  <1>4. Does(i, a, Sh(g, l, s, n))
    BY <1>1, <1>2, <1>3 DEF Does, Sound, Failed, Loose, Designates
  <1> QED
    BY <1>4, OkDoes DEF a, i

\* The value on the top is appended to the one below it.
LEMMA OkAppend ==
    ASSUME NEW h \in Nat, NEW l, NEW s, NEW m \in 0 .. 2, NEW k,
           NEW g, h >= 2, g = h - 1, NEW n, n = Kept(m)
    PROVE  Ok(append, Sh(h, l, s, m), Sh(g, l, s, n), k)
  <1> DEFINE a == Sh(h, l, s, m)
             i == append
  <1>1. a.height = h /\ a.loops = l /\ a.scopes = s /\ a.mode = m
    BY ShParts
  <1>2. i.op = "append"
    BY DEF append
  <1> HIDE DEF a, i
  <1>3. Sh(g, l, s, n) = Sh(a.height - 1, a.loops, a.scopes, Kept(a.mode)) /\ a.mode <= Sound /\ a.height >= 2
    BY <1>1 DEF Sound
  <1>4. Does(i, a, Sh(g, l, s, n))
    BY <1>1, <1>2, <1>3 DEF Does, Sound, Failed, Loose, Designates
  <1> QED
    BY <1>4, OkDoes DEF a, i

\* A statement is appended unless it is null.
LEMMA OkAdd ==
    ASSUME NEW h \in Nat, NEW l, NEW s, NEW m \in 0 .. 3, NEW k,
           NEW g, h >= 2, g = h - 1, NEW n, n = Kept(m)
    PROVE  Ok(add, Sh(h, l, s, m), Sh(g, l, s, n), k)
  <1> DEFINE a == Sh(h, l, s, m)
             i == add
  <1>1. a.height = h /\ a.loops = l /\ a.scopes = s /\ a.mode = m
    BY ShParts
  <1>2. i.op = "add"
    BY DEF add
  <1> HIDE DEF a, i
  <1>3. Sh(g, l, s, n) = Sh(a.height - 1, a.loops, a.scopes, Kept(a.mode)) /\ a.height >= 2
    BY <1>1
  <1>4. Does(i, a, Sh(g, l, s, n))
    BY <1>1, <1>2, <1>3 DEF Does, Sound, Failed, Loose, Designates
  <1> QED
    BY <1>4, OkDoes DEF a, i

\* Values are dropped.
LEMMA OkDrop ==
    ASSUME NEW j \in Nat, NEW h \in Nat, NEW l, NEW s, NEW m \in 0 .. 2, NEW k,
           NEW g, h = g + j, NEW n, n = Kept(m), g \in Nat
    PROVE  Ok(drop(j), Sh(h, l, s, m), Sh(g, l, s, n), k)
  <1> DEFINE a == Sh(h, l, s, m)
             i == drop(j)
  <1>1. a.height = h /\ a.loops = l /\ a.scopes = s /\ a.mode = m
    BY ShParts
  <1>2. i.op = "drop" /\ i.n = j
    BY DEF drop
  <1> HIDE DEF a, i
  <1>3. Does(i, a, Sh(g, l, s, n))
    BY <1>1, <1>2 DEF Does, Sound, Failed, Loose, Designates
  <1> QED
    BY <1>3, OkDoes DEF a, i

\* A node is made of the values on the top.
LEMMA OkMake ==
    ASSUME NEW kind, kind \notin NodeKinds, NEW j \in Nat,
           NEW h \in Nat, NEW l, NEW s, NEW m \in 0 .. 2, NEW k,
           NEW g, g = h - j + 1, h >= j, NEW n, n = Kept(m)
    PROVE  Ok(make(kind, j), Sh(h, l, s, m), Sh(g, l, s, n), k)
  <1> DEFINE a == Sh(h, l, s, m)
             i == make(kind, j)
  <1>1. a.height = h /\ a.loops = l /\ a.scopes = s /\ a.mode = m
    BY ShParts
  <1>2. i.op = "make" /\ i.kind = kind /\ i.n = j
    BY DEF make
  <1> HIDE DEF a, i
  <1>3. Does(i, a, Sh(g, l, s, n))
    BY <1>1, <1>2 DEF Does, Sound, NodeKinds
  <1> QED
    BY <1>3, OkDoes DEF a, i

\* An index or actual parameters have a list below them.
LEMMA OkMakeOne ==
    ASSUME NEW kind \in {"index", "parameters"},
           NEW h \in Nat, NEW l, NEW s, NEW m \in 0 .. 2, NEW k,
           NEW g, g = h, h >= 1, NEW n, n = Kept(m)
    PROVE  Ok(make(kind, 1), Sh(h, l, s, m), Sh(g, l, s, n), k)
  <1> DEFINE a == Sh(h, l, s, m)
             i == make(kind, 1)
  <1>1. a.height = h /\ a.loops = l /\ a.scopes = s /\ a.mode = m
    BY ShParts
  <1>2. i.op = "make" /\ i.kind = kind /\ i.n = 1
    BY DEF make
  <1> HIDE DEF a, i
  <1>3. Sh(g, l, s, n) = Sh(a.height - 1 + 1, a.loops, a.scopes, Kept(a.mode)) /\ kind # "null" /\ kind # "designator"
    BY <1>1
  <1>4. Does(i, a, Sh(g, l, s, n))
    BY <1>1, <1>2, <1>3 DEF Does, Sound
  <1> QED
    BY <1>4, OkDoes DEF a, i

\* The name of a procedure becomes its heading.
LEMMA OkMakeHeading ==
    ASSUME NEW h \in Nat, NEW l, NEW s, NEW k
    PROVE  Ok(make("heading", 1), Sh(h + 2, l, s, 2), Sh(h + 2, l, s, 2), k)
  <1> DEFINE a == Sh(h + 2, l, s, 2)
             i == make("heading", 1)
  <1>1. a.height = h + 2 /\ a.loops = l /\ a.scopes = s /\ a.mode = 2
    BY ShParts
  <1>2. i.op = "make" /\ i.kind = "heading" /\ i.n = 1
    BY DEF make
  <1> HIDE DEF a, i
  <1>3. Sh(h + 2, l, s, 2) = Sh(a.height - 1 + 1, a.loops, a.scopes, Kept(a.mode))
    BY <1>1 DEF Kept, Failed, Sound
  <1>4. Does(i, a, Sh(h + 2, l, s, 2))
    BY <1>1, <1>2, <1>3 DEF Does, Sound
  <1> QED
    BY <1>4, OkDoes DEF a, i

\* A designator has a name and selectors.
LEMMA OkMakeDesignator ==
    ASSUME NEW h \in Nat, NEW l, NEW s, NEW m \in 0 .. 2, NEW k,
           NEW g, g = h - 1, h >= 2, NEW n, n = IF m = 0 THEN 0 ELSE 1
    PROVE  Ok(make("designator", 2), Sh(h, l, s, m), Sh(g, l, s, n), k)
  <1> DEFINE a == Sh(h, l, s, m)
             i == make("designator", 2)
  <1>1. a.height = h /\ a.loops = l /\ a.scopes = s /\ a.mode = m
    BY ShParts
  <1>2. i.op = "make" /\ i.kind = "designator" /\ i.n = 2
    BY DEF make
  <1> HIDE DEF a, i
  <1>3. Sh(g, l, s, n) = Sh(a.height - 2 + 1, a.loops, a.scopes, IF a.mode # Failed THEN Designates ELSE Kept(a.mode)) /\ a.mode <= Sound
    BY <1>1 DEF Failed, Designates, Kept, Sound
  <1>4. Does(i, a, Sh(g, l, s, n))
    BY <1>1, <1>2, <1>3 DEF Does, Sound, Failed, Loose, Designates
  <1> QED
    BY <1>4, OkDoes DEF a, i

\* A semantic action makes a node of its operands.
LEMMA OkSema ==
    ASSUME NEW kind \in SemaKinds \ {"qualified", "call"}, NEW j \in Nat, kind \in LookingInto => j = 1,
           NEW h \in Nat, NEW l, NEW s, NEW m \in 0 .. 2, NEW k,
           NEW g, g = h - j + 1, h >= j, NEW n, n = Kept(m)
    PROVE  Ok(sema(kind, j), Sh(h, l, s, m), Sh(g, l, s, n), k)
  <1> DEFINE a == Sh(h, l, s, m)
             i == sema(kind, j)
  <1>1. a.height = h /\ a.loops = l /\ a.scopes = s /\ a.mode = m
    BY ShParts
  <1>2. i.op = "sema" /\ i.kind = kind /\ i.n = j
    BY DEF sema
  <1> HIDE DEF a, i
  <1>3. Does(i, a, Sh(g, l, s, n))
    BY <1>1, <1>2 DEF Does, Sound, Failed, Loose, Designates
  <1> QED
    BY <1>3, OkDoes DEF a, i

\* A semantic action looks into the designator on the top.
LEMMA OkDesignated ==
    ASSUME NEW kind \in {"qualified", "call"},
           NEW h \in Nat, NEW l, NEW s, NEW m \in 0 .. 1, NEW k,
           NEW g, g = h, h >= 1, NEW n, n = Kept(m)
    PROVE  Ok(sema(kind, 1), Sh(h, l, s, m), Sh(g, l, s, n), k)
  <1> DEFINE a == Sh(h, l, s, m)
             i == sema(kind, 1)
  <1>1. a.height = h /\ a.loops = l /\ a.scopes = s /\ a.mode = m
    BY ShParts
  <1>2. i.op = "sema" /\ i.kind = kind /\ i.n = 1
    BY DEF sema
  <1> HIDE DEF a, i
  <1>3. Does(i, a, Sh(g, l, s, n))
    BY <1>1, <1>2 DEF Does, Sound, SemaKinds, LookingInto, Designates
  <1> QED
    BY <1>3, OkDoes DEF a, i

\* A loop statement is entered.
LEMMA OkEnterLoop ==
    ASSUME NEW h, NEW l, NEW s, l \in Int, NEW m, NEW k
    PROVE  Ok(loop(1), Sh(h, l, s, m), Sh(h, l + 1, s, m), k) /\ ~IsLoop(loop(1))
  <1> DEFINE i == loop(1)
  <1>1. i.op = "count" /\ i.of = "loops" /\ i.by = 1
    BY DEF loop
  <1> HIDE DEF i
  <1>2. Does(i, Sh(h, l, s, m), Sh(h, l + 1, s, m))
    <2>1. i.by \in Int /\ l + 1 + -1 = l
      BY <1>1
    <2> QED
      BY <1>1, <2>1, ShParts DEF Does
  <1>3. Ok(i, Sh(h, l, s, m), Sh(h, l + 1, s, m), k)
    BY <1>2, OkDoes
  <1> QED
    BY <1>1, <1>3 DEF i, IsLoop

\* A loop statement is left.
LEMMA OkLeaveLoop ==
    ASSUME NEW h, NEW l, NEW s, l \in Int, NEW m, NEW k
    PROVE  Ok(loop(-1), Sh(h, l + 1, s, m), Sh(h, l, s, m), k) /\ ~IsLoop(loop(-1))
  <1> DEFINE i == loop(-1)
  <1>1. i.op = "count" /\ i.of = "loops" /\ i.by = -1
    BY DEF loop
  <1> HIDE DEF i
  <1>2. Does(i, Sh(h, l + 1, s, m), Sh(h, l, s, m))
    <2>1. i.by \in Int /\ l + 1 + -1 = l
      BY <1>1
    <2> QED
      BY <1>1, <2>1, ShParts DEF Does
  <1>3. Ok(i, Sh(h, l + 1, s, m), Sh(h, l, s, m), k)
    BY <1>2, OkDoes
  <1> QED
    BY <1>1, <1>3 DEF i, IsLoop

\* A scope is entered.
LEMMA OkEnterScope ==
    ASSUME NEW h, NEW l, NEW s, s \in Int, NEW m, NEW k
    PROVE  Ok(scope(1), Sh(h, l, s, m), Sh(h, l, s + 1, m), k) /\ ~IsLoop(scope(1))
  <1> DEFINE i == scope(1)
  <1>1. i.op = "count" /\ i.of = "scopes" /\ i.by = 1
    BY DEF scope
  <1> HIDE DEF i
  <1>2. Does(i, Sh(h, l, s, m), Sh(h, l, s + 1, m))
    <2>1. i.by \in Int /\ s + 1 + -1 = s
      BY <1>1
    <2> QED
      BY <1>1, <2>1, ShParts DEF Does
  <1>3. Ok(i, Sh(h, l, s, m), Sh(h, l, s + 1, m), k)
    BY <1>2, OkDoes
  <1> QED
    BY <1>1, <1>3 DEF i, IsLoop

\* A scope is left.
LEMMA OkLeaveScope ==
    ASSUME NEW h, NEW l, NEW s, s \in Int, NEW m, NEW k
    PROVE  Ok(scope(-1), Sh(h, l, s + 1, m), Sh(h, l, s, m), k) /\ ~IsLoop(scope(-1))
  <1> DEFINE i == scope(-1)
  <1>1. i.op = "count" /\ i.of = "scopes" /\ i.by = -1
    BY DEF scope
  <1> HIDE DEF i
  <1>2. Does(i, Sh(h, l, s + 1, m), Sh(h, l, s, m))
    <2>1. i.by \in Int /\ s + 1 + -1 = s
      BY <1>1
    <2> QED
      BY <1>1, <2>1, ShParts DEF Does
  <1>3. Ok(i, Sh(h, l, s + 1, m), Sh(h, l, s, m), k)
    BY <1>2, OkDoes
  <1> QED
    BY <1>1, <1>3 DEF i, IsLoop

\* A pointer on the stack is followed.
LEMMA OkDeref ==
    ASSUME NEW d \in Nat \ {0}, NEW h \in Nat, NEW l, NEW s, NEW m \in 0 .. 2, NEW k,
           NEW g, g = h, NEW n, n = m, d <= h
    PROVE  Ok(deref(d), Sh(h, l, s, m), Sh(g, l, s, n), k)
  <1> DEFINE a == Sh(h, l, s, m)
             i == deref(d)
  <1>1. a.height = h /\ a.loops = l /\ a.scopes = s /\ a.mode = m
    BY ShParts
  <1>2. i.op = "deref" /\ i.depth = d /\ i.report = FALSE
    BY DEF deref
  <1> HIDE DEF a, i
  <1>3. Sh(g, l, s, n) = a
    BY DEF a
  <1>4. Does(i, a, Sh(g, l, s, n))
    BY <1>1, <1>2, <1>3 DEF Does, Sound, Failed, Loose, Designates
  <1> QED
    BY <1>4, OkDoes DEF a, i

\* The same, where a null is reported
LEMMA OkNeeds ==
    ASSUME NEW d \in Nat \ {0}, NEW h \in Nat, NEW l, NEW s, NEW m \in 0 .. 2, NEW k,
           NEW g, g = h, NEW n, n = m, d <= h
    PROVE  Ok(needs(d), Sh(h, l, s, m), Sh(g, l, s, n), k)
  <1> DEFINE a == Sh(h, l, s, m)
             i == needs(d)
  <1>1. a.height = h /\ a.loops = l /\ a.scopes = s /\ a.mode = m
    BY ShParts
  <1>2. i.op = "deref" /\ i.depth = d /\ i.report = TRUE
    BY DEF needs, deref
  <1> HIDE DEF a, i
  <1>3. Sh(g, l, s, n) = a
    BY DEF a
  <1>4. Does(i, a, Sh(g, l, s, n))
    BY <1>1, <1>2, <1>3 DEF Does, Sound, Failed, Loose, Designates
  <1> QED
    BY <1>4, OkDoes DEF a, i

Pushers ==
    {"ident", "qualident", "identdef", "ident_list", "module", "import_list", "declarations",
     "const_declarations", "type_declarations", "var_declarations", "type", "array_type", "record_type",
     "pointer_type", "procedure_type", "formal_parameters", "formal_type", "statement_sequence",
     "if_statement", "loop_statement", "while_statement", "repeat_statement", "for_statement",
     "case_statement", "expression_list", "expression", "simple_expression", "term", "factor", "basic_factor",
     "selector", "set", "range_expression", "range_expression_list"}
\* What the names of productions are
LEMMA ProductionNames ==
    DOMAIN Production = Pushers \cup Appenders \cup {"statement", "designator", "procedure_body"}
  BY DEF Production, Pushers, Appenders

\* A production that pushes a value
LEMMA OkPushes ==
    ASSUME NEW p \in Pushers, NEW h \in Nat, NEW l, NEW s, NEW m \in 0 .. 2, NEW k, NEW g, g = h + 1
    PROVE  Ok(call(p), Sh(h, l, s, m), Sh(g, l, s, 2), k)
  <1>1. p \in DOMAIN Production
    BY ProductionNames
  <1>2. p \notin Appenders /\ Gain(p) = 1 /\ Post(p) = 2
    BY DEF Pushers, Appenders, Gain, Post, Sound
  <1>3. Calls(p, Sh(h, l, s, m), Sh(g, l, s, 2))
    BY <1>1, <1>2, ShParts DEF Calls, Sound
  <1> QED
    BY <1>3, OkCall

\* A production that adds to the value on the top
LEMMA OkAdds ==
    ASSUME NEW p \in Appenders, NEW h \in Nat, NEW l, NEW s, NEW m \in 0 .. 2, NEW k, h >= 1
    PROVE  Ok(call(p), Sh(h, l, s, m), Sh(h, l, s, 2), k)
  <1>1. p \in DOMAIN Production
    BY ProductionNames
  <1>2. Gain(p) = 0 /\ Post(p) = 2
    BY DEF Appenders, Gain, Post, Sound
  <1>3. Calls(p, Sh(h, l, s, m), Sh(h, l, s, 2))
    BY <1>1, <1>2, ShParts DEF Calls, Sound
  <1> QED
    BY <1>3, OkCall

\* A statement, which may be null
LEMMA OkStatement ==
    ASSUME NEW h \in Nat, NEW l, NEW s, NEW m \in 0 .. 2, NEW k, NEW g, g = h + 1
    PROVE  Ok(call("statement"), Sh(h, l, s, m), Sh(g, l, s, 3), k)
  <1>1. "statement" \in DOMAIN Production
    BY ProductionNames
  <1>2. "statement" \notin Appenders /\ Gain("statement") = 1 /\ Post("statement") = 3
    BY DEF Appenders, Gain, Post, Sound, Loose, Designates
  <1>3. Calls("statement", Sh(h, l, s, m), Sh(g, l, s, 3))
    BY <1>1, <1>2, ShParts DEF Calls, Sound
  <1> QED
    BY <1>3, OkCall

\* A designator
LEMMA OkDesignator ==
    ASSUME NEW h \in Nat, NEW l, NEW s, NEW m \in 0 .. 2, NEW k, NEW g, g = h + 1
    PROVE  Ok(call("designator"), Sh(h, l, s, m), Sh(g, l, s, 1), k)
  <1>1. "designator" \in DOMAIN Production
    BY ProductionNames
  <1>2. "designator" \notin Appenders /\ Gain("designator") = 1 /\ Post("designator") = 1
    BY DEF Appenders, Gain, Post, Sound, Loose, Designates
  <1>3. Calls("designator", Sh(h, l, s, m), Sh(g, l, s, 1))
    BY <1>1, <1>2, ShParts DEF Calls, Sound
  <1> QED
    BY <1>3, OkCall

\* The body of a procedure: declarations and statements
LEMMA OkBody ==
    ASSUME NEW h \in Nat, NEW l, NEW s, NEW m \in 0 .. 2, NEW k, NEW g, g = h + 2
    PROVE  Ok(call("procedure_body"), Sh(h, l, s, m), Sh(g, l, s, 2), k)
  <1>1. "procedure_body" \in DOMAIN Production
    BY ProductionNames
  <1>2. "procedure_body" \notin Appenders /\ Gain("procedure_body") = 2 /\ Post("procedure_body") = 2
    BY DEF Appenders, Gain, Post, Sound, Loose, Designates
  <1>3. Calls("procedure_body", Sh(h, l, s, m), Sh(g, l, s, 2))
    BY <1>1, <1>2, ShParts DEF Calls, Sound
  <1> QED
    BY <1>3, OkCall

\* The kinds of leaves and nodes in productions that no action tells apart
LEMMA OtherKinds ==
    /\ "alias" \notin NodeKinds
    /\ "arm" \notin NodeKinds
    /\ "assignment" \notin NodeKinds
    /\ "const" \notin NodeKinds
    /\ "declarations" \notin NodeKinds
    /\ "dereference" \notin NodeKinds
    /\ "elsif" \notin NodeKinds
    /\ "exported" \notin NodeKinds
    /\ "external" \notin NodeKinds
    /\ "field" \notin NodeKinds
    /\ "fields" \notin NodeKinds
    /\ "formal_type" \notin NodeKinds
    /\ "formals" \notin NodeKinds
    /\ "import" \notin NodeKinds
    /\ "loop" \notin NodeKinds
    /\ "pointer" \notin NodeKinds
    /\ "qualident" \notin NodeKinds
    /\ "record" \notin NodeKinds
    /\ "repeat" \notin NodeKinds
    /\ "return" \notin NodeKinds
    /\ "section" \notin NodeKinds
    /\ "signature" \notin NodeKinds
    /\ "type" \notin NodeKinds
    /\ "var" \notin NodeKinds
    /\ "while" \notin NodeKinds
    /\ "dimension" \notin NodeKinds
    /\ "list" \notin NodeKinds
    /\ "none" \notin NodeKinds
    /\ "statements" \notin NodeKinds
    /\ "undef" \notin NodeKinds
    /\ "varargs" \notin NodeKinds
    /\ "VAR" \notin NodeKinds
  BY DEF NodeKinds

\* Only while and forever are loops.
LEMMA NotLoops ==
    /\ ~IsLoop(next) /\ ~IsLoop(take) /\ ~IsLoop(fetch) /\ ~IsLoop(look) /\ ~IsLoop(report)
    /\ ~IsLoop(report_stale) /\ ~IsLoop(append) /\ ~IsLoop(add) /\ ~IsLoop(break) /\ ~IsLoop(list)
    /\ ~IsLoop(leaf) /\ ~IsLoop(value) /\ ~IsLoop(null) /\ ~IsLoop(statements)
    /\ \A kind : ~IsLoop(push(kind))
    /\ \A d : ~IsLoop(deref(d)) /\ ~IsLoop(needs(d))
    /\ \A types : ~IsLoop(resync(types))
    /\ \A n : ~IsLoop(drop(n))
    /\ \A p : ~IsLoop(call(p))
    /\ \A kind, n : ~IsLoop(make(kind, n)) /\ ~IsLoop(sema(kind, n))
  BY DEF IsLoop, next, take, fetch, look, report, report_stale, stale, append, add, break, list, leaf, value, null,
         statements, deref, needs, push, resync,
         drop, call, make, sema

\* Two instructions are one after the other.
LEMMA PairConcat ==
    ASSUME NEW i1, NEW i2
    PROVE  <<i1, i2>> = <<i1>> \o <<i2>>
  <1> DEFINE p == <<i1, i2>>
             q == <<i1>> \o <<i2>>
  <1>1. <<i1>> \in Seq({i1, i2}) /\ <<i2>> \in Seq({i1, i2}) /\ p \in Seq({i1, i2})
    OBVIOUS
  <1>2. Len(q) = 2 /\ q[1] = i1 /\ q[2] = i2
    OBVIOUS
  <1>3. q \in Seq({i1, i2})
    BY <1>1, ConcatProperties
  <1>4. Len(p) = 2 /\ p[1] = i1 /\ p[2] = i2
    OBVIOUS
  <1> HIDE DEF p, q
  <1>5. \A j \in 1 .. Len(p) : p[j] = q[j]
    BY <1>2, <1>4
  <1>6. p = q
    BY <1>1, <1>2, <1>3, <1>4, <1>5, SeqEqual
  <1> QED
    BY <1>6 DEF p, q

(* A list of n instructions: outside of a loop, and in a loop with a break *)

\* 1 instruction in a row
LEMMA Block1 ==
    ASSUME NEW i1, NEW s1, NEW s2, NEW c,
           s1 \in Shape, s2 \in Shape, c \in Shape,
           Ok(i1, s1, s2, {}), Fits(s2, c)
    PROVE  Typed(<<i1>>, s1, c, {})
  <1>1. Typed(<<>>, s2, c, {})
    BY TypedEmpty
  <1>2. <<i1>> = <<i1>> \o <<>>
    BY ConcatEmptySeq, <<i1>> \in Seq({i1})
  <1> QED
    BY <1>1, <1>2, TypedCons

\* 2 instructions in a row
LEMMA Block2 ==
    ASSUME NEW i1, NEW i2, NEW s1, NEW s2, NEW s3, NEW c,
           s1 \in Shape, s2 \in Shape, s3 \in Shape, c \in Shape,
           Ok(i1, s1, s2, {}), Ok(i2, s2, s3, {}), Fits(s3, c)
    PROVE  Typed(<<i1, i2>>, s1, c, {})
  <1>1. Typed(<<i2>>, s2, c, {})
    BY Block1
  <1>2. <<i1, i2>> = <<i1>> \o <<i2>>
    BY PairConcat
  <1> QED
    BY <1>1, <1>2, TypedCons

\* 3 instructions in a row
LEMMA Block3 ==
    ASSUME NEW i1, NEW i2, NEW i3, NEW s1, NEW s2, NEW s3, NEW s4, NEW c,
           s1 \in Shape, s2 \in Shape, s3 \in Shape, s4 \in Shape, c \in Shape,
           Ok(i1, s1, s2, {}), Ok(i2, s2, s3, {}), Ok(i3, s3, s4, {}), Fits(s4, c)
    PROVE  Typed(<<i1, i2, i3>>, s1, c, {})
  <1>1. Typed(<<i2, i3>>, s2, c, {})
    BY Block2
  <1>2. <<i1, i2, i3>> = <<i1>> \o <<i2, i3>>
    OBVIOUS
  <1> QED
    BY <1>1, <1>2, TypedCons

\* 4 instructions in a row
LEMMA Block4 ==
    ASSUME NEW i1, NEW i2, NEW i3, NEW i4, NEW s1, NEW s2, NEW s3, NEW s4, NEW s5, NEW c,
           s1 \in Shape, s2 \in Shape, s3 \in Shape, s4 \in Shape, s5 \in Shape, c \in Shape,
           Ok(i1, s1, s2, {}), Ok(i2, s2, s3, {}), Ok(i3, s3, s4, {}), Ok(i4, s4, s5, {}), Fits(s5, c)
    PROVE  Typed(<<i1, i2, i3, i4>>, s1, c, {})
  <1>1. Typed(<<i2, i3, i4>>, s2, c, {})
    BY Block3
  <1>2. <<i1, i2, i3, i4>> = <<i1>> \o <<i2, i3, i4>>
    OBVIOUS
  <1> QED
    BY <1>1, <1>2, TypedCons

\* 5 instructions in a row
LEMMA Block5 ==
    ASSUME NEW i1, NEW i2, NEW i3, NEW i4, NEW i5, NEW s1, NEW s2, NEW s3, NEW s4, NEW s5, NEW s6, NEW c,
           s1 \in Shape, s2 \in Shape, s3 \in Shape, s4 \in Shape, s5 \in Shape, s6 \in Shape,
           c \in Shape,
           Ok(i1, s1, s2, {}), Ok(i2, s2, s3, {}), Ok(i3, s3, s4, {}), Ok(i4, s4, s5, {}),
           Ok(i5, s5, s6, {}), Fits(s6, c)
    PROVE  Typed(<<i1, i2, i3, i4, i5>>, s1, c, {})
  <1>1. Typed(<<i2, i3, i4, i5>>, s2, c, {})
    BY Block4
  <1>2. <<i1, i2, i3, i4, i5>> = <<i1>> \o <<i2, i3, i4, i5>>
    OBVIOUS
  <1> QED
    BY <1>1, <1>2, TypedCons

\* 6 instructions in a row
LEMMA Block6 ==
    ASSUME NEW i1, NEW i2, NEW i3, NEW i4, NEW i5, NEW i6, NEW s1, NEW s2, NEW s3, NEW s4, NEW s5, NEW s6,
           NEW s7, NEW c,
           s1 \in Shape, s2 \in Shape, s3 \in Shape, s4 \in Shape, s5 \in Shape, s6 \in Shape,
           s7 \in Shape, c \in Shape,
           Ok(i1, s1, s2, {}), Ok(i2, s2, s3, {}), Ok(i3, s3, s4, {}), Ok(i4, s4, s5, {}),
           Ok(i5, s5, s6, {}), Ok(i6, s6, s7, {}), Fits(s7, c)
    PROVE  Typed(<<i1, i2, i3, i4, i5, i6>>, s1, c, {})
  <1>1. Typed(<<i2, i3, i4, i5, i6>>, s2, c, {})
    BY Block5
  <1>2. <<i1, i2, i3, i4, i5, i6>> = <<i1>> \o <<i2, i3, i4, i5, i6>>
    OBVIOUS
  <1> QED
    BY <1>1, <1>2, TypedCons

\* 7 instructions in a row
LEMMA Block7 ==
    ASSUME NEW i1, NEW i2, NEW i3, NEW i4, NEW i5, NEW i6, NEW i7, NEW s1, NEW s2, NEW s3, NEW s4, NEW s5,
           NEW s6, NEW s7, NEW s8, NEW c,
           s1 \in Shape, s2 \in Shape, s3 \in Shape, s4 \in Shape, s5 \in Shape, s6 \in Shape,
           s7 \in Shape, s8 \in Shape, c \in Shape,
           Ok(i1, s1, s2, {}), Ok(i2, s2, s3, {}), Ok(i3, s3, s4, {}), Ok(i4, s4, s5, {}),
           Ok(i5, s5, s6, {}), Ok(i6, s6, s7, {}), Ok(i7, s7, s8, {}), Fits(s8, c)
    PROVE  Typed(<<i1, i2, i3, i4, i5, i6, i7>>, s1, c, {})
  <1>1. Typed(<<i2, i3, i4, i5, i6, i7>>, s2, c, {})
    BY Block6
  <1>2. <<i1, i2, i3, i4, i5, i6, i7>> = <<i1>> \o <<i2, i3, i4, i5, i6, i7>>
    OBVIOUS
  <1> QED
    BY <1>1, <1>2, TypedCons

\* 8 instructions in a row
LEMMA Block8 ==
    ASSUME NEW i1, NEW i2, NEW i3, NEW i4, NEW i5, NEW i6, NEW i7, NEW i8, NEW s1, NEW s2, NEW s3, NEW s4,
           NEW s5, NEW s6, NEW s7, NEW s8, NEW s9, NEW c,
           s1 \in Shape, s2 \in Shape, s3 \in Shape, s4 \in Shape, s5 \in Shape, s6 \in Shape,
           s7 \in Shape, s8 \in Shape, s9 \in Shape, c \in Shape,
           Ok(i1, s1, s2, {}), Ok(i2, s2, s3, {}), Ok(i3, s3, s4, {}), Ok(i4, s4, s5, {}),
           Ok(i5, s5, s6, {}), Ok(i6, s6, s7, {}), Ok(i7, s7, s8, {}), Ok(i8, s8, s9, {}), Fits(s9, c)
    PROVE  Typed(<<i1, i2, i3, i4, i5, i6, i7, i8>>, s1, c, {})
  <1>1. Typed(<<i2, i3, i4, i5, i6, i7, i8>>, s2, c, {})
    BY Block7
  <1>2. <<i1, i2, i3, i4, i5, i6, i7, i8>> = <<i1>> \o <<i2, i3, i4, i5, i6, i7, i8>>
    OBVIOUS
  <1> QED
    BY <1>1, <1>2, TypedCons

\* 9 instructions in a row
LEMMA Block9 ==
    ASSUME NEW i1, NEW i2, NEW i3, NEW i4, NEW i5, NEW i6, NEW i7, NEW i8, NEW i9, NEW s1, NEW s2, NEW s3,
           NEW s4, NEW s5, NEW s6, NEW s7, NEW s8, NEW s9, NEW s10, NEW c,
           s1 \in Shape, s2 \in Shape, s3 \in Shape, s4 \in Shape, s5 \in Shape, s6 \in Shape,
           s7 \in Shape, s8 \in Shape, s9 \in Shape, s10 \in Shape, c \in Shape,
           Ok(i1, s1, s2, {}), Ok(i2, s2, s3, {}), Ok(i3, s3, s4, {}), Ok(i4, s4, s5, {}),
           Ok(i5, s5, s6, {}), Ok(i6, s6, s7, {}), Ok(i7, s7, s8, {}), Ok(i8, s8, s9, {}),
           Ok(i9, s9, s10, {}), Fits(s10, c)
    PROVE  Typed(<<i1, i2, i3, i4, i5, i6, i7, i8, i9>>, s1, c, {})
  <1>1. Typed(<<i2, i3, i4, i5, i6, i7, i8, i9>>, s2, c, {})
    BY Block8
  <1>2. <<i1, i2, i3, i4, i5, i6, i7, i8, i9>> = <<i1>> \o <<i2, i3, i4, i5, i6, i7, i8, i9>>
    OBVIOUS
  <1> QED
    BY <1>1, <1>2, TypedCons

\* 10 instructions in a row
LEMMA Block10 ==
    ASSUME NEW i1, NEW i2, NEW i3, NEW i4, NEW i5, NEW i6, NEW i7, NEW i8, NEW i9, NEW i10, NEW s1,
           NEW s2, NEW s3, NEW s4, NEW s5, NEW s6, NEW s7, NEW s8, NEW s9, NEW s10, NEW s11, NEW c,
           s1 \in Shape, s2 \in Shape, s3 \in Shape, s4 \in Shape, s5 \in Shape, s6 \in Shape,
           s7 \in Shape, s8 \in Shape, s9 \in Shape, s10 \in Shape, s11 \in Shape, c \in Shape,
           Ok(i1, s1, s2, {}), Ok(i2, s2, s3, {}), Ok(i3, s3, s4, {}), Ok(i4, s4, s5, {}),
           Ok(i5, s5, s6, {}), Ok(i6, s6, s7, {}), Ok(i7, s7, s8, {}), Ok(i8, s8, s9, {}),
           Ok(i9, s9, s10, {}), Ok(i10, s10, s11, {}), Fits(s11, c)
    PROVE  Typed(<<i1, i2, i3, i4, i5, i6, i7, i8, i9, i10>>, s1, c, {})
  <1>1. Typed(<<i2, i3, i4, i5, i6, i7, i8, i9, i10>>, s2, c, {})
    BY Block9
  <1>2. <<i1, i2, i3, i4, i5, i6, i7, i8, i9, i10>> = <<i1>> \o <<i2, i3, i4, i5, i6, i7, i8, i9, i10>>
    OBVIOUS
  <1> QED
    BY <1>1, <1>2, TypedCons

\* 11 instructions in a row
LEMMA Block11 ==
    ASSUME NEW i1, NEW i2, NEW i3, NEW i4, NEW i5, NEW i6, NEW i7, NEW i8, NEW i9, NEW i10, NEW i11,
           NEW s1, NEW s2, NEW s3, NEW s4, NEW s5, NEW s6, NEW s7, NEW s8, NEW s9, NEW s10, NEW s11,
           NEW s12, NEW c,
           s1 \in Shape, s2 \in Shape, s3 \in Shape, s4 \in Shape, s5 \in Shape, s6 \in Shape,
           s7 \in Shape, s8 \in Shape, s9 \in Shape, s10 \in Shape, s11 \in Shape, s12 \in Shape,
           c \in Shape,
           Ok(i1, s1, s2, {}), Ok(i2, s2, s3, {}), Ok(i3, s3, s4, {}), Ok(i4, s4, s5, {}),
           Ok(i5, s5, s6, {}), Ok(i6, s6, s7, {}), Ok(i7, s7, s8, {}), Ok(i8, s8, s9, {}),
           Ok(i9, s9, s10, {}), Ok(i10, s10, s11, {}), Ok(i11, s11, s12, {}), Fits(s12, c)
    PROVE  Typed(<<i1, i2, i3, i4, i5, i6, i7, i8, i9, i10, i11>>, s1, c, {})
  <1>1. Typed(<<i2, i3, i4, i5, i6, i7, i8, i9, i10, i11>>, s2, c, {})
    BY Block10
  <1>2. <<i1, i2, i3, i4, i5, i6, i7, i8, i9, i10, i11>> = <<i1>> \o <<i2, i3, i4, i5, i6, i7, i8, i9, i10, i11>>
    OBVIOUS
  <1> QED
    BY <1>1, <1>2, TypedCons

\* 12 instructions in a row
LEMMA Block12 ==
    ASSUME NEW i1, NEW i2, NEW i3, NEW i4, NEW i5, NEW i6, NEW i7, NEW i8, NEW i9, NEW i10, NEW i11,
           NEW i12, NEW s1, NEW s2, NEW s3, NEW s4, NEW s5, NEW s6, NEW s7, NEW s8, NEW s9, NEW s10,
           NEW s11, NEW s12, NEW s13, NEW c,
           s1 \in Shape, s2 \in Shape, s3 \in Shape, s4 \in Shape, s5 \in Shape, s6 \in Shape,
           s7 \in Shape, s8 \in Shape, s9 \in Shape, s10 \in Shape, s11 \in Shape, s12 \in Shape,
           s13 \in Shape, c \in Shape,
           Ok(i1, s1, s2, {}), Ok(i2, s2, s3, {}), Ok(i3, s3, s4, {}), Ok(i4, s4, s5, {}),
           Ok(i5, s5, s6, {}), Ok(i6, s6, s7, {}), Ok(i7, s7, s8, {}), Ok(i8, s8, s9, {}),
           Ok(i9, s9, s10, {}), Ok(i10, s10, s11, {}), Ok(i11, s11, s12, {}), Ok(i12, s12, s13, {}),
           Fits(s13, c)
    PROVE  Typed(<<i1, i2, i3, i4, i5, i6, i7, i8, i9, i10, i11, i12>>, s1, c, {})
  <1>1. Typed(<<i2, i3, i4, i5, i6, i7, i8, i9, i10, i11, i12>>, s2, c, {})
    BY Block11
  <1>2. <<i1, i2, i3, i4, i5, i6, i7, i8, i9, i10, i11, i12>> = <<i1>> \o <<i2, i3, i4, i5, i6, i7, i8, i9, i10, i11, i12>>
    OBVIOUS
  <1> QED
    BY <1>1, <1>2, TypedCons

\* 13 instructions in a row
LEMMA Block13 ==
    ASSUME NEW i1, NEW i2, NEW i3, NEW i4, NEW i5, NEW i6, NEW i7, NEW i8, NEW i9, NEW i10, NEW i11,
           NEW i12, NEW i13, NEW s1, NEW s2, NEW s3, NEW s4, NEW s5, NEW s6, NEW s7, NEW s8, NEW s9,
           NEW s10, NEW s11, NEW s12, NEW s13, NEW s14, NEW c,
           s1 \in Shape, s2 \in Shape, s3 \in Shape, s4 \in Shape, s5 \in Shape, s6 \in Shape,
           s7 \in Shape, s8 \in Shape, s9 \in Shape, s10 \in Shape, s11 \in Shape, s12 \in Shape,
           s13 \in Shape, s14 \in Shape, c \in Shape,
           Ok(i1, s1, s2, {}), Ok(i2, s2, s3, {}), Ok(i3, s3, s4, {}), Ok(i4, s4, s5, {}),
           Ok(i5, s5, s6, {}), Ok(i6, s6, s7, {}), Ok(i7, s7, s8, {}), Ok(i8, s8, s9, {}),
           Ok(i9, s9, s10, {}), Ok(i10, s10, s11, {}), Ok(i11, s11, s12, {}), Ok(i12, s12, s13, {}),
           Ok(i13, s13, s14, {}), Fits(s14, c)
    PROVE  Typed(<<i1, i2, i3, i4, i5, i6, i7, i8, i9, i10, i11, i12, i13>>, s1, c, {})
  <1>1. Typed(<<i2, i3, i4, i5, i6, i7, i8, i9, i10, i11, i12, i13>>, s2, c, {})
    BY Block12
  <1>2. <<i1, i2, i3, i4, i5, i6, i7, i8, i9, i10, i11, i12, i13>> = <<i1>> \o <<i2, i3, i4, i5, i6, i7, i8, i9, i10, i11, i12, i13>>
    OBVIOUS
  <1> QED
    BY <1>1, <1>2, TypedCons

\* 14 instructions in a row
LEMMA Block14 ==
    ASSUME NEW i1, NEW i2, NEW i3, NEW i4, NEW i5, NEW i6, NEW i7, NEW i8, NEW i9, NEW i10, NEW i11,
           NEW i12, NEW i13, NEW i14, NEW s1, NEW s2, NEW s3, NEW s4, NEW s5, NEW s6, NEW s7, NEW s8,
           NEW s9, NEW s10, NEW s11, NEW s12, NEW s13, NEW s14, NEW s15, NEW c,
           s1 \in Shape, s2 \in Shape, s3 \in Shape, s4 \in Shape, s5 \in Shape, s6 \in Shape,
           s7 \in Shape, s8 \in Shape, s9 \in Shape, s10 \in Shape, s11 \in Shape, s12 \in Shape,
           s13 \in Shape, s14 \in Shape, s15 \in Shape, c \in Shape,
           Ok(i1, s1, s2, {}), Ok(i2, s2, s3, {}), Ok(i3, s3, s4, {}), Ok(i4, s4, s5, {}),
           Ok(i5, s5, s6, {}), Ok(i6, s6, s7, {}), Ok(i7, s7, s8, {}), Ok(i8, s8, s9, {}),
           Ok(i9, s9, s10, {}), Ok(i10, s10, s11, {}), Ok(i11, s11, s12, {}), Ok(i12, s12, s13, {}),
           Ok(i13, s13, s14, {}), Ok(i14, s14, s15, {}), Fits(s15, c)
    PROVE  Typed(<<i1, i2, i3, i4, i5, i6, i7, i8, i9, i10, i11, i12, i13, i14>>, s1, c, {})
  <1>1. Typed(<<i2, i3, i4, i5, i6, i7, i8, i9, i10, i11, i12, i13, i14>>, s2, c, {})
    BY Block13
  <1>2. <<i1, i2, i3, i4, i5, i6, i7, i8, i9, i10, i11, i12, i13, i14>> = <<i1>> \o <<i2, i3, i4, i5, i6, i7, i8, i9, i10, i11, i12, i13, i14>>
    OBVIOUS
  <1> QED
    BY <1>1, <1>2, TypedCons

\* 15 instructions in a row
LEMMA Block15 ==
    ASSUME NEW i1, NEW i2, NEW i3, NEW i4, NEW i5, NEW i6, NEW i7, NEW i8, NEW i9, NEW i10, NEW i11,
           NEW i12, NEW i13, NEW i14, NEW i15, NEW s1, NEW s2, NEW s3, NEW s4, NEW s5, NEW s6, NEW s7,
           NEW s8, NEW s9, NEW s10, NEW s11, NEW s12, NEW s13, NEW s14, NEW s15, NEW s16, NEW c,
           s1 \in Shape, s2 \in Shape, s3 \in Shape, s4 \in Shape, s5 \in Shape, s6 \in Shape,
           s7 \in Shape, s8 \in Shape, s9 \in Shape, s10 \in Shape, s11 \in Shape, s12 \in Shape,
           s13 \in Shape, s14 \in Shape, s15 \in Shape, s16 \in Shape, c \in Shape,
           Ok(i1, s1, s2, {}), Ok(i2, s2, s3, {}), Ok(i3, s3, s4, {}), Ok(i4, s4, s5, {}),
           Ok(i5, s5, s6, {}), Ok(i6, s6, s7, {}), Ok(i7, s7, s8, {}), Ok(i8, s8, s9, {}),
           Ok(i9, s9, s10, {}), Ok(i10, s10, s11, {}), Ok(i11, s11, s12, {}), Ok(i12, s12, s13, {}),
           Ok(i13, s13, s14, {}), Ok(i14, s14, s15, {}), Ok(i15, s15, s16, {}), Fits(s16, c)
    PROVE  Typed(<<i1, i2, i3, i4, i5, i6, i7, i8, i9, i10, i11, i12, i13, i14, i15>>, s1, c, {})
  <1>1. Typed(<<i2, i3, i4, i5, i6, i7, i8, i9, i10, i11, i12, i13, i14, i15>>, s2, c, {})
    BY Block14
  <1>2. <<i1, i2, i3, i4, i5, i6, i7, i8, i9, i10, i11, i12, i13, i14, i15>> = <<i1>> \o <<i2, i3, i4, i5, i6, i7, i8, i9, i10, i11, i12, i13, i14, i15>>
    OBVIOUS
  <1> QED
    BY <1>1, <1>2, TypedCons

\* 16 instructions in a row
LEMMA Block16 ==
    ASSUME NEW i1, NEW i2, NEW i3, NEW i4, NEW i5, NEW i6, NEW i7, NEW i8, NEW i9, NEW i10, NEW i11,
           NEW i12, NEW i13, NEW i14, NEW i15, NEW i16, NEW s1, NEW s2, NEW s3, NEW s4, NEW s5, NEW s6,
           NEW s7, NEW s8, NEW s9, NEW s10, NEW s11, NEW s12, NEW s13, NEW s14, NEW s15, NEW s16, NEW s17,
           NEW c,
           s1 \in Shape, s2 \in Shape, s3 \in Shape, s4 \in Shape, s5 \in Shape, s6 \in Shape,
           s7 \in Shape, s8 \in Shape, s9 \in Shape, s10 \in Shape, s11 \in Shape, s12 \in Shape,
           s13 \in Shape, s14 \in Shape, s15 \in Shape, s16 \in Shape, s17 \in Shape, c \in Shape,
           Ok(i1, s1, s2, {}), Ok(i2, s2, s3, {}), Ok(i3, s3, s4, {}), Ok(i4, s4, s5, {}),
           Ok(i5, s5, s6, {}), Ok(i6, s6, s7, {}), Ok(i7, s7, s8, {}), Ok(i8, s8, s9, {}),
           Ok(i9, s9, s10, {}), Ok(i10, s10, s11, {}), Ok(i11, s11, s12, {}), Ok(i12, s12, s13, {}),
           Ok(i13, s13, s14, {}), Ok(i14, s14, s15, {}), Ok(i15, s15, s16, {}), Ok(i16, s16, s17, {}),
           Fits(s17, c)
    PROVE  Typed(<<i1, i2, i3, i4, i5, i6, i7, i8, i9, i10, i11, i12, i13, i14, i15, i16>>, s1, c, {})
  <1>1. Typed(<<i2, i3, i4, i5, i6, i7, i8, i9, i10, i11, i12, i13, i14, i15, i16>>, s2, c, {})
    BY Block15
  <1>2. <<i1, i2, i3, i4, i5, i6, i7, i8, i9, i10, i11, i12, i13, i14, i15, i16>> = <<i1>> \o <<i2, i3, i4, i5, i6, i7, i8, i9, i10, i11, i12, i13, i14, i15, i16>>
    OBVIOUS
  <1> QED
    BY <1>1, <1>2, TypedCons

\* 1 instruction in a row, breaks among them
LEMMA LoopBlock1 ==
    ASSUME NEW i1, NEW s1, NEW s2, NEW c, NEW k,
           s1 \in Shape, s2 \in Shape, c \in Shape,
           Ok(i1, s1, s2, k), Fits(s2, c), k \in SUBSET Shape
    PROVE  Typed(<<i1>>, s1, c, k)
  <1>1. Typed(<<>>, s2, c, k)
    BY TypedEmpty
  <1>2. <<i1>> = <<i1>> \o <<>>
    BY ConcatEmptySeq, <<i1>> \in Seq({i1})
  <1>3. NoLoop(<<>>)
    BY DEF NoLoop
  <1> QED
    BY <1>1, <1>2, <1>3, TypedCons

\* 2 instructions in a row, breaks among them
LEMMA LoopBlock2 ==
    ASSUME NEW i1, NEW i2, NEW s1, NEW s2, NEW s3, NEW c, NEW k,
           s1 \in Shape, s2 \in Shape, s3 \in Shape, c \in Shape,
           Ok(i1, s1, s2, k), Ok(i2, s2, s3, k), Fits(s3, c), k \in SUBSET Shape, ~IsLoop(i2)
    PROVE  Typed(<<i1, i2>>, s1, c, k)
  <1>1. Typed(<<i2>>, s2, c, k)
    BY LoopBlock1
  <1>2. <<i1, i2>> = <<i1>> \o <<i2>>
    BY PairConcat
  <1>3. NoLoop(<<i2>>)
    BY DEF NoLoop
  <1> QED
    BY <1>1, <1>2, <1>3, TypedCons

\* 3 instructions in a row, breaks among them
LEMMA LoopBlock3 ==
    ASSUME NEW i1, NEW i2, NEW i3, NEW s1, NEW s2, NEW s3, NEW s4, NEW c, NEW k,
           s1 \in Shape, s2 \in Shape, s3 \in Shape, s4 \in Shape, c \in Shape,
           Ok(i1, s1, s2, k), Ok(i2, s2, s3, k), Ok(i3, s3, s4, k), Fits(s4, c), k \in SUBSET Shape,
           ~IsLoop(i2), ~IsLoop(i3)
    PROVE  Typed(<<i1, i2, i3>>, s1, c, k)
  <1>1. Typed(<<i2, i3>>, s2, c, k)
    BY LoopBlock2
  <1>2. <<i1, i2, i3>> = <<i1>> \o <<i2, i3>>
    OBVIOUS
  <1>3. NoLoop(<<i2, i3>>)
    BY DEF NoLoop
  <1> QED
    BY <1>1, <1>2, <1>3, TypedCons

\* 4 instructions in a row, breaks among them
LEMMA LoopBlock4 ==
    ASSUME NEW i1, NEW i2, NEW i3, NEW i4, NEW s1, NEW s2, NEW s3, NEW s4, NEW s5, NEW c, NEW k,
           s1 \in Shape, s2 \in Shape, s3 \in Shape, s4 \in Shape, s5 \in Shape, c \in Shape,
           Ok(i1, s1, s2, k), Ok(i2, s2, s3, k), Ok(i3, s3, s4, k), Ok(i4, s4, s5, k), Fits(s5, c),
           k \in SUBSET Shape, ~IsLoop(i2), ~IsLoop(i3), ~IsLoop(i4)
    PROVE  Typed(<<i1, i2, i3, i4>>, s1, c, k)
  <1>1. Typed(<<i2, i3, i4>>, s2, c, k)
    BY LoopBlock3
  <1>2. <<i1, i2, i3, i4>> = <<i1>> \o <<i2, i3, i4>>
    OBVIOUS
  <1>3. NoLoop(<<i2, i3, i4>>)
    BY DEF NoLoop
  <1> QED
    BY <1>1, <1>2, <1>3, TypedCons

\* 5 instructions in a row, breaks among them
LEMMA LoopBlock5 ==
    ASSUME NEW i1, NEW i2, NEW i3, NEW i4, NEW i5, NEW s1, NEW s2, NEW s3, NEW s4, NEW s5, NEW s6, NEW c,
           NEW k,
           s1 \in Shape, s2 \in Shape, s3 \in Shape, s4 \in Shape, s5 \in Shape, s6 \in Shape,
           c \in Shape,
           Ok(i1, s1, s2, k), Ok(i2, s2, s3, k), Ok(i3, s3, s4, k), Ok(i4, s4, s5, k), Ok(i5, s5, s6, k),
           Fits(s6, c), k \in SUBSET Shape, ~IsLoop(i2), ~IsLoop(i3), ~IsLoop(i4), ~IsLoop(i5)
    PROVE  Typed(<<i1, i2, i3, i4, i5>>, s1, c, k)
  <1>1. Typed(<<i2, i3, i4, i5>>, s2, c, k)
    BY LoopBlock4
  <1>2. <<i1, i2, i3, i4, i5>> = <<i1>> \o <<i2, i3, i4, i5>>
    OBVIOUS
  <1>3. NoLoop(<<i2, i3, i4, i5>>)
    BY DEF NoLoop
  <1> QED
    BY <1>1, <1>2, <1>3, TypedCons

\* 6 instructions in a row, breaks among them
LEMMA LoopBlock6 ==
    ASSUME NEW i1, NEW i2, NEW i3, NEW i4, NEW i5, NEW i6, NEW s1, NEW s2, NEW s3, NEW s4, NEW s5, NEW s6,
           NEW s7, NEW c, NEW k,
           s1 \in Shape, s2 \in Shape, s3 \in Shape, s4 \in Shape, s5 \in Shape, s6 \in Shape,
           s7 \in Shape, c \in Shape,
           Ok(i1, s1, s2, k), Ok(i2, s2, s3, k), Ok(i3, s3, s4, k), Ok(i4, s4, s5, k), Ok(i5, s5, s6, k),
           Ok(i6, s6, s7, k), Fits(s7, c), k \in SUBSET Shape, ~IsLoop(i2), ~IsLoop(i3), ~IsLoop(i4),
           ~IsLoop(i5), ~IsLoop(i6)
    PROVE  Typed(<<i1, i2, i3, i4, i5, i6>>, s1, c, k)
  <1>1. Typed(<<i2, i3, i4, i5, i6>>, s2, c, k)
    BY LoopBlock5
  <1>2. <<i1, i2, i3, i4, i5, i6>> = <<i1>> \o <<i2, i3, i4, i5, i6>>
    OBVIOUS
  <1>3. NoLoop(<<i2, i3, i4, i5, i6>>)
    BY DEF NoLoop
  <1> QED
    BY <1>1, <1>2, <1>3, TypedCons

\* 7 instructions in a row, breaks among them
LEMMA LoopBlock7 ==
    ASSUME NEW i1, NEW i2, NEW i3, NEW i4, NEW i5, NEW i6, NEW i7, NEW s1, NEW s2, NEW s3, NEW s4, NEW s5,
           NEW s6, NEW s7, NEW s8, NEW c, NEW k,
           s1 \in Shape, s2 \in Shape, s3 \in Shape, s4 \in Shape, s5 \in Shape, s6 \in Shape,
           s7 \in Shape, s8 \in Shape, c \in Shape,
           Ok(i1, s1, s2, k), Ok(i2, s2, s3, k), Ok(i3, s3, s4, k), Ok(i4, s4, s5, k), Ok(i5, s5, s6, k),
           Ok(i6, s6, s7, k), Ok(i7, s7, s8, k), Fits(s8, c), k \in SUBSET Shape, ~IsLoop(i2),
           ~IsLoop(i3), ~IsLoop(i4), ~IsLoop(i5), ~IsLoop(i6), ~IsLoop(i7)
    PROVE  Typed(<<i1, i2, i3, i4, i5, i6, i7>>, s1, c, k)
  <1>1. Typed(<<i2, i3, i4, i5, i6, i7>>, s2, c, k)
    BY LoopBlock6
  <1>2. <<i1, i2, i3, i4, i5, i6, i7>> = <<i1>> \o <<i2, i3, i4, i5, i6, i7>>
    OBVIOUS
  <1>3. NoLoop(<<i2, i3, i4, i5, i6, i7>>)
    BY DEF NoLoop
  <1> QED
    BY <1>1, <1>2, <1>3, TypedCons

\* 8 instructions in a row, breaks among them
LEMMA LoopBlock8 ==
    ASSUME NEW i1, NEW i2, NEW i3, NEW i4, NEW i5, NEW i6, NEW i7, NEW i8, NEW s1, NEW s2, NEW s3, NEW s4,
           NEW s5, NEW s6, NEW s7, NEW s8, NEW s9, NEW c, NEW k,
           s1 \in Shape, s2 \in Shape, s3 \in Shape, s4 \in Shape, s5 \in Shape, s6 \in Shape,
           s7 \in Shape, s8 \in Shape, s9 \in Shape, c \in Shape,
           Ok(i1, s1, s2, k), Ok(i2, s2, s3, k), Ok(i3, s3, s4, k), Ok(i4, s4, s5, k), Ok(i5, s5, s6, k),
           Ok(i6, s6, s7, k), Ok(i7, s7, s8, k), Ok(i8, s8, s9, k), Fits(s9, c), k \in SUBSET Shape,
           ~IsLoop(i2), ~IsLoop(i3), ~IsLoop(i4), ~IsLoop(i5), ~IsLoop(i6), ~IsLoop(i7), ~IsLoop(i8)
    PROVE  Typed(<<i1, i2, i3, i4, i5, i6, i7, i8>>, s1, c, k)
  <1>1. Typed(<<i2, i3, i4, i5, i6, i7, i8>>, s2, c, k)
    BY LoopBlock7
  <1>2. <<i1, i2, i3, i4, i5, i6, i7, i8>> = <<i1>> \o <<i2, i3, i4, i5, i6, i7, i8>>
    OBVIOUS
  <1>3. NoLoop(<<i2, i3, i4, i5, i6, i7, i8>>)
    BY DEF NoLoop
  <1> QED
    BY <1>1, <1>2, <1>3, TypedCons
\* The production ident
LEMMA IdentTyped ==
    ASSUME NEW h \in Nat, NEW l \in Int, NEW s \in Int
    PROVE  Typed(ident, Sh(h, l, s, 2), Sh(h + 1, l, s, 2), {})
  <1> DEFINE e1 == {"END", "ELSE", "ELSIF", "THEN", "UNTIL", "BY", "DO", "TO", "MOD", "DIV",
                   "OR", "<=", "<", "=", "#", ">", ">=", "+", "-", "*", "&", ":=", "]", "[", ")",
                   "(", ";", ":", ",", "."}
             b1 == <<take, leaf>>
             b2 == <<resync(e1), stale, push("undef")>>
             b3 == <<assert(Peek(Idents), b1, b2)>>
  <1> HIDE DEF e1, b1, b2, b3
  <1>0. /\ Sh(h + 1, l, s, 0) \in Shape
        /\ Sh(h + 1, l, s, 2) \in Shape
        /\ Sh(h, l, s, 0) \in Shape
        /\ Sh(h, l, s, 2) \in Shape
    BY ShapesAre
  <1>01. /\ Fits(Sh(h + 1, l, s, 0), Sh(h + 1, l, s, 2))
         /\ Fits(Sh(h + 1, l, s, 2), Sh(h + 1, l, s, 2))
    BY ShFits
  <1>1. Typed(b1, Sh(h, l, s, 2), Sh(h + 1, l, s, 2), {})
    <2>1. Ok(take, Sh(h, l, s, 2), Sh(h, l, s, 2), {})
      BY OkStay
    <2>2. Ok(leaf, Sh(h, l, s, 2), Sh(h + 1, l, s, 2), {})
      BY OkLeaf DEF Kept, Failed, Sound
    <2> QED
      BY <2>1, <2>2, <1>0, <1>01, Block2 DEF b1
  <1>2. Typed(b2, Sh(h, l, s, 0), Sh(h + 1, l, s, 2), {})
    <2>1. Ok(resync(e1), Sh(h, l, s, 0), Sh(h, l, s, 0), {})
      BY OkStay
    <2>2. Ok(stale, Sh(h, l, s, 0), Sh(h, l, s, 0), {})
      BY OkStale
    <2>3. Ok(push("undef"), Sh(h, l, s, 0), Sh(h + 1, l, s, 0), {})
      BY OkPush, OtherKinds DEF Kept, Failed, Sound
    <2> QED
      BY <2>1, <2>2, <2>3, <1>0, <1>01, Block3 DEF b2
  <1>3. Typed(b3, Sh(h, l, s, 2), Sh(h + 1, l, s, 2), {})
    <2>1. Ok(assert(Peek(Idents), b1, b2), Sh(h, l, s, 2), Sh(h + 1, l, s, 2),
         {}) /\ ~IsLoop(assert(Peek(Idents), b1, b2))
      BY <1>1, <1>2, FailSh, OkAssert
    <2> QED
      BY <2>1, <1>0, <1>01, Block1 DEF b3
  <1> QED
    BY <1>3 DEF e1, b1, b2, b3, ident

\* The production qualident
LEMMA QualidentTyped ==
    ASSUME NEW h \in Nat, NEW l \in Int, NEW s \in Int
    PROVE  Typed(qualident, Sh(h, l, s, 2), Sh(h + 1, l, s, 2), {})
  <1> DEFINE b1 == <<call("ident"), make("qualident", 2)>>
             b2 == <<next, assert(Peek(Idents), b1, <<>>)>>
             b3 == <<when(Peek({"."}), b2, <<>>)>>
             b4 == <<call("ident"), when(IsModule, b3, <<>>)>>
  <1> HIDE DEF b1, b2, b3, b4
  <1>0. /\ Sh(h + 1, l, s, 0) \in Shape
        /\ Sh(h + 1, l, s, 2) \in Shape
        /\ Sh(h + 2, l, s, 2) \in Shape
        /\ Sh(h, l, s, 2) \in Shape
    BY ShapesAre
  <1>01. /\ Fits(Sh(h + 1, l, s, 0), Sh(h + 1, l, s, 2))
         /\ Fits(Sh(h + 1, l, s, 2), Sh(h + 1, l, s, 2))
    BY ShFits
  <1>1. Typed(b1, Sh(h + 1, l, s, 2), Sh(h + 1, l, s, 2), {})
    <2>1. Ok(call("ident"), Sh(h + 1, l, s, 2), Sh(h + 2, l, s, 2), {})
      BY OkPushes DEF Pushers
    <2>2. Ok(make("qualident", 2), Sh(h + 2, l, s, 2), Sh(h + 1, l, s, 2), {})
      BY OkMake, OtherKinds DEF Kept, Failed, Sound
    <2> QED
      BY <2>1, <2>2, <1>0, <1>01, Block2 DEF b1
  <1>2. Typed(b2, Sh(h + 1, l, s, 2), Sh(h + 1, l, s, 2), {})
    <2>1. Ok(next, Sh(h + 1, l, s, 2), Sh(h + 1, l, s, 2), {})
      BY OkStay
    <2>2. Ok(assert(Peek(Idents), b1, <<>>), Sh(h + 1, l, s, 2), Sh(h + 1, l, s, 2),
         {}) /\ ~IsLoop(assert(Peek(Idents), b1, <<>>))
      <3>1. Typed(<<>>, Sh(h + 1, l, s, 0), Sh(h + 1, l, s, 2), {})
        BY TypedEmpty, <1>0, <1>01
      <3> QED
        BY <1>1, <3>1, FailSh, OkAssert
    <2> QED
      BY <2>1, <2>2, <1>0, <1>01, Block2 DEF b2
  <1>3. Typed(b3, Sh(h + 1, l, s, 2), Sh(h + 1, l, s, 2), {})
    <2>1. Ok(when(Peek({"."}), b2, <<>>), Sh(h + 1, l, s, 2), Sh(h + 1, l, s, 2),
         {}) /\ ~IsLoop(when(Peek({"."}), b2, <<>>))
      <3>1. Typed(<<>>, Sh(h + 1, l, s, 2), Sh(h + 1, l, s, 2), {})
        BY TypedEmpty, <1>0, <1>01
      <3> QED
        BY <1>2, <3>1, OkWhen
    <2> QED
      BY <2>1, <1>0, <1>01, Block1 DEF b3
  <1>4. Typed(b4, Sh(h, l, s, 2), Sh(h + 1, l, s, 2), {})
    <2>1. Ok(call("ident"), Sh(h, l, s, 2), Sh(h + 1, l, s, 2), {})
      BY OkPushes DEF Pushers
    <2>2. Ok(when(IsModule, b3, <<>>), Sh(h + 1, l, s, 2), Sh(h + 1, l, s, 2),
         {}) /\ ~IsLoop(when(IsModule, b3, <<>>))
      <3>1. Typed(<<>>, Sh(h + 1, l, s, 2), Sh(h + 1, l, s, 2), {})
        BY TypedEmpty, <1>0, <1>01
      <3> QED
        BY <1>3, <3>1, OkWhen
    <2> QED
      BY <2>1, <2>2, <1>0, <1>01, Block2 DEF b4
  <1> QED
    BY <1>4 DEF b1, b2, b3, b4, qualident

\* The production identdef
LEMMA IdentdefTyped ==
    ASSUME NEW h \in Nat, NEW l \in Int, NEW s \in Int
    PROVE  Typed(identdef, Sh(h, l, s, 2), Sh(h + 1, l, s, 2), {})
  <1> DEFINE b1 == <<next, make("exported", 1)>>
             b2 == <<call("ident"), when(Peek({"*"}), b1, <<>>)>>
  <1> HIDE DEF b1, b2
  <1>0. /\ Sh(h + 1, l, s, 2) \in Shape
        /\ Sh(h, l, s, 2) \in Shape
    BY ShapesAre
  <1>01. Fits(Sh(h + 1, l, s, 2), Sh(h + 1, l, s, 2))
    BY ShFits
  <1>1. Typed(b1, Sh(h + 1, l, s, 2), Sh(h + 1, l, s, 2), {})
    <2>1. Ok(next, Sh(h + 1, l, s, 2), Sh(h + 1, l, s, 2), {})
      BY OkStay
    <2>2. Ok(make("exported", 1), Sh(h + 1, l, s, 2), Sh(h + 1, l, s, 2), {})
      BY OkMake, OtherKinds DEF Kept, Failed, Sound
    <2> QED
      BY <2>1, <2>2, <1>0, <1>01, Block2 DEF b1
  <1>2. Typed(b2, Sh(h, l, s, 2), Sh(h + 1, l, s, 2), {})
    <2>1. Ok(call("ident"), Sh(h, l, s, 2), Sh(h + 1, l, s, 2), {})
      BY OkPushes DEF Pushers
    <2>2. Ok(when(Peek({"*"}), b1, <<>>), Sh(h + 1, l, s, 2), Sh(h + 1, l, s, 2),
         {}) /\ ~IsLoop(when(Peek({"*"}), b1, <<>>))
      <3>1. Typed(<<>>, Sh(h + 1, l, s, 2), Sh(h + 1, l, s, 2), {})
        BY TypedEmpty, <1>0, <1>01
      <3> QED
        BY <1>1, <3>1, OkWhen
    <2> QED
      BY <2>1, <2>2, <1>0, <1>01, Block2 DEF b2
  <1> QED
    BY <1>2 DEF b1, b2, identdef

\* The production ident_list
LEMMA IdentListTyped ==
    ASSUME NEW h \in Nat, NEW l \in Int, NEW s \in Int
    PROVE  Typed(ident_list, Sh(h, l, s, 2), Sh(h + 1, l, s, 2), {})
  <1> DEFINE b1 == <<call("identdef"), append>>
             b2 == <<report, break>>
             b3 == <<next>>
             b4 == <<report>>
             b5 == <<break>>
             b6 == <<report, resync({":"}), break>>
             b7 == <<when(Peek({":"}), b5, b6)>>
             b8 == <<when(Peek(Idents), b4, b7)>>
             b9 == <<when(Peek(Idents), b1, b2), when(Peek({","}), b3, b8)>>
             b10 == <<list, forever(b9)>>
  <1> HIDE DEF b1, b2, b3, b4, b5, b6, b7, b8, b9, b10
  <1>0. /\ Sh(h + 1, l, s, 0) \in Shape
        /\ Sh(h + 1, l, s, 2) \in Shape
        /\ Sh(h + 2, l, s, 2) \in Shape
        /\ Sh(h, l, s, 2) \in Shape
    BY ShapesAre
  <1>01. /\ Fits(Sh(h + 1, l, s, 0), Sh(h + 1, l, s, 0))
         /\ Fits(Sh(h + 1, l, s, 0), Sh(h + 1, l, s, 2))
         /\ Fits(Sh(h + 1, l, s, 2), Sh(h + 1, l, s, 2))
    BY ShFits
  <1>00. {Sh(h + 1, l, s, 2)} \in SUBSET Shape
    BY <1>0
  <1>1. Typed(b1, Sh(h + 1, l, s, 2), Sh(h + 1, l, s, 2), {Sh(h + 1, l, s, 2)})
    <2>1. Ok(call("identdef"), Sh(h + 1, l, s, 2), Sh(h + 2, l, s, 2), {Sh(h + 1, l, s, 2)})
      BY OkPushes DEF Pushers
    <2>2. Ok(append, Sh(h + 2, l, s, 2), Sh(h + 1, l, s, 2), {Sh(h + 1, l, s, 2)})
      BY OkAppend DEF Kept, Failed, Sound
    <2> QED
      BY <2>1, <2>2, <1>0, <1>00, <1>01, NotLoops, LoopBlock2 DEF b1
  <1>2. Typed(b2, Sh(h + 1, l, s, 2), Sh(h + 1, l, s, 2), {Sh(h + 1, l, s, 2)})
    <2>1. Ok(report, Sh(h + 1, l, s, 2), Sh(h + 1, l, s, 0), {Sh(h + 1, l, s, 2)})
      BY OkReport
    <2>2. Ok(break, Sh(h + 1, l, s, 0), Sh(h + 1, l, s, 2), {Sh(h + 1, l, s, 2)})
      BY OkBreak, <1>01
    <2> QED
      BY <2>1, <2>2, <1>0, <1>00, <1>01, NotLoops, LoopBlock2 DEF b2
  <1>3. Typed(b3, Sh(h + 1, l, s, 2), Sh(h + 1, l, s, 2), {Sh(h + 1, l, s, 2)})
    <2>1. Ok(next, Sh(h + 1, l, s, 2), Sh(h + 1, l, s, 2), {Sh(h + 1, l, s, 2)})
      BY OkStay
    <2> QED
      BY <2>1, <1>0, <1>00, <1>01, LoopBlock1 DEF b3
  <1>4. Typed(b4, Sh(h + 1, l, s, 2), Sh(h + 1, l, s, 0), {Sh(h + 1, l, s, 2)})
    <2>1. Ok(report, Sh(h + 1, l, s, 2), Sh(h + 1, l, s, 0), {Sh(h + 1, l, s, 2)})
      BY OkReport
    <2> QED
      BY <2>1, <1>0, <1>00, <1>01, LoopBlock1 DEF b4
  <1>5. Typed(b5, Sh(h + 1, l, s, 2), Sh(h + 1, l, s, 0), {Sh(h + 1, l, s, 2)})
    <2>1. Ok(break, Sh(h + 1, l, s, 2), Sh(h + 1, l, s, 0), {Sh(h + 1, l, s, 2)})
      BY OkBreak, <1>01
    <2> QED
      BY <2>1, <1>0, <1>00, <1>01, LoopBlock1 DEF b5
  <1>6. Typed(b6, Sh(h + 1, l, s, 2), Sh(h + 1, l, s, 0), {Sh(h + 1, l, s, 2)})
    <2>1. Ok(report, Sh(h + 1, l, s, 2), Sh(h + 1, l, s, 0), {Sh(h + 1, l, s, 2)})
      BY OkReport
    <2>2. Ok(resync({":"}), Sh(h + 1, l, s, 0), Sh(h + 1, l, s, 0), {Sh(h + 1, l, s, 2)})
      BY OkStay
    <2>3. Ok(break, Sh(h + 1, l, s, 0), Sh(h + 1, l, s, 0), {Sh(h + 1, l, s, 2)})
      BY OkBreak, <1>01
    <2> QED
      BY <2>1, <2>2, <2>3, <1>0, <1>00, <1>01, NotLoops, LoopBlock3 DEF b6
  <1>7. Typed(b7, Sh(h + 1, l, s, 2), Sh(h + 1, l, s, 0), {Sh(h + 1, l, s, 2)})
    <2>1. Ok(when(Peek({":"}), b5, b6), Sh(h + 1, l, s, 2), Sh(h + 1, l, s, 0), {Sh(h + 1, l,
         s, 2)}) /\ ~IsLoop(when(Peek({":"}), b5, b6))
      BY <1>5, <1>6, OkWhen
    <2> QED
      BY <2>1, <1>0, <1>00, <1>01, LoopBlock1 DEF b7
  <1>8. Typed(b8, Sh(h + 1, l, s, 2), Sh(h + 1, l, s, 2), {Sh(h + 1, l, s, 2)})
    <2>1. Ok(when(Peek(Idents), b4, b7), Sh(h + 1, l, s, 2), Sh(h + 1, l, s, 0), {Sh(h + 1, l,
         s, 2)}) /\ ~IsLoop(when(Peek(Idents), b4, b7))
      BY <1>4, <1>7, OkWhen
    <2> QED
      BY <2>1, <1>0, <1>00, <1>01, LoopBlock1 DEF b8
  <1>9. Typed(b9, Sh(h + 1, l, s, 2), Sh(h + 1, l, s, 2), {Sh(h + 1, l, s, 2)})
    <2>1. Ok(when(Peek(Idents), b1, b2), Sh(h + 1, l, s, 2), Sh(h + 1, l, s, 2), {Sh(h + 1, l,
         s, 2)}) /\ ~IsLoop(when(Peek(Idents), b1, b2))
      BY <1>1, <1>2, OkWhen
    <2>2. Ok(when(Peek({","}), b3, b8), Sh(h + 1, l, s, 2), Sh(h + 1, l, s, 2), {Sh(h + 1, l,
         s, 2)}) /\ ~IsLoop(when(Peek({","}), b3, b8))
      BY <1>3, <1>8, OkWhen
    <2> QED
      BY <2>1, <2>2, <1>0, <1>00, <1>01, NotLoops, LoopBlock2 DEF b9
  <1>10. Typed(b10, Sh(h, l, s, 2), Sh(h + 1, l, s, 2), {})
    <2>1. Ok(list, Sh(h, l, s, 2), Sh(h + 1, l, s, 2), {})
      BY OkPush, OtherKinds DEF list, Kept, Failed, Sound
    <2>2. Ok(forever(b9), Sh(h + 1, l, s, 2), Sh(h + 1, l, s, 2), {})
      BY <1>9, <1>0, OkForever
    <2> QED
      BY <2>1, <2>2, <1>0, <1>01, Block2 DEF b10
  <1> QED
    BY <1>10 DEF b1, b2, b3, b4, b5, b6, b7, b8, b9, b10, ident_list

\* The production module
LEMMA ModuleTyped ==
    ASSUME NEW h \in Nat, NEW l \in Int, NEW s \in Int
    PROVE  Typed(module, Sh(h, l, s, 2), Sh(h + 1, l, s, 2), {})
  <1> DEFINE e1 == {"IMPORT"} \cup SectionsFrom(1)
             b1 == <<resync({"eof"})>>
             b2 == <<resync(e1)>>
             b3 == <<call("import_list")>>
             b4 == <<list>>
             b5 == <<call("statement_sequence"), take>>
             b6 == <<statements>>
             b7 == <<resync({"eof"})>>
             b8 == <<resync({"eof"})>>
             b9 == <<take, assert(Member({"MODULE"}), <<>>, b1), call("ident"), scope(1),
                   take, assert(Member({";"}), <<>>, b2), when(Peek({"IMPORT"}), b3, b4),
                   call("declarations"), take, when(Member({"BEGIN"}), b5, b6),
                   assert(Member({"END"}), <<>>, b7), call("ident"), take, assert(Member({"."}),
                   <<>>, b8), scope(-1), sema("module", 5)>>
  <1> HIDE DEF e1, b1, b2, b3, b4, b5, b6, b7, b8, b9
  <1>0. /\ Sh(h + 1, l, s + 1, 0) \in Shape
        /\ Sh(h + 1, l, s + 1, 2) \in Shape
        /\ Sh(h + 1, l, s, 2) \in Shape
        /\ Sh(h + 2, l, s + 1, 2) \in Shape
        /\ Sh(h + 3, l, s + 1, 2) \in Shape
        /\ Sh(h + 4, l, s + 1, 0) \in Shape
        /\ Sh(h + 4, l, s + 1, 2) \in Shape
        /\ Sh(h + 5, l, s + 1, 0) \in Shape
        /\ Sh(h + 5, l, s + 1, 2) \in Shape
        /\ Sh(h + 5, l, s, 2) \in Shape
        /\ Sh(h, l, s, 0) \in Shape
        /\ Sh(h, l, s, 2) \in Shape
    BY ShapesAre
  <1>01. /\ Fits(Sh(h + 1, l, s + 1, 0), Sh(h + 1, l, s + 1, 2))
         /\ Fits(Sh(h + 1, l, s + 1, 2), Sh(h + 1, l, s + 1, 2))
         /\ Fits(Sh(h + 1, l, s, 2), Sh(h + 1, l, s, 2))
         /\ Fits(Sh(h + 2, l, s + 1, 2), Sh(h + 2, l, s + 1, 2))
         /\ Fits(Sh(h + 4, l, s + 1, 0), Sh(h + 4, l, s + 1, 2))
         /\ Fits(Sh(h + 4, l, s + 1, 2), Sh(h + 4, l, s + 1, 2))
         /\ Fits(Sh(h + 5, l, s + 1, 0), Sh(h + 5, l, s + 1, 2))
         /\ Fits(Sh(h + 5, l, s + 1, 2), Sh(h + 5, l, s + 1, 2))
         /\ Fits(Sh(h, l, s, 0), Sh(h, l, s, 2))
         /\ Fits(Sh(h, l, s, 2), Sh(h, l, s, 2))
    BY ShFits
  <1>1. Typed(b1, Sh(h, l, s, 0), Sh(h, l, s, 2), {})
    <2>1. Ok(resync({"eof"}), Sh(h, l, s, 0), Sh(h, l, s, 0), {})
      BY OkStay
    <2> QED
      BY <2>1, <1>0, <1>01, Block1 DEF b1
  <1>2. Typed(b2, Sh(h + 1, l, s + 1, 0), Sh(h + 1, l, s + 1, 2), {})
    <2>1. Ok(resync(e1), Sh(h + 1, l, s + 1, 0), Sh(h + 1, l, s + 1, 0), {})
      BY OkStay
    <2> QED
      BY <2>1, <1>0, <1>01, Block1 DEF b2
  <1>3. Typed(b3, Sh(h + 1, l, s + 1, 2), Sh(h + 2, l, s + 1, 2), {})
    <2>1. Ok(call("import_list"), Sh(h + 1, l, s + 1, 2), Sh(h + 2, l, s + 1, 2), {})
      BY OkPushes DEF Pushers
    <2> QED
      BY <2>1, <1>0, <1>01, Block1 DEF b3
  <1>4. Typed(b4, Sh(h + 1, l, s + 1, 2), Sh(h + 2, l, s + 1, 2), {})
    <2>1. Ok(list, Sh(h + 1, l, s + 1, 2), Sh(h + 2, l, s + 1, 2), {})
      BY OkPush, OtherKinds DEF list, Kept, Failed, Sound
    <2> QED
      BY <2>1, <1>0, <1>01, Block1 DEF b4
  <1>5. Typed(b5, Sh(h + 3, l, s + 1, 2), Sh(h + 4, l, s + 1, 2), {})
    <2>1. Ok(call("statement_sequence"), Sh(h + 3, l, s + 1, 2), Sh(h + 4, l, s + 1, 2), {})
      BY OkPushes DEF Pushers
    <2>2. Ok(take, Sh(h + 4, l, s + 1, 2), Sh(h + 4, l, s + 1, 2), {})
      BY OkStay
    <2> QED
      BY <2>1, <2>2, <1>0, <1>01, Block2 DEF b5
  <1>6. Typed(b6, Sh(h + 3, l, s + 1, 2), Sh(h + 4, l, s + 1, 2), {})
    <2>1. Ok(statements, Sh(h + 3, l, s + 1, 2), Sh(h + 4, l, s + 1, 2), {})
      BY OkPush, OtherKinds DEF statements, Kept, Failed, Sound
    <2> QED
      BY <2>1, <1>0, <1>01, Block1 DEF b6
  <1>7. Typed(b7, Sh(h + 4, l, s + 1, 0), Sh(h + 4, l, s + 1, 2), {})
    <2>1. Ok(resync({"eof"}), Sh(h + 4, l, s + 1, 0), Sh(h + 4, l, s + 1, 0), {})
      BY OkStay
    <2> QED
      BY <2>1, <1>0, <1>01, Block1 DEF b7
  <1>8. Typed(b8, Sh(h + 5, l, s + 1, 0), Sh(h + 5, l, s + 1, 2), {})
    <2>1. Ok(resync({"eof"}), Sh(h + 5, l, s + 1, 0), Sh(h + 5, l, s + 1, 0), {})
      BY OkStay
    <2> QED
      BY <2>1, <1>0, <1>01, Block1 DEF b8
  <1>9. Typed(b9, Sh(h, l, s, 2), Sh(h + 1, l, s, 2), {})
    <2>1. Ok(take, Sh(h, l, s, 2), Sh(h, l, s, 2), {})
      BY OkStay
    <2>2. Ok(assert(Member({"MODULE"}), <<>>, b1), Sh(h, l, s, 2), Sh(h, l, s, 2),
         {}) /\ ~IsLoop(assert(Member({"MODULE"}), <<>>, b1))
      <3>1. Typed(<<>>, Sh(h, l, s, 2), Sh(h, l, s, 2), {})
        BY TypedEmpty, <1>0, <1>01
      <3> QED
        BY <3>1, <1>1, FailSh, OkAssert
    <2>3. Ok(call("ident"), Sh(h, l, s, 2), Sh(h + 1, l, s, 2), {})
      BY OkPushes DEF Pushers
    <2>4. Ok(scope(1), Sh(h + 1, l, s, 2), Sh(h + 1, l, s + 1, 2), {})
      BY OkEnterScope
    <2>5. Ok(take, Sh(h + 1, l, s + 1, 2), Sh(h + 1, l, s + 1, 2), {})
      BY OkStay
    <2>6. Ok(assert(Member({";"}), <<>>, b2), Sh(h + 1, l, s + 1, 2), Sh(h + 1, l, s + 1, 2),
         {}) /\ ~IsLoop(assert(Member({";"}), <<>>, b2))
      <3>1. Typed(<<>>, Sh(h + 1, l, s + 1, 2), Sh(h + 1, l, s + 1, 2), {})
        BY TypedEmpty, <1>0, <1>01
      <3> QED
        BY <3>1, <1>2, FailSh, OkAssert
    <2>7. Ok(when(Peek({"IMPORT"}), b3, b4), Sh(h + 1, l, s + 1, 2), Sh(h + 2, l, s + 1, 2),
         {}) /\ ~IsLoop(when(Peek({"IMPORT"}), b3, b4))
      BY <1>3, <1>4, OkWhen
    <2>8. Ok(call("declarations"), Sh(h + 2, l, s + 1, 2), Sh(h + 3, l, s + 1, 2), {})
      BY OkPushes DEF Pushers
    <2>9. Ok(take, Sh(h + 3, l, s + 1, 2), Sh(h + 3, l, s + 1, 2), {})
      BY OkStay
    <2>10. Ok(when(Member({"BEGIN"}), b5, b6), Sh(h + 3, l, s + 1, 2), Sh(h + 4, l, s + 1, 2),
         {}) /\ ~IsLoop(when(Member({"BEGIN"}), b5, b6))
      BY <1>5, <1>6, OkWhen
    <2>11. Ok(assert(Member({"END"}), <<>>, b7), Sh(h + 4, l, s + 1, 2), Sh(h + 4, l, s + 1,
         2), {}) /\ ~IsLoop(assert(Member({"END"}), <<>>, b7))
      <3>1. Typed(<<>>, Sh(h + 4, l, s + 1, 2), Sh(h + 4, l, s + 1, 2), {})
        BY TypedEmpty, <1>0, <1>01
      <3> QED
        BY <3>1, <1>7, FailSh, OkAssert
    <2>12. Ok(call("ident"), Sh(h + 4, l, s + 1, 2), Sh(h + 5, l, s + 1, 2), {})
      BY OkPushes DEF Pushers
    <2>13. Ok(take, Sh(h + 5, l, s + 1, 2), Sh(h + 5, l, s + 1, 2), {})
      BY OkStay
    <2>14. Ok(assert(Member({"."}), <<>>, b8), Sh(h + 5, l, s + 1, 2), Sh(h + 5, l, s + 1, 2),
         {}) /\ ~IsLoop(assert(Member({"."}), <<>>, b8))
      <3>1. Typed(<<>>, Sh(h + 5, l, s + 1, 2), Sh(h + 5, l, s + 1, 2), {})
        BY TypedEmpty, <1>0, <1>01
      <3> QED
        BY <3>1, <1>8, FailSh, OkAssert
    <2>15. Ok(scope(-1), Sh(h + 5, l, s + 1, 2), Sh(h + 5, l, s, 2), {})
      BY OkLeaveScope
    <2>16. Ok(sema("module", 5), Sh(h + 5, l, s, 2), Sh(h + 1, l, s, 2), {})
      BY OkSema DEF SemaKinds, LookingInto, Kept, Failed, Sound
    <2> QED
      BY <2>1, <2>2, <2>3, <2>4, <2>5, <2>6, <2>7, <2>8, <2>9, <2>10, <2>11, <2>12, <2>13,
         <2>14, <2>15, <2>16, <1>0, <1>01, Block16, ZenonT(60) DEF b9
  <1> QED
    BY <1>9 DEF e1, b1, b2, b3, b4, b5, b6, b7, b8, b9, module

\* The production import_list
LEMMA ImportListTyped ==
    ASSUME NEW h \in Nat, NEW l \in Int, NEW s \in Int
    PROVE  Typed(import_list, Sh(h, l, s, 2), Sh(h + 1, l, s, 2), {})
  <1> DEFINE e1 == SectionsFrom(1) \ {"END"}
             b1 == <<next>>
             b2 == <<report>>
             b3 == <<next, break>>
             b4 == <<report, resync(e1), break>>
             b5 == <<when(Peek({";"}), b3, b4)>>
             b6 == <<when(Peek(Idents), b2, b5)>>
             b7 == <<call("import"), when(Peek({","}), b1, b6)>>
             b8 == <<next, list, forever(b7)>>
  <1> HIDE DEF e1, b1, b2, b3, b4, b5, b6, b7, b8
  <1>0. /\ Sh(h + 1, l, s, 0) \in Shape
        /\ Sh(h + 1, l, s, 2) \in Shape
        /\ Sh(h, l, s, 2) \in Shape
    BY ShapesAre
  <1>01. /\ Fits(Sh(h + 1, l, s, 0), Sh(h + 1, l, s, 0))
         /\ Fits(Sh(h + 1, l, s, 0), Sh(h + 1, l, s, 2))
         /\ Fits(Sh(h + 1, l, s, 2), Sh(h + 1, l, s, 2))
    BY ShFits
  <1>00. {Sh(h + 1, l, s, 2)} \in SUBSET Shape
    BY <1>0
  <1>1. Typed(b1, Sh(h + 1, l, s, 2), Sh(h + 1, l, s, 2), {Sh(h + 1, l, s, 2)})
    <2>1. Ok(next, Sh(h + 1, l, s, 2), Sh(h + 1, l, s, 2), {Sh(h + 1, l, s, 2)})
      BY OkStay
    <2> QED
      BY <2>1, <1>0, <1>00, <1>01, LoopBlock1 DEF b1
  <1>2. Typed(b2, Sh(h + 1, l, s, 2), Sh(h + 1, l, s, 0), {Sh(h + 1, l, s, 2)})
    <2>1. Ok(report, Sh(h + 1, l, s, 2), Sh(h + 1, l, s, 0), {Sh(h + 1, l, s, 2)})
      BY OkReport
    <2> QED
      BY <2>1, <1>0, <1>00, <1>01, LoopBlock1 DEF b2
  <1>3. Typed(b3, Sh(h + 1, l, s, 2), Sh(h + 1, l, s, 0), {Sh(h + 1, l, s, 2)})
    <2>1. Ok(next, Sh(h + 1, l, s, 2), Sh(h + 1, l, s, 2), {Sh(h + 1, l, s, 2)})
      BY OkStay
    <2>2. Ok(break, Sh(h + 1, l, s, 2), Sh(h + 1, l, s, 0), {Sh(h + 1, l, s, 2)})
      BY OkBreak, <1>01
    <2> QED
      BY <2>1, <2>2, <1>0, <1>00, <1>01, NotLoops, LoopBlock2 DEF b3
  <1>4. Typed(b4, Sh(h + 1, l, s, 2), Sh(h + 1, l, s, 0), {Sh(h + 1, l, s, 2)})
    <2>1. Ok(report, Sh(h + 1, l, s, 2), Sh(h + 1, l, s, 0), {Sh(h + 1, l, s, 2)})
      BY OkReport
    <2>2. Ok(resync(e1), Sh(h + 1, l, s, 0), Sh(h + 1, l, s, 0), {Sh(h + 1, l, s, 2)})
      BY OkStay
    <2>3. Ok(break, Sh(h + 1, l, s, 0), Sh(h + 1, l, s, 0), {Sh(h + 1, l, s, 2)})
      BY OkBreak, <1>01
    <2> QED
      BY <2>1, <2>2, <2>3, <1>0, <1>00, <1>01, NotLoops, LoopBlock3 DEF b4
  <1>5. Typed(b5, Sh(h + 1, l, s, 2), Sh(h + 1, l, s, 0), {Sh(h + 1, l, s, 2)})
    <2>1. Ok(when(Peek({";"}), b3, b4), Sh(h + 1, l, s, 2), Sh(h + 1, l, s, 0), {Sh(h + 1, l,
         s, 2)}) /\ ~IsLoop(when(Peek({";"}), b3, b4))
      BY <1>3, <1>4, OkWhen
    <2> QED
      BY <2>1, <1>0, <1>00, <1>01, LoopBlock1 DEF b5
  <1>6. Typed(b6, Sh(h + 1, l, s, 2), Sh(h + 1, l, s, 2), {Sh(h + 1, l, s, 2)})
    <2>1. Ok(when(Peek(Idents), b2, b5), Sh(h + 1, l, s, 2), Sh(h + 1, l, s, 0), {Sh(h + 1, l,
         s, 2)}) /\ ~IsLoop(when(Peek(Idents), b2, b5))
      BY <1>2, <1>5, OkWhen
    <2> QED
      BY <2>1, <1>0, <1>00, <1>01, LoopBlock1 DEF b6
  <1>7. Typed(b7, Sh(h + 1, l, s, 2), Sh(h + 1, l, s, 2), {Sh(h + 1, l, s, 2)})
    <2>1. Ok(call("import"), Sh(h + 1, l, s, 2), Sh(h + 1, l, s, 2), {Sh(h + 1, l, s, 2)})
      BY OkAdds DEF Appenders
    <2>2. Ok(when(Peek({","}), b1, b6), Sh(h + 1, l, s, 2), Sh(h + 1, l, s, 2), {Sh(h + 1, l,
         s, 2)}) /\ ~IsLoop(when(Peek({","}), b1, b6))
      BY <1>1, <1>6, OkWhen
    <2> QED
      BY <2>1, <2>2, <1>0, <1>00, <1>01, NotLoops, LoopBlock2 DEF b7
  <1>8. Typed(b8, Sh(h, l, s, 2), Sh(h + 1, l, s, 2), {})
    <2>1. Ok(next, Sh(h, l, s, 2), Sh(h, l, s, 2), {})
      BY OkStay
    <2>2. Ok(list, Sh(h, l, s, 2), Sh(h + 1, l, s, 2), {})
      BY OkPush, OtherKinds DEF list, Kept, Failed, Sound
    <2>3. Ok(forever(b7), Sh(h + 1, l, s, 2), Sh(h + 1, l, s, 2), {})
      BY <1>7, <1>0, OkForever
    <2> QED
      BY <2>1, <2>2, <2>3, <1>0, <1>01, Block3 DEF b8
  <1> QED
    BY <1>8 DEF e1, b1, b2, b3, b4, b5, b6, b7, b8, import_list

\* The production import
LEMMA ImportTyped ==
    ASSUME NEW h \in Nat, NEW l \in Int, NEW s \in Int
    PROVE  Typed(import, Sh(h + 1, l, s, 2), Sh(h + 1, l, s, 2), {})
  <1> DEFINE b1 == <<call("ident"), make("alias", 2), append>>
             b2 == <<drop(1)>>
             b3 == <<next, assert(Peek(Idents), b1, b2)>>
             b4 == <<make("import", 1), append>>
             b5 == <<call("ident"), when(Peek({":="}), b3, b4)>>
             b6 == <<assert(Peek(Idents), b5, <<>>)>>
  <1> HIDE DEF b1, b2, b3, b4, b5, b6
  <1>0. /\ Sh(h + 1, l, s, 0) \in Shape
        /\ Sh(h + 1, l, s, 2) \in Shape
        /\ Sh(h + 2, l, s, 0) \in Shape
        /\ Sh(h + 2, l, s, 2) \in Shape
        /\ Sh(h + 3, l, s, 2) \in Shape
    BY ShapesAre
  <1>01. /\ Fits(Sh(h + 1, l, s, 0), Sh(h + 1, l, s, 2))
         /\ Fits(Sh(h + 1, l, s, 2), Sh(h + 1, l, s, 2))
    BY ShFits
  <1>1. Typed(b1, Sh(h + 2, l, s, 2), Sh(h + 1, l, s, 2), {})
    <2>1. Ok(call("ident"), Sh(h + 2, l, s, 2), Sh(h + 3, l, s, 2), {})
      BY OkPushes DEF Pushers
    <2>2. Ok(make("alias", 2), Sh(h + 3, l, s, 2), Sh(h + 2, l, s, 2), {})
      BY OkMake, OtherKinds DEF Kept, Failed, Sound
    <2>3. Ok(append, Sh(h + 2, l, s, 2), Sh(h + 1, l, s, 2), {})
      BY OkAppend DEF Kept, Failed, Sound
    <2> QED
      BY <2>1, <2>2, <2>3, <1>0, <1>01, Block3 DEF b1
  <1>2. Typed(b2, Sh(h + 2, l, s, 0), Sh(h + 1, l, s, 2), {})
    <2>1. Ok(drop(1), Sh(h + 2, l, s, 0), Sh(h + 1, l, s, 0), {})
      BY OkDrop DEF Kept, Failed, Sound
    <2> QED
      BY <2>1, <1>0, <1>01, Block1 DEF b2
  <1>3. Typed(b3, Sh(h + 2, l, s, 2), Sh(h + 1, l, s, 2), {})
    <2>1. Ok(next, Sh(h + 2, l, s, 2), Sh(h + 2, l, s, 2), {})
      BY OkStay
    <2>2. Ok(assert(Peek(Idents), b1, b2), Sh(h + 2, l, s, 2), Sh(h + 1, l, s, 2),
         {}) /\ ~IsLoop(assert(Peek(Idents), b1, b2))
      BY <1>1, <1>2, FailSh, OkAssert
    <2> QED
      BY <2>1, <2>2, <1>0, <1>01, Block2 DEF b3
  <1>4. Typed(b4, Sh(h + 2, l, s, 2), Sh(h + 1, l, s, 2), {})
    <2>1. Ok(make("import", 1), Sh(h + 2, l, s, 2), Sh(h + 2, l, s, 2), {})
      BY OkMake, OtherKinds DEF Kept, Failed, Sound
    <2>2. Ok(append, Sh(h + 2, l, s, 2), Sh(h + 1, l, s, 2), {})
      BY OkAppend DEF Kept, Failed, Sound
    <2> QED
      BY <2>1, <2>2, <1>0, <1>01, Block2 DEF b4
  <1>5. Typed(b5, Sh(h + 1, l, s, 2), Sh(h + 1, l, s, 2), {})
    <2>1. Ok(call("ident"), Sh(h + 1, l, s, 2), Sh(h + 2, l, s, 2), {})
      BY OkPushes DEF Pushers
    <2>2. Ok(when(Peek({":="}), b3, b4), Sh(h + 2, l, s, 2), Sh(h + 1, l, s, 2),
         {}) /\ ~IsLoop(when(Peek({":="}), b3, b4))
      BY <1>3, <1>4, OkWhen
    <2> QED
      BY <2>1, <2>2, <1>0, <1>01, Block2 DEF b5
  <1>6. Typed(b6, Sh(h + 1, l, s, 2), Sh(h + 1, l, s, 2), {})
    <2>1. Ok(assert(Peek(Idents), b5, <<>>), Sh(h + 1, l, s, 2), Sh(h + 1, l, s, 2),
         {}) /\ ~IsLoop(assert(Peek(Idents), b5, <<>>))
      <3>1. Typed(<<>>, Sh(h + 1, l, s, 0), Sh(h + 1, l, s, 2), {})
        BY TypedEmpty, <1>0, <1>01
      <3> QED
        BY <1>5, <3>1, FailSh, OkAssert
    <2> QED
      BY <2>1, <1>0, <1>01, Block1 DEF b6
  <1> QED
    BY <1>6 DEF b1, b2, b3, b4, b5, b6, import

\* The production declarations
LEMMA DeclarationsTyped ==
    ASSUME NEW h \in Nat, NEW l \in Int, NEW s \in Int
    PROVE  Typed(declarations, Sh(h, l, s, 2), Sh(h + 1, l, s, 2), {})
  <1> DEFINE b1 == <<call("const_declarations")>>
             b2 == <<list>>
             b3 == <<resync(SectionsFrom(2))>>
             b4 == <<call("type_declarations")>>
             b5 == <<list>>
             b6 == <<resync(SectionsFrom(3))>>
             b7 == <<call("var_declarations")>>
             b8 == <<list>>
             b9 == <<resync(SectionsFrom(4))>>
             b10 == <<call("procedure")>>
             b11 == <<resync(SectionsFrom(5))>>
             b12 == <<when(Peek({"CONST"}), b1, b2), expect(SectionsFrom(2)),
                    when(Peek({"TYPE"}), b4, b5), expect(SectionsFrom(3)), when(Peek({"VAR"}), b7,
                    b8), expect(SectionsFrom(4)), list, while(Peek({"PROCEDURE"}), b10),
                    expect(SectionsFrom(5)), make("declarations", 4)>>
  <1> HIDE DEF b1, b2, b3, b4, b5, b6, b7, b8, b9, b10, b11, b12
  <1>0. /\ Sh(h + 1, l, s, 0) \in Shape
        /\ Sh(h + 1, l, s, 2) \in Shape
        /\ Sh(h + 2, l, s, 0) \in Shape
        /\ Sh(h + 2, l, s, 2) \in Shape
        /\ Sh(h + 3, l, s, 0) \in Shape
        /\ Sh(h + 3, l, s, 2) \in Shape
        /\ Sh(h + 4, l, s, 0) \in Shape
        /\ Sh(h + 4, l, s, 2) \in Shape
        /\ Sh(h, l, s, 2) \in Shape
    BY ShapesAre
  <1>01. /\ Fits(Sh(h + 1, l, s, 0), Sh(h + 1, l, s, 2))
         /\ Fits(Sh(h + 1, l, s, 2), Sh(h + 1, l, s, 2))
         /\ Fits(Sh(h + 2, l, s, 0), Sh(h + 2, l, s, 2))
         /\ Fits(Sh(h + 2, l, s, 2), Sh(h + 2, l, s, 2))
         /\ Fits(Sh(h + 3, l, s, 0), Sh(h + 3, l, s, 2))
         /\ Fits(Sh(h + 3, l, s, 2), Sh(h + 3, l, s, 2))
         /\ Fits(Sh(h + 4, l, s, 0), Sh(h + 4, l, s, 2))
         /\ Fits(Sh(h + 4, l, s, 2), Sh(h + 4, l, s, 2))
    BY ShFits
  <1>00. {Sh(h + 4, l, s, 2)} \in SUBSET Shape
    BY <1>0
  <1>1. Typed(b1, Sh(h, l, s, 2), Sh(h + 1, l, s, 2), {})
    <2>1. Ok(call("const_declarations"), Sh(h, l, s, 2), Sh(h + 1, l, s, 2), {})
      BY OkPushes DEF Pushers
    <2> QED
      BY <2>1, <1>0, <1>01, Block1 DEF b1
  <1>2. Typed(b2, Sh(h, l, s, 2), Sh(h + 1, l, s, 2), {})
    <2>1. Ok(list, Sh(h, l, s, 2), Sh(h + 1, l, s, 2), {})
      BY OkPush, OtherKinds DEF list, Kept, Failed, Sound
    <2> QED
      BY <2>1, <1>0, <1>01, Block1 DEF b2
  <1>3. Typed(b3, Sh(h + 1, l, s, 0), Sh(h + 1, l, s, 2), {})
    <2>1. Ok(resync(SectionsFrom(2)), Sh(h + 1, l, s, 0), Sh(h + 1, l, s, 0), {})
      BY OkStay
    <2> QED
      BY <2>1, <1>0, <1>01, Block1 DEF b3
  <1>4. Typed(b4, Sh(h + 1, l, s, 2), Sh(h + 2, l, s, 2), {})
    <2>1. Ok(call("type_declarations"), Sh(h + 1, l, s, 2), Sh(h + 2, l, s, 2), {})
      BY OkPushes DEF Pushers
    <2> QED
      BY <2>1, <1>0, <1>01, Block1 DEF b4
  <1>5. Typed(b5, Sh(h + 1, l, s, 2), Sh(h + 2, l, s, 2), {})
    <2>1. Ok(list, Sh(h + 1, l, s, 2), Sh(h + 2, l, s, 2), {})
      BY OkPush, OtherKinds DEF list, Kept, Failed, Sound
    <2> QED
      BY <2>1, <1>0, <1>01, Block1 DEF b5
  <1>6. Typed(b6, Sh(h + 2, l, s, 0), Sh(h + 2, l, s, 2), {})
    <2>1. Ok(resync(SectionsFrom(3)), Sh(h + 2, l, s, 0), Sh(h + 2, l, s, 0), {})
      BY OkStay
    <2> QED
      BY <2>1, <1>0, <1>01, Block1 DEF b6
  <1>7. Typed(b7, Sh(h + 2, l, s, 2), Sh(h + 3, l, s, 2), {})
    <2>1. Ok(call("var_declarations"), Sh(h + 2, l, s, 2), Sh(h + 3, l, s, 2), {})
      BY OkPushes DEF Pushers
    <2> QED
      BY <2>1, <1>0, <1>01, Block1 DEF b7
  <1>8. Typed(b8, Sh(h + 2, l, s, 2), Sh(h + 3, l, s, 2), {})
    <2>1. Ok(list, Sh(h + 2, l, s, 2), Sh(h + 3, l, s, 2), {})
      BY OkPush, OtherKinds DEF list, Kept, Failed, Sound
    <2> QED
      BY <2>1, <1>0, <1>01, Block1 DEF b8
  <1>9. Typed(b9, Sh(h + 3, l, s, 0), Sh(h + 3, l, s, 2), {})
    <2>1. Ok(resync(SectionsFrom(4)), Sh(h + 3, l, s, 0), Sh(h + 3, l, s, 0), {})
      BY OkStay
    <2> QED
      BY <2>1, <1>0, <1>01, Block1 DEF b9
  <1>10. Typed(b10, Sh(h + 4, l, s, 2), Sh(h + 4, l, s, 2), {Sh(h + 4, l, s, 2)})
    <2>1. Ok(call("procedure"), Sh(h + 4, l, s, 2), Sh(h + 4, l, s, 2), {Sh(h + 4, l, s, 2)})
      BY OkAdds DEF Appenders
    <2> QED
      BY <2>1, <1>0, <1>00, <1>01, LoopBlock1 DEF b10
  <1>11. Typed(b11, Sh(h + 4, l, s, 0), Sh(h + 4, l, s, 2), {})
    <2>1. Ok(resync(SectionsFrom(5)), Sh(h + 4, l, s, 0), Sh(h + 4, l, s, 0), {})
      BY OkStay
    <2> QED
      BY <2>1, <1>0, <1>01, Block1 DEF b11
  <1>12. Typed(b12, Sh(h, l, s, 2), Sh(h + 1, l, s, 2), {})
    <2>1. Ok(when(Peek({"CONST"}), b1, b2), Sh(h, l, s, 2), Sh(h + 1, l, s, 2),
         {}) /\ ~IsLoop(when(Peek({"CONST"}), b1, b2))
      BY <1>1, <1>2, OkWhen
    <2>2. Ok(expect(SectionsFrom(2)), Sh(h + 1, l, s, 2), Sh(h + 1, l, s, 2),
         {}) /\ ~IsLoop(expect(SectionsFrom(2)))
      <3>1. Typed(<<>>, Sh(h + 1, l, s, 2), Sh(h + 1, l, s, 2), {})
        BY TypedEmpty, <1>0, <1>01
      <3> QED
        BY <3>1, <1>3, FailSh, OkAssert DEF expect, b3
    <2>3. Ok(when(Peek({"TYPE"}), b4, b5), Sh(h + 1, l, s, 2), Sh(h + 2, l, s, 2),
         {}) /\ ~IsLoop(when(Peek({"TYPE"}), b4, b5))
      BY <1>4, <1>5, OkWhen
    <2>4. Ok(expect(SectionsFrom(3)), Sh(h + 2, l, s, 2), Sh(h + 2, l, s, 2),
         {}) /\ ~IsLoop(expect(SectionsFrom(3)))
      <3>1. Typed(<<>>, Sh(h + 2, l, s, 2), Sh(h + 2, l, s, 2), {})
        BY TypedEmpty, <1>0, <1>01
      <3> QED
        BY <3>1, <1>6, FailSh, OkAssert DEF expect, b6
    <2>5. Ok(when(Peek({"VAR"}), b7, b8), Sh(h + 2, l, s, 2), Sh(h + 3, l, s, 2),
         {}) /\ ~IsLoop(when(Peek({"VAR"}), b7, b8))
      BY <1>7, <1>8, OkWhen
    <2>6. Ok(expect(SectionsFrom(4)), Sh(h + 3, l, s, 2), Sh(h + 3, l, s, 2),
         {}) /\ ~IsLoop(expect(SectionsFrom(4)))
      <3>1. Typed(<<>>, Sh(h + 3, l, s, 2), Sh(h + 3, l, s, 2), {})
        BY TypedEmpty, <1>0, <1>01
      <3> QED
        BY <3>1, <1>9, FailSh, OkAssert DEF expect, b9
    <2>7. Ok(list, Sh(h + 3, l, s, 2), Sh(h + 4, l, s, 2), {})
      BY OkPush, OtherKinds DEF list, Kept, Failed, Sound
    <2>8. Ok(while(Peek({"PROCEDURE"}), b10), Sh(h + 4, l, s, 2), Sh(h + 4, l, s, 2), {})
      BY <1>10, <1>0, OkWhile
    <2>9. Ok(expect(SectionsFrom(5)), Sh(h + 4, l, s, 2), Sh(h + 4, l, s, 2),
         {}) /\ ~IsLoop(expect(SectionsFrom(5)))
      <3>1. Typed(<<>>, Sh(h + 4, l, s, 2), Sh(h + 4, l, s, 2), {})
        BY TypedEmpty, <1>0, <1>01
      <3> QED
        BY <3>1, <1>11, FailSh, OkAssert DEF expect, b11
    <2>10. Ok(make("declarations", 4), Sh(h + 4, l, s, 2), Sh(h + 1, l, s, 2), {})
      BY OkMake, OtherKinds DEF Kept, Failed, Sound
    <2> QED
      BY <2>1, <2>2, <2>3, <2>4, <2>5, <2>6, <2>7, <2>8, <2>9, <2>10, <1>0, <1>01,
         Block10 DEF b12
  <1> QED
    BY <1>12 DEF b1, b2, b3, b4, b5, b6, b7, b8, b9, b10, b11, b12, declarations

\* The production const_declarations
LEMMA ConstDeclarationsTyped ==
    ASSUME NEW h \in Nat, NEW l \in Int, NEW s \in Int
    PROVE  Typed(const_declarations, Sh(h, l, s, 2), Sh(h + 1, l, s, 2), {})
  <1> DEFINE b1 == <<report>>
             b2 == <<call("expression"), make("const", 2), append, fetch,
                   unless(Local({";"}), b1)>>
             b3 == <<drop(1)>>
             b4 == <<call("identdef"), fetch, assert(Local({"="}), b2, b3)>>
             b5 == <<report>>
             b6 == <<next, list, while(Peek(Idents), b4), when(IsEmpty, b5, <<>>)>>
  <1> HIDE DEF b1, b2, b3, b4, b5, b6
  <1>0. /\ Sh(h + 1, l, s, 0) \in Shape
        /\ Sh(h + 1, l, s, 2) \in Shape
        /\ Sh(h + 2, l, s, 0) \in Shape
        /\ Sh(h + 2, l, s, 2) \in Shape
        /\ Sh(h + 3, l, s, 2) \in Shape
        /\ Sh(h, l, s, 2) \in Shape
    BY ShapesAre
  <1>01. /\ Fits(Sh(h + 1, l, s, 0), Sh(h + 1, l, s, 2))
         /\ Fits(Sh(h + 1, l, s, 2), Sh(h + 1, l, s, 2))
    BY ShFits
  <1>00. {Sh(h + 1, l, s, 2)} \in SUBSET Shape
    BY <1>0
  <1>1. Typed(b1, Sh(h + 1, l, s, 2), Sh(h + 1, l, s, 2), {Sh(h + 1, l, s, 2)})
    <2>1. Ok(report, Sh(h + 1, l, s, 2), Sh(h + 1, l, s, 0), {Sh(h + 1, l, s, 2)})
      BY OkReport
    <2> QED
      BY <2>1, <1>0, <1>00, <1>01, LoopBlock1 DEF b1
  <1>2. Typed(b2, Sh(h + 2, l, s, 2), Sh(h + 1, l, s, 2), {Sh(h + 1, l, s, 2)})
    <2>1. Ok(call("expression"), Sh(h + 2, l, s, 2), Sh(h + 3, l, s, 2), {Sh(h + 1, l, s, 2)})
      BY OkPushes DEF Pushers
    <2>2. Ok(make("const", 2), Sh(h + 3, l, s, 2), Sh(h + 2, l, s, 2), {Sh(h + 1, l, s, 2)})
      BY OkMake, OtherKinds DEF Kept, Failed, Sound
    <2>3. Ok(append, Sh(h + 2, l, s, 2), Sh(h + 1, l, s, 2), {Sh(h + 1, l, s, 2)})
      BY OkAppend DEF Kept, Failed, Sound
    <2>4. Ok(fetch, Sh(h + 1, l, s, 2), Sh(h + 1, l, s, 2), {Sh(h + 1, l, s, 2)})
      BY OkStay
    <2>5. Ok(unless(Local({";"}), b1), Sh(h + 1, l, s, 2), Sh(h + 1, l, s, 2), {Sh(h + 1, l,
         s, 2)}) /\ ~IsLoop(unless(Local({";"}), b1))
      <3>1. Typed(<<>>, Sh(h + 1, l, s, 2), Sh(h + 1, l, s, 2), {Sh(h + 1, l, s, 2)})
        BY TypedEmpty, <1>0, <1>01
      <3> QED
        BY <3>1, <1>1, OkWhen DEF unless
    <2> QED
      BY <2>1, <2>2, <2>3, <2>4, <2>5, <1>0, <1>00, <1>01, NotLoops, LoopBlock5 DEF b2
  <1>3. Typed(b3, Sh(h + 2, l, s, 0), Sh(h + 1, l, s, 2), {Sh(h + 1, l, s, 2)})
    <2>1. Ok(drop(1), Sh(h + 2, l, s, 0), Sh(h + 1, l, s, 0), {Sh(h + 1, l, s, 2)})
      BY OkDrop DEF Kept, Failed, Sound
    <2> QED
      BY <2>1, <1>0, <1>00, <1>01, LoopBlock1 DEF b3
  <1>4. Typed(b4, Sh(h + 1, l, s, 2), Sh(h + 1, l, s, 2), {Sh(h + 1, l, s, 2)})
    <2>1. Ok(call("identdef"), Sh(h + 1, l, s, 2), Sh(h + 2, l, s, 2), {Sh(h + 1, l, s, 2)})
      BY OkPushes DEF Pushers
    <2>2. Ok(fetch, Sh(h + 2, l, s, 2), Sh(h + 2, l, s, 2), {Sh(h + 1, l, s, 2)})
      BY OkStay
    <2>3. Ok(assert(Local({"="}), b2, b3), Sh(h + 2, l, s, 2), Sh(h + 1, l, s, 2), {Sh(h + 1,
         l, s, 2)}) /\ ~IsLoop(assert(Local({"="}), b2, b3))
      BY <1>2, <1>3, FailSh, OkAssert
    <2> QED
      BY <2>1, <2>2, <2>3, <1>0, <1>00, <1>01, NotLoops, LoopBlock3 DEF b4
  <1>5. Typed(b5, Sh(h + 1, l, s, 2), Sh(h + 1, l, s, 2), {})
    <2>1. Ok(report, Sh(h + 1, l, s, 2), Sh(h + 1, l, s, 0), {})
      BY OkReport
    <2> QED
      BY <2>1, <1>0, <1>01, Block1 DEF b5
  <1>6. Typed(b6, Sh(h, l, s, 2), Sh(h + 1, l, s, 2), {})
    <2>1. Ok(next, Sh(h, l, s, 2), Sh(h, l, s, 2), {})
      BY OkStay
    <2>2. Ok(list, Sh(h, l, s, 2), Sh(h + 1, l, s, 2), {})
      BY OkPush, OtherKinds DEF list, Kept, Failed, Sound
    <2>3. Ok(while(Peek(Idents), b4), Sh(h + 1, l, s, 2), Sh(h + 1, l, s, 2), {})
      BY <1>4, <1>0, OkWhile
    <2>4. Ok(when(IsEmpty, b5, <<>>), Sh(h + 1, l, s, 2), Sh(h + 1, l, s, 2),
         {}) /\ ~IsLoop(when(IsEmpty, b5, <<>>))
      <3>1. Typed(<<>>, Sh(h + 1, l, s, 2), Sh(h + 1, l, s, 2), {})
        BY TypedEmpty, <1>0, <1>01
      <3> QED
        BY <1>5, <3>1, OkWhen
    <2> QED
      BY <2>1, <2>2, <2>3, <2>4, <1>0, <1>01, Block4 DEF b6
  <1> QED
    BY <1>6 DEF b1, b2, b3, b4, b5, b6, const_declarations

\* The production type_declarations
LEMMA TypeDeclarationsTyped ==
    ASSUME NEW h \in Nat, NEW l \in Int, NEW s \in Int
    PROVE  Typed(type_declarations, Sh(h, l, s, 2), Sh(h + 1, l, s, 2), {})
  <1> DEFINE b1 == <<call("pointer_type")>>
             b2 == <<call("type")>>
             b3 == <<next>>
             b4 == <<next, when(Peek({"POINTER"}), b1, b2), make("type", 2), append,
                   assert(Peek({";"}), b3, <<>>)>>
             b5 == <<drop(1)>>
             b6 == <<call("identdef"), assert(Peek({"="}), b4, b5)>>
             b7 == <<report>>
             b8 == <<next, list, while(Peek(Idents), b6), when(IsEmpty, b7, <<>>)>>
  <1> HIDE DEF b1, b2, b3, b4, b5, b6, b7, b8
  <1>0. /\ Sh(h + 1, l, s, 0) \in Shape
        /\ Sh(h + 1, l, s, 2) \in Shape
        /\ Sh(h + 2, l, s, 0) \in Shape
        /\ Sh(h + 2, l, s, 2) \in Shape
        /\ Sh(h + 3, l, s, 2) \in Shape
        /\ Sh(h, l, s, 2) \in Shape
    BY ShapesAre
  <1>01. /\ Fits(Sh(h + 1, l, s, 0), Sh(h + 1, l, s, 2))
         /\ Fits(Sh(h + 1, l, s, 2), Sh(h + 1, l, s, 2))
         /\ Fits(Sh(h + 3, l, s, 2), Sh(h + 3, l, s, 2))
    BY ShFits
  <1>00. {Sh(h + 1, l, s, 2)} \in SUBSET Shape
    BY <1>0
  <1>1. Typed(b1, Sh(h + 2, l, s, 2), Sh(h + 3, l, s, 2), {Sh(h + 1, l, s, 2)})
    <2>1. Ok(call("pointer_type"), Sh(h + 2, l, s, 2), Sh(h + 3, l, s, 2), {Sh(h + 1, l, s,
         2)})
      BY OkPushes DEF Pushers
    <2> QED
      BY <2>1, <1>0, <1>00, <1>01, LoopBlock1 DEF b1
  <1>2. Typed(b2, Sh(h + 2, l, s, 2), Sh(h + 3, l, s, 2), {Sh(h + 1, l, s, 2)})
    <2>1. Ok(call("type"), Sh(h + 2, l, s, 2), Sh(h + 3, l, s, 2), {Sh(h + 1, l, s, 2)})
      BY OkPushes DEF Pushers
    <2> QED
      BY <2>1, <1>0, <1>00, <1>01, LoopBlock1 DEF b2
  <1>3. Typed(b3, Sh(h + 1, l, s, 2), Sh(h + 1, l, s, 2), {Sh(h + 1, l, s, 2)})
    <2>1. Ok(next, Sh(h + 1, l, s, 2), Sh(h + 1, l, s, 2), {Sh(h + 1, l, s, 2)})
      BY OkStay
    <2> QED
      BY <2>1, <1>0, <1>00, <1>01, LoopBlock1 DEF b3
  <1>4. Typed(b4, Sh(h + 2, l, s, 2), Sh(h + 1, l, s, 2), {Sh(h + 1, l, s, 2)})
    <2>1. Ok(next, Sh(h + 2, l, s, 2), Sh(h + 2, l, s, 2), {Sh(h + 1, l, s, 2)})
      BY OkStay
    <2>2. Ok(when(Peek({"POINTER"}), b1, b2), Sh(h + 2, l, s, 2), Sh(h + 3, l, s, 2),
         {Sh(h + 1, l, s, 2)}) /\ ~IsLoop(when(Peek({"POINTER"}), b1, b2))
      BY <1>1, <1>2, OkWhen
    <2>3. Ok(make("type", 2), Sh(h + 3, l, s, 2), Sh(h + 2, l, s, 2), {Sh(h + 1, l, s, 2)})
      BY OkMake, OtherKinds DEF Kept, Failed, Sound
    <2>4. Ok(append, Sh(h + 2, l, s, 2), Sh(h + 1, l, s, 2), {Sh(h + 1, l, s, 2)})
      BY OkAppend DEF Kept, Failed, Sound
    <2>5. Ok(assert(Peek({";"}), b3, <<>>), Sh(h + 1, l, s, 2), Sh(h + 1, l, s, 2), {Sh(h + 1,
         l, s, 2)}) /\ ~IsLoop(assert(Peek({";"}), b3, <<>>))
      <3>1. Typed(<<>>, Sh(h + 1, l, s, 0), Sh(h + 1, l, s, 2), {Sh(h + 1, l, s, 2)})
        BY TypedEmpty, <1>0, <1>01
      <3> QED
        BY <1>3, <3>1, FailSh, OkAssert
    <2> QED
      BY <2>1, <2>2, <2>3, <2>4, <2>5, <1>0, <1>00, <1>01, NotLoops, LoopBlock5 DEF b4
  <1>5. Typed(b5, Sh(h + 2, l, s, 0), Sh(h + 1, l, s, 2), {Sh(h + 1, l, s, 2)})
    <2>1. Ok(drop(1), Sh(h + 2, l, s, 0), Sh(h + 1, l, s, 0), {Sh(h + 1, l, s, 2)})
      BY OkDrop DEF Kept, Failed, Sound
    <2> QED
      BY <2>1, <1>0, <1>00, <1>01, LoopBlock1 DEF b5
  <1>6. Typed(b6, Sh(h + 1, l, s, 2), Sh(h + 1, l, s, 2), {Sh(h + 1, l, s, 2)})
    <2>1. Ok(call("identdef"), Sh(h + 1, l, s, 2), Sh(h + 2, l, s, 2), {Sh(h + 1, l, s, 2)})
      BY OkPushes DEF Pushers
    <2>2. Ok(assert(Peek({"="}), b4, b5), Sh(h + 2, l, s, 2), Sh(h + 1, l, s, 2), {Sh(h + 1,
         l, s, 2)}) /\ ~IsLoop(assert(Peek({"="}), b4, b5))
      BY <1>4, <1>5, FailSh, OkAssert
    <2> QED
      BY <2>1, <2>2, <1>0, <1>00, <1>01, NotLoops, LoopBlock2 DEF b6
  <1>7. Typed(b7, Sh(h + 1, l, s, 2), Sh(h + 1, l, s, 2), {})
    <2>1. Ok(report, Sh(h + 1, l, s, 2), Sh(h + 1, l, s, 0), {})
      BY OkReport
    <2> QED
      BY <2>1, <1>0, <1>01, Block1 DEF b7
  <1>8. Typed(b8, Sh(h, l, s, 2), Sh(h + 1, l, s, 2), {})
    <2>1. Ok(next, Sh(h, l, s, 2), Sh(h, l, s, 2), {})
      BY OkStay
    <2>2. Ok(list, Sh(h, l, s, 2), Sh(h + 1, l, s, 2), {})
      BY OkPush, OtherKinds DEF list, Kept, Failed, Sound
    <2>3. Ok(while(Peek(Idents), b6), Sh(h + 1, l, s, 2), Sh(h + 1, l, s, 2), {})
      BY <1>6, <1>0, OkWhile
    <2>4. Ok(when(IsEmpty, b7, <<>>), Sh(h + 1, l, s, 2), Sh(h + 1, l, s, 2),
         {}) /\ ~IsLoop(when(IsEmpty, b7, <<>>))
      <3>1. Typed(<<>>, Sh(h + 1, l, s, 2), Sh(h + 1, l, s, 2), {})
        BY TypedEmpty, <1>0, <1>01
      <3> QED
        BY <1>7, <3>1, OkWhen
    <2> QED
      BY <2>1, <2>2, <2>3, <2>4, <1>0, <1>01, Block4 DEF b8
  <1> QED
    BY <1>8 DEF b1, b2, b3, b4, b5, b6, b7, b8, type_declarations

\* The production var_declarations
LEMMA VarDeclarationsTyped ==
    ASSUME NEW h \in Nat, NEW l \in Int, NEW s \in Int
    PROVE  Typed(var_declarations, Sh(h, l, s, 2), Sh(h + 1, l, s, 2), {})
  <1> DEFINE b1 == <<next>>
             b2 == <<next, call("type"), make("var", 2), append, assert(Peek({";"}), b1,
                   <<>>)>>
             b3 == <<drop(1)>>
             b4 == <<call("ident_list"), assert(Peek({":"}), b2, b3)>>
             b5 == <<report>>
             b6 == <<next, list, while(Peek(Idents), b4), when(IsEmpty, b5, <<>>)>>
  <1> HIDE DEF b1, b2, b3, b4, b5, b6
  <1>0. /\ Sh(h + 1, l, s, 0) \in Shape
        /\ Sh(h + 1, l, s, 2) \in Shape
        /\ Sh(h + 2, l, s, 0) \in Shape
        /\ Sh(h + 2, l, s, 2) \in Shape
        /\ Sh(h + 3, l, s, 2) \in Shape
        /\ Sh(h, l, s, 2) \in Shape
    BY ShapesAre
  <1>01. /\ Fits(Sh(h + 1, l, s, 0), Sh(h + 1, l, s, 2))
         /\ Fits(Sh(h + 1, l, s, 2), Sh(h + 1, l, s, 2))
    BY ShFits
  <1>00. {Sh(h + 1, l, s, 2)} \in SUBSET Shape
    BY <1>0
  <1>1. Typed(b1, Sh(h + 1, l, s, 2), Sh(h + 1, l, s, 2), {Sh(h + 1, l, s, 2)})
    <2>1. Ok(next, Sh(h + 1, l, s, 2), Sh(h + 1, l, s, 2), {Sh(h + 1, l, s, 2)})
      BY OkStay
    <2> QED
      BY <2>1, <1>0, <1>00, <1>01, LoopBlock1 DEF b1
  <1>2. Typed(b2, Sh(h + 2, l, s, 2), Sh(h + 1, l, s, 2), {Sh(h + 1, l, s, 2)})
    <2>1. Ok(next, Sh(h + 2, l, s, 2), Sh(h + 2, l, s, 2), {Sh(h + 1, l, s, 2)})
      BY OkStay
    <2>2. Ok(call("type"), Sh(h + 2, l, s, 2), Sh(h + 3, l, s, 2), {Sh(h + 1, l, s, 2)})
      BY OkPushes DEF Pushers
    <2>3. Ok(make("var", 2), Sh(h + 3, l, s, 2), Sh(h + 2, l, s, 2), {Sh(h + 1, l, s, 2)})
      BY OkMake, OtherKinds DEF Kept, Failed, Sound
    <2>4. Ok(append, Sh(h + 2, l, s, 2), Sh(h + 1, l, s, 2), {Sh(h + 1, l, s, 2)})
      BY OkAppend DEF Kept, Failed, Sound
    <2>5. Ok(assert(Peek({";"}), b1, <<>>), Sh(h + 1, l, s, 2), Sh(h + 1, l, s, 2), {Sh(h + 1,
         l, s, 2)}) /\ ~IsLoop(assert(Peek({";"}), b1, <<>>))
      <3>1. Typed(<<>>, Sh(h + 1, l, s, 0), Sh(h + 1, l, s, 2), {Sh(h + 1, l, s, 2)})
        BY TypedEmpty, <1>0, <1>01
      <3> QED
        BY <1>1, <3>1, FailSh, OkAssert
    <2> QED
      BY <2>1, <2>2, <2>3, <2>4, <2>5, <1>0, <1>00, <1>01, NotLoops, LoopBlock5 DEF b2
  <1>3. Typed(b3, Sh(h + 2, l, s, 0), Sh(h + 1, l, s, 2), {Sh(h + 1, l, s, 2)})
    <2>1. Ok(drop(1), Sh(h + 2, l, s, 0), Sh(h + 1, l, s, 0), {Sh(h + 1, l, s, 2)})
      BY OkDrop DEF Kept, Failed, Sound
    <2> QED
      BY <2>1, <1>0, <1>00, <1>01, LoopBlock1 DEF b3
  <1>4. Typed(b4, Sh(h + 1, l, s, 2), Sh(h + 1, l, s, 2), {Sh(h + 1, l, s, 2)})
    <2>1. Ok(call("ident_list"), Sh(h + 1, l, s, 2), Sh(h + 2, l, s, 2), {Sh(h + 1, l, s, 2)})
      BY OkPushes DEF Pushers
    <2>2. Ok(assert(Peek({":"}), b2, b3), Sh(h + 2, l, s, 2), Sh(h + 1, l, s, 2), {Sh(h + 1,
         l, s, 2)}) /\ ~IsLoop(assert(Peek({":"}), b2, b3))
      BY <1>2, <1>3, FailSh, OkAssert
    <2> QED
      BY <2>1, <2>2, <1>0, <1>00, <1>01, NotLoops, LoopBlock2 DEF b4
  <1>5. Typed(b5, Sh(h + 1, l, s, 2), Sh(h + 1, l, s, 2), {})
    <2>1. Ok(report, Sh(h + 1, l, s, 2), Sh(h + 1, l, s, 0), {})
      BY OkReport
    <2> QED
      BY <2>1, <1>0, <1>01, Block1 DEF b5
  <1>6. Typed(b6, Sh(h, l, s, 2), Sh(h + 1, l, s, 2), {})
    <2>1. Ok(next, Sh(h, l, s, 2), Sh(h, l, s, 2), {})
      BY OkStay
    <2>2. Ok(list, Sh(h, l, s, 2), Sh(h + 1, l, s, 2), {})
      BY OkPush, OtherKinds DEF list, Kept, Failed, Sound
    <2>3. Ok(while(Peek(Idents), b4), Sh(h + 1, l, s, 2), Sh(h + 1, l, s, 2), {})
      BY <1>4, <1>0, OkWhile
    <2>4. Ok(when(IsEmpty, b5, <<>>), Sh(h + 1, l, s, 2), Sh(h + 1, l, s, 2),
         {}) /\ ~IsLoop(when(IsEmpty, b5, <<>>))
      <3>1. Typed(<<>>, Sh(h + 1, l, s, 2), Sh(h + 1, l, s, 2), {})
        BY TypedEmpty, <1>0, <1>01
      <3> QED
        BY <1>5, <3>1, OkWhen
    <2> QED
      BY <2>1, <2>2, <2>3, <2>4, <1>0, <1>01, Block4 DEF b6
  <1> QED
    BY <1>6 DEF b1, b2, b3, b4, b5, b6, var_declarations

\* The production type
LEMMA TypeTyped ==
    ASSUME NEW h \in Nat, NEW l \in Int, NEW s \in Int
    PROVE  Typed(type, Sh(h, l, s, 2), Sh(h + 1, l, s, 2), {})
  <1> DEFINE b1 == <<call("qualident")>>
             b2 == <<call("array_type")>>
             b3 == <<call("record_type")>>
             b4 == <<call("pointer_type")>>
             b5 == <<call("procedure_type")>>
             b6 == <<report, resync(AfterType), null>>
             b7 == <<when(Peek({"PROCEDURE"}), b5, b6)>>
             b8 == <<when(Peek({"POINTER"}), b4, b7)>>
             b9 == <<when(Peek({"RECORD"}), b3, b8)>>
             b10 == <<when(Peek({"ARRAY"}), b2, b9)>>
             b11 == <<when(Peek(Idents), b1, b10)>>
  <1> HIDE DEF b1, b2, b3, b4, b5, b6, b7, b8, b9, b10, b11
  <1>0. /\ Sh(h + 1, l, s, 0) \in Shape
        /\ Sh(h + 1, l, s, 2) \in Shape
        /\ Sh(h, l, s, 0) \in Shape
        /\ Sh(h, l, s, 2) \in Shape
    BY ShapesAre
  <1>01. /\ Fits(Sh(h + 1, l, s, 0), Sh(h + 1, l, s, 2))
         /\ Fits(Sh(h + 1, l, s, 2), Sh(h + 1, l, s, 2))
    BY ShFits
  <1>1. Typed(b1, Sh(h, l, s, 2), Sh(h + 1, l, s, 2), {})
    <2>1. Ok(call("qualident"), Sh(h, l, s, 2), Sh(h + 1, l, s, 2), {})
      BY OkPushes DEF Pushers
    <2> QED
      BY <2>1, <1>0, <1>01, Block1 DEF b1
  <1>2. Typed(b2, Sh(h, l, s, 2), Sh(h + 1, l, s, 2), {})
    <2>1. Ok(call("array_type"), Sh(h, l, s, 2), Sh(h + 1, l, s, 2), {})
      BY OkPushes DEF Pushers
    <2> QED
      BY <2>1, <1>0, <1>01, Block1 DEF b2
  <1>3. Typed(b3, Sh(h, l, s, 2), Sh(h + 1, l, s, 2), {})
    <2>1. Ok(call("record_type"), Sh(h, l, s, 2), Sh(h + 1, l, s, 2), {})
      BY OkPushes DEF Pushers
    <2> QED
      BY <2>1, <1>0, <1>01, Block1 DEF b3
  <1>4. Typed(b4, Sh(h, l, s, 2), Sh(h + 1, l, s, 2), {})
    <2>1. Ok(call("pointer_type"), Sh(h, l, s, 2), Sh(h + 1, l, s, 2), {})
      BY OkPushes DEF Pushers
    <2> QED
      BY <2>1, <1>0, <1>01, Block1 DEF b4
  <1>5. Typed(b5, Sh(h, l, s, 2), Sh(h + 1, l, s, 2), {})
    <2>1. Ok(call("procedure_type"), Sh(h, l, s, 2), Sh(h + 1, l, s, 2), {})
      BY OkPushes DEF Pushers
    <2> QED
      BY <2>1, <1>0, <1>01, Block1 DEF b5
  <1>6. Typed(b6, Sh(h, l, s, 2), Sh(h + 1, l, s, 2), {})
    <2>1. Ok(report, Sh(h, l, s, 2), Sh(h, l, s, 0), {})
      BY OkReport
    <2>2. Ok(resync(AfterType), Sh(h, l, s, 0), Sh(h, l, s, 0), {})
      BY OkStay
    <2>3. Ok(null, Sh(h, l, s, 0), Sh(h + 1, l, s, 0), {})
      BY OkNull
    <2> QED
      BY <2>1, <2>2, <2>3, <1>0, <1>01, Block3 DEF b6
  <1>7. Typed(b7, Sh(h, l, s, 2), Sh(h + 1, l, s, 2), {})
    <2>1. Ok(when(Peek({"PROCEDURE"}), b5, b6), Sh(h, l, s, 2), Sh(h + 1, l, s, 2),
         {}) /\ ~IsLoop(when(Peek({"PROCEDURE"}), b5, b6))
      BY <1>5, <1>6, OkWhen
    <2> QED
      BY <2>1, <1>0, <1>01, Block1 DEF b7
  <1>8. Typed(b8, Sh(h, l, s, 2), Sh(h + 1, l, s, 2), {})
    <2>1. Ok(when(Peek({"POINTER"}), b4, b7), Sh(h, l, s, 2), Sh(h + 1, l, s, 2),
         {}) /\ ~IsLoop(when(Peek({"POINTER"}), b4, b7))
      BY <1>4, <1>7, OkWhen
    <2> QED
      BY <2>1, <1>0, <1>01, Block1 DEF b8
  <1>9. Typed(b9, Sh(h, l, s, 2), Sh(h + 1, l, s, 2), {})
    <2>1. Ok(when(Peek({"RECORD"}), b3, b8), Sh(h, l, s, 2), Sh(h + 1, l, s, 2),
         {}) /\ ~IsLoop(when(Peek({"RECORD"}), b3, b8))
      BY <1>3, <1>8, OkWhen
    <2> QED
      BY <2>1, <1>0, <1>01, Block1 DEF b9
  <1>10. Typed(b10, Sh(h, l, s, 2), Sh(h + 1, l, s, 2), {})
    <2>1. Ok(when(Peek({"ARRAY"}), b2, b9), Sh(h, l, s, 2), Sh(h + 1, l, s, 2),
         {}) /\ ~IsLoop(when(Peek({"ARRAY"}), b2, b9))
      BY <1>2, <1>9, OkWhen
    <2> QED
      BY <2>1, <1>0, <1>01, Block1 DEF b10
  <1>11. Typed(b11, Sh(h, l, s, 2), Sh(h + 1, l, s, 2), {})
    <2>1. Ok(when(Peek(Idents), b1, b10), Sh(h, l, s, 2), Sh(h + 1, l, s, 2),
         {}) /\ ~IsLoop(when(Peek(Idents), b1, b10))
      BY <1>1, <1>10, OkWhen
    <2> QED
      BY <2>1, <1>0, <1>01, Block1 DEF b11
  <1> QED
    BY <1>11 DEF b1, b2, b3, b4, b5, b6, b7, b8, b9, b10, b11, type

\* The production array_type
LEMMA ArrayTypeTyped ==
    ASSUME NEW h \in Nat, NEW l \in Int, NEW s \in Int
    PROVE  Typed(array_type, Sh(h, l, s, 2), Sh(h + 1, l, s, 2), {})
  <1> DEFINE b1 == <<next, call("expression"), append>>
             b2 == <<call("expression"), append, while(Peek({","}), b1)>>
             b3 == <<next, call("type"), sema("array", 2)>>
             b4 == <<drop(1), resync(AfterType), null>>
             b5 == <<next, list, unless(Peek({"OF"}), b2), assert(Peek({"OF"}), b3, b4)>>
  <1> HIDE DEF b1, b2, b3, b4, b5
  <1>0. /\ Sh(h + 1, l, s, 0) \in Shape
        /\ Sh(h + 1, l, s, 2) \in Shape
        /\ Sh(h + 2, l, s, 2) \in Shape
        /\ Sh(h, l, s, 0) \in Shape
        /\ Sh(h, l, s, 2) \in Shape
    BY ShapesAre
  <1>01. /\ Fits(Sh(h + 1, l, s, 0), Sh(h + 1, l, s, 2))
         /\ Fits(Sh(h + 1, l, s, 2), Sh(h + 1, l, s, 2))
    BY ShFits
  <1>00. {Sh(h + 1, l, s, 2)} \in SUBSET Shape
    BY <1>0
  <1>1. Typed(b1, Sh(h + 1, l, s, 2), Sh(h + 1, l, s, 2), {Sh(h + 1, l, s, 2)})
    <2>1. Ok(next, Sh(h + 1, l, s, 2), Sh(h + 1, l, s, 2), {Sh(h + 1, l, s, 2)})
      BY OkStay
    <2>2. Ok(call("expression"), Sh(h + 1, l, s, 2), Sh(h + 2, l, s, 2), {Sh(h + 1, l, s, 2)})
      BY OkPushes DEF Pushers
    <2>3. Ok(append, Sh(h + 2, l, s, 2), Sh(h + 1, l, s, 2), {Sh(h + 1, l, s, 2)})
      BY OkAppend DEF Kept, Failed, Sound
    <2> QED
      BY <2>1, <2>2, <2>3, <1>0, <1>00, <1>01, NotLoops, LoopBlock3 DEF b1
  <1>2. Typed(b2, Sh(h + 1, l, s, 2), Sh(h + 1, l, s, 2), {})
    <2>1. Ok(call("expression"), Sh(h + 1, l, s, 2), Sh(h + 2, l, s, 2), {})
      BY OkPushes DEF Pushers
    <2>2. Ok(append, Sh(h + 2, l, s, 2), Sh(h + 1, l, s, 2), {})
      BY OkAppend DEF Kept, Failed, Sound
    <2>3. Ok(while(Peek({","}), b1), Sh(h + 1, l, s, 2), Sh(h + 1, l, s, 2), {})
      BY <1>1, <1>0, OkWhile
    <2> QED
      BY <2>1, <2>2, <2>3, <1>0, <1>01, Block3 DEF b2
  <1>3. Typed(b3, Sh(h + 1, l, s, 2), Sh(h + 1, l, s, 2), {})
    <2>1. Ok(next, Sh(h + 1, l, s, 2), Sh(h + 1, l, s, 2), {})
      BY OkStay
    <2>2. Ok(call("type"), Sh(h + 1, l, s, 2), Sh(h + 2, l, s, 2), {})
      BY OkPushes DEF Pushers
    <2>3. Ok(sema("array", 2), Sh(h + 2, l, s, 2), Sh(h + 1, l, s, 2), {})
      BY OkSema DEF SemaKinds, LookingInto, Kept, Failed, Sound
    <2> QED
      BY <2>1, <2>2, <2>3, <1>0, <1>01, Block3 DEF b3
  <1>4. Typed(b4, Sh(h + 1, l, s, 0), Sh(h + 1, l, s, 2), {})
    <2>1. Ok(drop(1), Sh(h + 1, l, s, 0), Sh(h, l, s, 0), {})
      BY OkDrop DEF Kept, Failed, Sound
    <2>2. Ok(resync(AfterType), Sh(h, l, s, 0), Sh(h, l, s, 0), {})
      BY OkStay
    <2>3. Ok(null, Sh(h, l, s, 0), Sh(h + 1, l, s, 0), {})
      BY OkNull
    <2> QED
      BY <2>1, <2>2, <2>3, <1>0, <1>01, Block3 DEF b4
  <1>5. Typed(b5, Sh(h, l, s, 2), Sh(h + 1, l, s, 2), {})
    <2>1. Ok(next, Sh(h, l, s, 2), Sh(h, l, s, 2), {})
      BY OkStay
    <2>2. Ok(list, Sh(h, l, s, 2), Sh(h + 1, l, s, 2), {})
      BY OkPush, OtherKinds DEF list, Kept, Failed, Sound
    <2>3. Ok(unless(Peek({"OF"}), b2), Sh(h + 1, l, s, 2), Sh(h + 1, l, s, 2),
         {}) /\ ~IsLoop(unless(Peek({"OF"}), b2))
      <3>1. Typed(<<>>, Sh(h + 1, l, s, 2), Sh(h + 1, l, s, 2), {})
        BY TypedEmpty, <1>0, <1>01
      <3> QED
        BY <3>1, <1>2, OkWhen DEF unless
    <2>4. Ok(assert(Peek({"OF"}), b3, b4), Sh(h + 1, l, s, 2), Sh(h + 1, l, s, 2),
         {}) /\ ~IsLoop(assert(Peek({"OF"}), b3, b4))
      BY <1>3, <1>4, FailSh, OkAssert
    <2> QED
      BY <2>1, <2>2, <2>3, <2>4, <1>0, <1>01, Block4 DEF b5
  <1> QED
    BY <1>5 DEF b1, b2, b3, b4, b5, array_type

\* The production record_type
LEMMA RecordTypeTyped ==
    ASSUME NEW h \in Nat, NEW l \in Int, NEW s \in Int
    PROVE  Typed(record_type, Sh(h, l, s, 2), Sh(h + 1, l, s, 2), {})
  <1> DEFINE b1 == <<next>>
             b2 == <<next, call("qualident"), assert(Peek({")"}), b1, <<>>)>>
             b3 == <<push("none")>>
             b4 == <<take, call("field_list")>>
             b5 == <<call("field_list"), while(Peek({";"}), b4)>>
             b6 == <<next>>
             b7 == <<next, when(Peek({"("}), b2, b3), list, when(Peek(Idents), b5, <<>>),
                   assert(Peek({"END"}), b6, <<>>), make("record", 2)>>
  <1> HIDE DEF b1, b2, b3, b4, b5, b6, b7
  <1>0. /\ Sh(h + 1, l, s, 0) \in Shape
        /\ Sh(h + 1, l, s, 2) \in Shape
        /\ Sh(h + 2, l, s, 0) \in Shape
        /\ Sh(h + 2, l, s, 2) \in Shape
        /\ Sh(h, l, s, 2) \in Shape
    BY ShapesAre
  <1>01. /\ Fits(Sh(h + 1, l, s, 0), Sh(h + 1, l, s, 2))
         /\ Fits(Sh(h + 1, l, s, 2), Sh(h + 1, l, s, 2))
         /\ Fits(Sh(h + 2, l, s, 0), Sh(h + 2, l, s, 2))
         /\ Fits(Sh(h + 2, l, s, 2), Sh(h + 2, l, s, 2))
    BY ShFits
  <1>00. {Sh(h + 2, l, s, 2)} \in SUBSET Shape
    BY <1>0
  <1>1. Typed(b1, Sh(h + 1, l, s, 2), Sh(h + 1, l, s, 2), {})
    <2>1. Ok(next, Sh(h + 1, l, s, 2), Sh(h + 1, l, s, 2), {})
      BY OkStay
    <2> QED
      BY <2>1, <1>0, <1>01, Block1 DEF b1
  <1>2. Typed(b2, Sh(h, l, s, 2), Sh(h + 1, l, s, 2), {})
    <2>1. Ok(next, Sh(h, l, s, 2), Sh(h, l, s, 2), {})
      BY OkStay
    <2>2. Ok(call("qualident"), Sh(h, l, s, 2), Sh(h + 1, l, s, 2), {})
      BY OkPushes DEF Pushers
    <2>3. Ok(assert(Peek({")"}), b1, <<>>), Sh(h + 1, l, s, 2), Sh(h + 1, l, s, 2),
         {}) /\ ~IsLoop(assert(Peek({")"}), b1, <<>>))
      <3>1. Typed(<<>>, Sh(h + 1, l, s, 0), Sh(h + 1, l, s, 2), {})
        BY TypedEmpty, <1>0, <1>01
      <3> QED
        BY <1>1, <3>1, FailSh, OkAssert
    <2> QED
      BY <2>1, <2>2, <2>3, <1>0, <1>01, Block3 DEF b2
  <1>3. Typed(b3, Sh(h, l, s, 2), Sh(h + 1, l, s, 2), {})
    <2>1. Ok(push("none"), Sh(h, l, s, 2), Sh(h + 1, l, s, 2), {})
      BY OkPush, OtherKinds DEF Kept, Failed, Sound
    <2> QED
      BY <2>1, <1>0, <1>01, Block1 DEF b3
  <1>4. Typed(b4, Sh(h + 2, l, s, 2), Sh(h + 2, l, s, 2), {Sh(h + 2, l, s, 2)})
    <2>1. Ok(take, Sh(h + 2, l, s, 2), Sh(h + 2, l, s, 2), {Sh(h + 2, l, s, 2)})
      BY OkStay
    <2>2. Ok(call("field_list"), Sh(h + 2, l, s, 2), Sh(h + 2, l, s, 2), {Sh(h + 2, l, s, 2)})
      BY OkAdds DEF Appenders
    <2> QED
      BY <2>1, <2>2, <1>0, <1>00, <1>01, NotLoops, LoopBlock2 DEF b4
  <1>5. Typed(b5, Sh(h + 2, l, s, 2), Sh(h + 2, l, s, 2), {})
    <2>1. Ok(call("field_list"), Sh(h + 2, l, s, 2), Sh(h + 2, l, s, 2), {})
      BY OkAdds DEF Appenders
    <2>2. Ok(while(Peek({";"}), b4), Sh(h + 2, l, s, 2), Sh(h + 2, l, s, 2), {})
      BY <1>4, <1>0, OkWhile
    <2> QED
      BY <2>1, <2>2, <1>0, <1>01, Block2 DEF b5
  <1>6. Typed(b6, Sh(h + 2, l, s, 2), Sh(h + 2, l, s, 2), {})
    <2>1. Ok(next, Sh(h + 2, l, s, 2), Sh(h + 2, l, s, 2), {})
      BY OkStay
    <2> QED
      BY <2>1, <1>0, <1>01, Block1 DEF b6
  <1>7. Typed(b7, Sh(h, l, s, 2), Sh(h + 1, l, s, 2), {})
    <2>1. Ok(next, Sh(h, l, s, 2), Sh(h, l, s, 2), {})
      BY OkStay
    <2>2. Ok(when(Peek({"("}), b2, b3), Sh(h, l, s, 2), Sh(h + 1, l, s, 2),
         {}) /\ ~IsLoop(when(Peek({"("}), b2, b3))
      BY <1>2, <1>3, OkWhen
    <2>3. Ok(list, Sh(h + 1, l, s, 2), Sh(h + 2, l, s, 2), {})
      BY OkPush, OtherKinds DEF list, Kept, Failed, Sound
    <2>4. Ok(when(Peek(Idents), b5, <<>>), Sh(h + 2, l, s, 2), Sh(h + 2, l, s, 2),
         {}) /\ ~IsLoop(when(Peek(Idents), b5, <<>>))
      <3>1. Typed(<<>>, Sh(h + 2, l, s, 2), Sh(h + 2, l, s, 2), {})
        BY TypedEmpty, <1>0, <1>01
      <3> QED
        BY <1>5, <3>1, OkWhen
    <2>5. Ok(assert(Peek({"END"}), b6, <<>>), Sh(h + 2, l, s, 2), Sh(h + 2, l, s, 2),
         {}) /\ ~IsLoop(assert(Peek({"END"}), b6, <<>>))
      <3>1. Typed(<<>>, Sh(h + 2, l, s, 0), Sh(h + 2, l, s, 2), {})
        BY TypedEmpty, <1>0, <1>01
      <3> QED
        BY <1>6, <3>1, FailSh, OkAssert
    <2>6. Ok(make("record", 2), Sh(h + 2, l, s, 2), Sh(h + 1, l, s, 2), {})
      BY OkMake, OtherKinds DEF Kept, Failed, Sound
    <2> QED
      BY <2>1, <2>2, <2>3, <2>4, <2>5, <2>6, <1>0, <1>01, Block6 DEF b7
  <1> QED
    BY <1>7 DEF b1, b2, b3, b4, b5, b6, b7, record_type

\* The production field_list
LEMMA FieldListTyped ==
    ASSUME NEW h \in Nat, NEW l \in Int, NEW s \in Int
    PROVE  Typed(field_list, Sh(h + 1, l, s, 2), Sh(h + 1, l, s, 2), {})
  <1> DEFINE b1 == <<call("type"), make("fields", 2), append>>
             b2 == <<drop(1)>>
             b3 == <<call("ident_list"), fetch, assert(Local({":"}), b1, b2)>>
             b4 == <<report>>
             b5 == <<unless(Peek({"END"}), b4)>>
             b6 == <<when(Peek(Idents), b3, b5), resync({";", "END"})>>
  <1> HIDE DEF b1, b2, b3, b4, b5, b6
  <1>0. /\ Sh(h + 1, l, s, 0) \in Shape
        /\ Sh(h + 1, l, s, 2) \in Shape
        /\ Sh(h + 2, l, s, 0) \in Shape
        /\ Sh(h + 2, l, s, 2) \in Shape
        /\ Sh(h + 3, l, s, 2) \in Shape
    BY ShapesAre
  <1>01. /\ Fits(Sh(h + 1, l, s, 0), Sh(h + 1, l, s, 2))
         /\ Fits(Sh(h + 1, l, s, 2), Sh(h + 1, l, s, 2))
    BY ShFits
  <1>1. Typed(b1, Sh(h + 2, l, s, 2), Sh(h + 1, l, s, 2), {})
    <2>1. Ok(call("type"), Sh(h + 2, l, s, 2), Sh(h + 3, l, s, 2), {})
      BY OkPushes DEF Pushers
    <2>2. Ok(make("fields", 2), Sh(h + 3, l, s, 2), Sh(h + 2, l, s, 2), {})
      BY OkMake, OtherKinds DEF Kept, Failed, Sound
    <2>3. Ok(append, Sh(h + 2, l, s, 2), Sh(h + 1, l, s, 2), {})
      BY OkAppend DEF Kept, Failed, Sound
    <2> QED
      BY <2>1, <2>2, <2>3, <1>0, <1>01, Block3 DEF b1
  <1>2. Typed(b2, Sh(h + 2, l, s, 0), Sh(h + 1, l, s, 2), {})
    <2>1. Ok(drop(1), Sh(h + 2, l, s, 0), Sh(h + 1, l, s, 0), {})
      BY OkDrop DEF Kept, Failed, Sound
    <2> QED
      BY <2>1, <1>0, <1>01, Block1 DEF b2
  <1>3. Typed(b3, Sh(h + 1, l, s, 2), Sh(h + 1, l, s, 2), {})
    <2>1. Ok(call("ident_list"), Sh(h + 1, l, s, 2), Sh(h + 2, l, s, 2), {})
      BY OkPushes DEF Pushers
    <2>2. Ok(fetch, Sh(h + 2, l, s, 2), Sh(h + 2, l, s, 2), {})
      BY OkStay
    <2>3. Ok(assert(Local({":"}), b1, b2), Sh(h + 2, l, s, 2), Sh(h + 1, l, s, 2),
         {}) /\ ~IsLoop(assert(Local({":"}), b1, b2))
      BY <1>1, <1>2, FailSh, OkAssert
    <2> QED
      BY <2>1, <2>2, <2>3, <1>0, <1>01, Block3 DEF b3
  <1>4. Typed(b4, Sh(h + 1, l, s, 2), Sh(h + 1, l, s, 2), {})
    <2>1. Ok(report, Sh(h + 1, l, s, 2), Sh(h + 1, l, s, 0), {})
      BY OkReport
    <2> QED
      BY <2>1, <1>0, <1>01, Block1 DEF b4
  <1>5. Typed(b5, Sh(h + 1, l, s, 2), Sh(h + 1, l, s, 2), {})
    <2>1. Ok(unless(Peek({"END"}), b4), Sh(h + 1, l, s, 2), Sh(h + 1, l, s, 2),
         {}) /\ ~IsLoop(unless(Peek({"END"}), b4))
      <3>1. Typed(<<>>, Sh(h + 1, l, s, 2), Sh(h + 1, l, s, 2), {})
        BY TypedEmpty, <1>0, <1>01
      <3> QED
        BY <3>1, <1>4, OkWhen DEF unless
    <2> QED
      BY <2>1, <1>0, <1>01, Block1 DEF b5
  <1>6. Typed(b6, Sh(h + 1, l, s, 2), Sh(h + 1, l, s, 2), {})
    <2>1. Ok(when(Peek(Idents), b3, b5), Sh(h + 1, l, s, 2), Sh(h + 1, l, s, 2),
         {}) /\ ~IsLoop(when(Peek(Idents), b3, b5))
      BY <1>3, <1>5, OkWhen
    <2>2. Ok(resync({";", "END"}), Sh(h + 1, l, s, 2), Sh(h + 1, l, s, 2), {})
      BY OkStay
    <2> QED
      BY <2>1, <2>2, <1>0, <1>01, Block2 DEF b6
  <1> QED
    BY <1>6 DEF b1, b2, b3, b4, b5, b6, field_list

\* The production pointer_type
LEMMA PointerTypeTyped ==
    ASSUME NEW h \in Nat, NEW l \in Int, NEW s \in Int
    PROVE  Typed(pointer_type, Sh(h, l, s, 2), Sh(h + 1, l, s, 2), {})
  <1> DEFINE b1 == <<call("qualident")>>
             b2 == <<call("type")>>
             b3 == <<next, when(Peek(Idents), b1, b2)>>
             b4 == <<resync(AfterType), null>>
             b5 == <<next, assert(Peek({"TO"}), b3, b4), make("pointer", 1)>>
  <1> HIDE DEF b1, b2, b3, b4, b5
  <1>0. /\ Sh(h + 1, l, s, 0) \in Shape
        /\ Sh(h + 1, l, s, 2) \in Shape
        /\ Sh(h, l, s, 0) \in Shape
        /\ Sh(h, l, s, 2) \in Shape
    BY ShapesAre
  <1>01. /\ Fits(Sh(h + 1, l, s, 0), Sh(h + 1, l, s, 2))
         /\ Fits(Sh(h + 1, l, s, 2), Sh(h + 1, l, s, 2))
    BY ShFits
  <1>1. Typed(b1, Sh(h, l, s, 2), Sh(h + 1, l, s, 2), {})
    <2>1. Ok(call("qualident"), Sh(h, l, s, 2), Sh(h + 1, l, s, 2), {})
      BY OkPushes DEF Pushers
    <2> QED
      BY <2>1, <1>0, <1>01, Block1 DEF b1
  <1>2. Typed(b2, Sh(h, l, s, 2), Sh(h + 1, l, s, 2), {})
    <2>1. Ok(call("type"), Sh(h, l, s, 2), Sh(h + 1, l, s, 2), {})
      BY OkPushes DEF Pushers
    <2> QED
      BY <2>1, <1>0, <1>01, Block1 DEF b2
  <1>3. Typed(b3, Sh(h, l, s, 2), Sh(h + 1, l, s, 2), {})
    <2>1. Ok(next, Sh(h, l, s, 2), Sh(h, l, s, 2), {})
      BY OkStay
    <2>2. Ok(when(Peek(Idents), b1, b2), Sh(h, l, s, 2), Sh(h + 1, l, s, 2),
         {}) /\ ~IsLoop(when(Peek(Idents), b1, b2))
      BY <1>1, <1>2, OkWhen
    <2> QED
      BY <2>1, <2>2, <1>0, <1>01, Block2 DEF b3
  <1>4. Typed(b4, Sh(h, l, s, 0), Sh(h + 1, l, s, 2), {})
    <2>1. Ok(resync(AfterType), Sh(h, l, s, 0), Sh(h, l, s, 0), {})
      BY OkStay
    <2>2. Ok(null, Sh(h, l, s, 0), Sh(h + 1, l, s, 0), {})
      BY OkNull
    <2> QED
      BY <2>1, <2>2, <1>0, <1>01, Block2 DEF b4
  <1>5. Typed(b5, Sh(h, l, s, 2), Sh(h + 1, l, s, 2), {})
    <2>1. Ok(next, Sh(h, l, s, 2), Sh(h, l, s, 2), {})
      BY OkStay
    <2>2. Ok(assert(Peek({"TO"}), b3, b4), Sh(h, l, s, 2), Sh(h + 1, l, s, 2),
         {}) /\ ~IsLoop(assert(Peek({"TO"}), b3, b4))
      BY <1>3, <1>4, FailSh, OkAssert
    <2>3. Ok(make("pointer", 1), Sh(h + 1, l, s, 2), Sh(h + 1, l, s, 2), {})
      BY OkMake, OtherKinds DEF Kept, Failed, Sound
    <2> QED
      BY <2>1, <2>2, <2>3, <1>0, <1>01, Block3 DEF b5
  <1> QED
    BY <1>5 DEF b1, b2, b3, b4, b5, pointer_type

\* The production procedure_type
LEMMA ProcedureTypeTyped ==
    ASSUME NEW h \in Nat, NEW l \in Int, NEW s \in Int
    PROVE  Typed(procedure_type, Sh(h, l, s, 2), Sh(h + 1, l, s, 2), {})
  <1> DEFINE b1 == <<take, scope(1), call("formal_parameters"), scope(-1), make("signature",
                   1)>>
  <1> HIDE DEF b1
  <1>0. /\ Sh(h + 1, l, s + 1, 2) \in Shape
        /\ Sh(h + 1, l, s, 2) \in Shape
        /\ Sh(h, l, s + 1, 2) \in Shape
        /\ Sh(h, l, s, 2) \in Shape
    BY ShapesAre
  <1>01. Fits(Sh(h + 1, l, s, 2), Sh(h + 1, l, s, 2))
    BY ShFits
  <1>1. Typed(b1, Sh(h, l, s, 2), Sh(h + 1, l, s, 2), {})
    <2>1. Ok(take, Sh(h, l, s, 2), Sh(h, l, s, 2), {})
      BY OkStay
    <2>2. Ok(scope(1), Sh(h, l, s, 2), Sh(h, l, s + 1, 2), {})
      BY OkEnterScope
    <2>3. Ok(call("formal_parameters"), Sh(h, l, s + 1, 2), Sh(h + 1, l, s + 1, 2), {})
      BY OkPushes DEF Pushers
    <2>4. Ok(scope(-1), Sh(h + 1, l, s + 1, 2), Sh(h + 1, l, s, 2), {})
      BY OkLeaveScope
    <2>5. Ok(make("signature", 1), Sh(h + 1, l, s, 2), Sh(h + 1, l, s, 2), {})
      BY OkMake, OtherKinds DEF Kept, Failed, Sound
    <2> QED
      BY <2>1, <2>2, <2>3, <2>4, <2>5, <1>0, <1>01, Block5 DEF b1
  <1> QED
    BY <1>1 DEF b1, procedure_type

\* The production formal_parameters
LEMMA FormalParametersTyped ==
    ASSUME NEW h \in Nat, NEW l \in Int, NEW s \in Int
    PROVE  Typed(formal_parameters, Sh(h, l, s, 2), Sh(h + 1, l, s, 2), {})
  <1> DEFINE e1 == Idents \cup {"VAR", "..."}
             b1 == <<break>>
             b2 == <<report_stale>>
             b3 == <<next, when(HasVarargs, b2, <<>>), look>>
             b4 == <<take, report>>
             b5 == <<when(Local({";"}), b3, b4)>>
             b6 == <<call("fp_section"), look, when(Local({")"}), b1, b5)>>
             b7 == <<next>>
             b8 == <<next, look, while(Local(e1), b6), assert(Local({")"}), b7, <<>>), look>>
             b9 == <<next, call("type")>>
             b10 == <<push("none")>>
             b11 == <<list, look, when(Local({"("}), b8, <<>>), when(Local({":"}), b9, b10),
                    make("formals", 2)>>
  <1> HIDE DEF e1, b1, b2, b3, b4, b5, b6, b7, b8, b9, b10, b11
  <1>0. /\ Sh(h + 1, l, s, 0) \in Shape
        /\ Sh(h + 1, l, s, 2) \in Shape
        /\ Sh(h + 2, l, s, 2) \in Shape
        /\ Sh(h, l, s, 2) \in Shape
    BY ShapesAre
  <1>01. /\ Fits(Sh(h + 1, l, s, 0), Sh(h + 1, l, s, 2))
         /\ Fits(Sh(h + 1, l, s, 2), Sh(h + 1, l, s, 2))
         /\ Fits(Sh(h + 2, l, s, 2), Sh(h + 2, l, s, 2))
    BY ShFits
  <1>00. {Sh(h + 1, l, s, 2)} \in SUBSET Shape
    BY <1>0
  <1>1. Typed(b1, Sh(h + 1, l, s, 2), Sh(h + 1, l, s, 2), {Sh(h + 1, l, s, 2)})
    <2>1. Ok(break, Sh(h + 1, l, s, 2), Sh(h + 1, l, s, 2), {Sh(h + 1, l, s, 2)})
      BY OkBreak, <1>01
    <2> QED
      BY <2>1, <1>0, <1>00, <1>01, LoopBlock1 DEF b1
  <1>2. Typed(b2, Sh(h + 1, l, s, 2), Sh(h + 1, l, s, 2), {Sh(h + 1, l, s, 2)})
    <2>1. Ok(report_stale, Sh(h + 1, l, s, 2), Sh(h + 1, l, s, 0), {Sh(h + 1, l, s, 2)})
      BY OkReport
    <2> QED
      BY <2>1, <1>0, <1>00, <1>01, LoopBlock1 DEF b2
  <1>3. Typed(b3, Sh(h + 1, l, s, 2), Sh(h + 1, l, s, 2), {Sh(h + 1, l, s, 2)})
    <2>1. Ok(next, Sh(h + 1, l, s, 2), Sh(h + 1, l, s, 2), {Sh(h + 1, l, s, 2)})
      BY OkStay
    <2>2. Ok(when(HasVarargs, b2, <<>>), Sh(h + 1, l, s, 2), Sh(h + 1, l, s, 2), {Sh(h + 1, l,
         s, 2)}) /\ ~IsLoop(when(HasVarargs, b2, <<>>))
      <3>1. Typed(<<>>, Sh(h + 1, l, s, 2), Sh(h + 1, l, s, 2), {Sh(h + 1, l, s, 2)})
        BY TypedEmpty, <1>0, <1>01
      <3> QED
        BY <1>2, <3>1, OkWhen
    <2>3. Ok(look, Sh(h + 1, l, s, 2), Sh(h + 1, l, s, 2), {Sh(h + 1, l, s, 2)})
      BY OkStay
    <2> QED
      BY <2>1, <2>2, <2>3, <1>0, <1>00, <1>01, NotLoops, LoopBlock3 DEF b3
  <1>4. Typed(b4, Sh(h + 1, l, s, 2), Sh(h + 1, l, s, 2), {Sh(h + 1, l, s, 2)})
    <2>1. Ok(take, Sh(h + 1, l, s, 2), Sh(h + 1, l, s, 2), {Sh(h + 1, l, s, 2)})
      BY OkStay
    <2>2. Ok(report, Sh(h + 1, l, s, 2), Sh(h + 1, l, s, 0), {Sh(h + 1, l, s, 2)})
      BY OkReport
    <2> QED
      BY <2>1, <2>2, <1>0, <1>00, <1>01, NotLoops, LoopBlock2 DEF b4
  <1>5. Typed(b5, Sh(h + 1, l, s, 2), Sh(h + 1, l, s, 2), {Sh(h + 1, l, s, 2)})
    <2>1. Ok(when(Local({";"}), b3, b4), Sh(h + 1, l, s, 2), Sh(h + 1, l, s, 2), {Sh(h + 1, l,
         s, 2)}) /\ ~IsLoop(when(Local({";"}), b3, b4))
      BY <1>3, <1>4, OkWhen
    <2> QED
      BY <2>1, <1>0, <1>00, <1>01, LoopBlock1 DEF b5
  <1>6. Typed(b6, Sh(h + 1, l, s, 2), Sh(h + 1, l, s, 2), {Sh(h + 1, l, s, 2)})
    <2>1. Ok(call("fp_section"), Sh(h + 1, l, s, 2), Sh(h + 1, l, s, 2), {Sh(h + 1, l, s, 2)})
      BY OkAdds DEF Appenders
    <2>2. Ok(look, Sh(h + 1, l, s, 2), Sh(h + 1, l, s, 2), {Sh(h + 1, l, s, 2)})
      BY OkStay
    <2>3. Ok(when(Local({")"}), b1, b5), Sh(h + 1, l, s, 2), Sh(h + 1, l, s, 2), {Sh(h + 1, l,
         s, 2)}) /\ ~IsLoop(when(Local({")"}), b1, b5))
      BY <1>1, <1>5, OkWhen
    <2> QED
      BY <2>1, <2>2, <2>3, <1>0, <1>00, <1>01, NotLoops, LoopBlock3 DEF b6
  <1>7. Typed(b7, Sh(h + 1, l, s, 2), Sh(h + 1, l, s, 2), {})
    <2>1. Ok(next, Sh(h + 1, l, s, 2), Sh(h + 1, l, s, 2), {})
      BY OkStay
    <2> QED
      BY <2>1, <1>0, <1>01, Block1 DEF b7
  <1>8. Typed(b8, Sh(h + 1, l, s, 2), Sh(h + 1, l, s, 2), {})
    <2>1. Ok(next, Sh(h + 1, l, s, 2), Sh(h + 1, l, s, 2), {})
      BY OkStay
    <2>2. Ok(look, Sh(h + 1, l, s, 2), Sh(h + 1, l, s, 2), {})
      BY OkStay
    <2>3. Ok(while(Local(e1), b6), Sh(h + 1, l, s, 2), Sh(h + 1, l, s, 2), {})
      BY <1>6, <1>0, OkWhile
    <2>4. Ok(assert(Local({")"}), b7, <<>>), Sh(h + 1, l, s, 2), Sh(h + 1, l, s, 2),
         {}) /\ ~IsLoop(assert(Local({")"}), b7, <<>>))
      <3>1. Typed(<<>>, Sh(h + 1, l, s, 0), Sh(h + 1, l, s, 2), {})
        BY TypedEmpty, <1>0, <1>01
      <3> QED
        BY <1>7, <3>1, FailSh, OkAssert
    <2>5. Ok(look, Sh(h + 1, l, s, 2), Sh(h + 1, l, s, 2), {})
      BY OkStay
    <2> QED
      BY <2>1, <2>2, <2>3, <2>4, <2>5, <1>0, <1>01, Block5 DEF b8
  <1>9. Typed(b9, Sh(h + 1, l, s, 2), Sh(h + 2, l, s, 2), {})
    <2>1. Ok(next, Sh(h + 1, l, s, 2), Sh(h + 1, l, s, 2), {})
      BY OkStay
    <2>2. Ok(call("type"), Sh(h + 1, l, s, 2), Sh(h + 2, l, s, 2), {})
      BY OkPushes DEF Pushers
    <2> QED
      BY <2>1, <2>2, <1>0, <1>01, Block2 DEF b9
  <1>10. Typed(b10, Sh(h + 1, l, s, 2), Sh(h + 2, l, s, 2), {})
    <2>1. Ok(push("none"), Sh(h + 1, l, s, 2), Sh(h + 2, l, s, 2), {})
      BY OkPush, OtherKinds DEF Kept, Failed, Sound
    <2> QED
      BY <2>1, <1>0, <1>01, Block1 DEF b10
  <1>11. Typed(b11, Sh(h, l, s, 2), Sh(h + 1, l, s, 2), {})
    <2>1. Ok(list, Sh(h, l, s, 2), Sh(h + 1, l, s, 2), {})
      BY OkPush, OtherKinds DEF list, Kept, Failed, Sound
    <2>2. Ok(look, Sh(h + 1, l, s, 2), Sh(h + 1, l, s, 2), {})
      BY OkStay
    <2>3. Ok(when(Local({"("}), b8, <<>>), Sh(h + 1, l, s, 2), Sh(h + 1, l, s, 2),
         {}) /\ ~IsLoop(when(Local({"("}), b8, <<>>))
      <3>1. Typed(<<>>, Sh(h + 1, l, s, 2), Sh(h + 1, l, s, 2), {})
        BY TypedEmpty, <1>0, <1>01
      <3> QED
        BY <1>8, <3>1, OkWhen
    <2>4. Ok(when(Local({":"}), b9, b10), Sh(h + 1, l, s, 2), Sh(h + 2, l, s, 2),
         {}) /\ ~IsLoop(when(Local({":"}), b9, b10))
      BY <1>9, <1>10, OkWhen
    <2>5. Ok(make("formals", 2), Sh(h + 2, l, s, 2), Sh(h + 1, l, s, 2), {})
      BY OkMake, OtherKinds DEF Kept, Failed, Sound
    <2> QED
      BY <2>1, <2>2, <2>3, <2>4, <2>5, <1>0, <1>01, Block5 DEF b11
  <1> QED
    BY <1>11 DEF e1, b1, b2, b3, b4, b5, b6, b7, b8, b9, b10, b11, formal_parameters

\* The production fp_section
LEMMA FpSectionTyped ==
    ASSUME NEW h \in Nat, NEW l \in Int, NEW s \in Int
    PROVE  Typed(fp_section, Sh(h + 1, l, s, 2), Sh(h + 1, l, s, 2), {})
  <1> DEFINE b1 == <<next, push("varargs"), append>>
             b2 == <<next, push("VAR")>>
             b3 == <<push("none")>>
             b4 == <<next>>
             b5 == <<report>>
             b6 == <<report>>
             b7 == <<unless(Peek({":"}), b6), break>>
             b8 == <<when(Peek(Idents), b5, b7)>>
             b9 == <<call("ident"), append, when(Peek({","}), b4, b8)>>
             b10 == <<report>>
             b11 == <<when(Peek({"VAR"}), b2, b3), list, forever(b9), fetch,
                    unless(Local({":"}), b10), call("formal_type"), make("section", 3), append>>
             b12 == <<when(Peek({"..."}), b1, b11)>>
  <1> HIDE DEF b1, b2, b3, b4, b5, b6, b7, b8, b9, b10, b11, b12
  <1>0. /\ Sh(h + 1, l, s, 2) \in Shape
        /\ Sh(h + 2, l, s, 2) \in Shape
        /\ Sh(h + 3, l, s, 0) \in Shape
        /\ Sh(h + 3, l, s, 2) \in Shape
        /\ Sh(h + 4, l, s, 2) \in Shape
    BY ShapesAre
  <1>01. /\ Fits(Sh(h + 1, l, s, 2), Sh(h + 1, l, s, 2))
         /\ Fits(Sh(h + 2, l, s, 2), Sh(h + 2, l, s, 2))
         /\ Fits(Sh(h + 3, l, s, 0), Sh(h + 3, l, s, 0))
         /\ Fits(Sh(h + 3, l, s, 0), Sh(h + 3, l, s, 2))
         /\ Fits(Sh(h + 3, l, s, 2), Sh(h + 3, l, s, 2))
    BY ShFits
  <1>00. {Sh(h + 3, l, s, 2)} \in SUBSET Shape
    BY <1>0
  <1>1. Typed(b1, Sh(h + 1, l, s, 2), Sh(h + 1, l, s, 2), {})
    <2>1. Ok(next, Sh(h + 1, l, s, 2), Sh(h + 1, l, s, 2), {})
      BY OkStay
    <2>2. Ok(push("varargs"), Sh(h + 1, l, s, 2), Sh(h + 2, l, s, 2), {})
      BY OkPush, OtherKinds DEF Kept, Failed, Sound
    <2>3. Ok(append, Sh(h + 2, l, s, 2), Sh(h + 1, l, s, 2), {})
      BY OkAppend DEF Kept, Failed, Sound
    <2> QED
      BY <2>1, <2>2, <2>3, <1>0, <1>01, Block3 DEF b1
  <1>2. Typed(b2, Sh(h + 1, l, s, 2), Sh(h + 2, l, s, 2), {})
    <2>1. Ok(next, Sh(h + 1, l, s, 2), Sh(h + 1, l, s, 2), {})
      BY OkStay
    <2>2. Ok(push("VAR"), Sh(h + 1, l, s, 2), Sh(h + 2, l, s, 2), {})
      BY OkPush, OtherKinds DEF Kept, Failed, Sound
    <2> QED
      BY <2>1, <2>2, <1>0, <1>01, Block2 DEF b2
  <1>3. Typed(b3, Sh(h + 1, l, s, 2), Sh(h + 2, l, s, 2), {})
    <2>1. Ok(push("none"), Sh(h + 1, l, s, 2), Sh(h + 2, l, s, 2), {})
      BY OkPush, OtherKinds DEF Kept, Failed, Sound
    <2> QED
      BY <2>1, <1>0, <1>01, Block1 DEF b3
  <1>4. Typed(b4, Sh(h + 3, l, s, 2), Sh(h + 3, l, s, 2), {Sh(h + 3, l, s, 2)})
    <2>1. Ok(next, Sh(h + 3, l, s, 2), Sh(h + 3, l, s, 2), {Sh(h + 3, l, s, 2)})
      BY OkStay
    <2> QED
      BY <2>1, <1>0, <1>00, <1>01, LoopBlock1 DEF b4
  <1>5. Typed(b5, Sh(h + 3, l, s, 2), Sh(h + 3, l, s, 0), {Sh(h + 3, l, s, 2)})
    <2>1. Ok(report, Sh(h + 3, l, s, 2), Sh(h + 3, l, s, 0), {Sh(h + 3, l, s, 2)})
      BY OkReport
    <2> QED
      BY <2>1, <1>0, <1>00, <1>01, LoopBlock1 DEF b5
  <1>6. Typed(b6, Sh(h + 3, l, s, 2), Sh(h + 3, l, s, 2), {Sh(h + 3, l, s, 2)})
    <2>1. Ok(report, Sh(h + 3, l, s, 2), Sh(h + 3, l, s, 0), {Sh(h + 3, l, s, 2)})
      BY OkReport
    <2> QED
      BY <2>1, <1>0, <1>00, <1>01, LoopBlock1 DEF b6
  <1>7. Typed(b7, Sh(h + 3, l, s, 2), Sh(h + 3, l, s, 0), {Sh(h + 3, l, s, 2)})
    <2>1. Ok(unless(Peek({":"}), b6), Sh(h + 3, l, s, 2), Sh(h + 3, l, s, 2), {Sh(h + 3, l, s,
         2)}) /\ ~IsLoop(unless(Peek({":"}), b6))
      <3>1. Typed(<<>>, Sh(h + 3, l, s, 2), Sh(h + 3, l, s, 2), {Sh(h + 3, l, s, 2)})
        BY TypedEmpty, <1>0, <1>01
      <3> QED
        BY <3>1, <1>6, OkWhen DEF unless
    <2>2. Ok(break, Sh(h + 3, l, s, 2), Sh(h + 3, l, s, 0), {Sh(h + 3, l, s, 2)})
      BY OkBreak, <1>01
    <2> QED
      BY <2>1, <2>2, <1>0, <1>00, <1>01, NotLoops, LoopBlock2 DEF b7
  <1>8. Typed(b8, Sh(h + 3, l, s, 2), Sh(h + 3, l, s, 2), {Sh(h + 3, l, s, 2)})
    <2>1. Ok(when(Peek(Idents), b5, b7), Sh(h + 3, l, s, 2), Sh(h + 3, l, s, 0), {Sh(h + 3, l,
         s, 2)}) /\ ~IsLoop(when(Peek(Idents), b5, b7))
      BY <1>5, <1>7, OkWhen
    <2> QED
      BY <2>1, <1>0, <1>00, <1>01, LoopBlock1 DEF b8
  <1>9. Typed(b9, Sh(h + 3, l, s, 2), Sh(h + 3, l, s, 2), {Sh(h + 3, l, s, 2)})
    <2>1. Ok(call("ident"), Sh(h + 3, l, s, 2), Sh(h + 4, l, s, 2), {Sh(h + 3, l, s, 2)})
      BY OkPushes DEF Pushers
    <2>2. Ok(append, Sh(h + 4, l, s, 2), Sh(h + 3, l, s, 2), {Sh(h + 3, l, s, 2)})
      BY OkAppend DEF Kept, Failed, Sound
    <2>3. Ok(when(Peek({","}), b4, b8), Sh(h + 3, l, s, 2), Sh(h + 3, l, s, 2), {Sh(h + 3, l,
         s, 2)}) /\ ~IsLoop(when(Peek({","}), b4, b8))
      BY <1>4, <1>8, OkWhen
    <2> QED
      BY <2>1, <2>2, <2>3, <1>0, <1>00, <1>01, NotLoops, LoopBlock3 DEF b9
  <1>10. Typed(b10, Sh(h + 3, l, s, 2), Sh(h + 3, l, s, 2), {})
    <2>1. Ok(report, Sh(h + 3, l, s, 2), Sh(h + 3, l, s, 0), {})
      BY OkReport
    <2> QED
      BY <2>1, <1>0, <1>01, Block1 DEF b10
  <1>11. Typed(b11, Sh(h + 1, l, s, 2), Sh(h + 1, l, s, 2), {})
    <2>1. Ok(when(Peek({"VAR"}), b2, b3), Sh(h + 1, l, s, 2), Sh(h + 2, l, s, 2),
         {}) /\ ~IsLoop(when(Peek({"VAR"}), b2, b3))
      BY <1>2, <1>3, OkWhen
    <2>2. Ok(list, Sh(h + 2, l, s, 2), Sh(h + 3, l, s, 2), {})
      BY OkPush, OtherKinds DEF list, Kept, Failed, Sound
    <2>3. Ok(forever(b9), Sh(h + 3, l, s, 2), Sh(h + 3, l, s, 2), {})
      BY <1>9, <1>0, OkForever
    <2>4. Ok(fetch, Sh(h + 3, l, s, 2), Sh(h + 3, l, s, 2), {})
      BY OkStay
    <2>5. Ok(unless(Local({":"}), b10), Sh(h + 3, l, s, 2), Sh(h + 3, l, s, 2),
         {}) /\ ~IsLoop(unless(Local({":"}), b10))
      <3>1. Typed(<<>>, Sh(h + 3, l, s, 2), Sh(h + 3, l, s, 2), {})
        BY TypedEmpty, <1>0, <1>01
      <3> QED
        BY <3>1, <1>10, OkWhen DEF unless
    <2>6. Ok(call("formal_type"), Sh(h + 3, l, s, 2), Sh(h + 4, l, s, 2), {})
      BY OkPushes DEF Pushers
    <2>7. Ok(make("section", 3), Sh(h + 4, l, s, 2), Sh(h + 2, l, s, 2), {})
      BY OkMake, OtherKinds DEF Kept, Failed, Sound
    <2>8. Ok(append, Sh(h + 2, l, s, 2), Sh(h + 1, l, s, 2), {})
      BY OkAppend DEF Kept, Failed, Sound
    <2> QED
      BY <2>1, <2>2, <2>3, <2>4, <2>5, <2>6, <2>7, <2>8, <1>0, <1>01, Block8 DEF b11
  <1>12. Typed(b12, Sh(h + 1, l, s, 2), Sh(h + 1, l, s, 2), {})
    <2>1. Ok(when(Peek({"..."}), b1, b11), Sh(h + 1, l, s, 2), Sh(h + 1, l, s, 2),
         {}) /\ ~IsLoop(when(Peek({"..."}), b1, b11))
      BY <1>1, <1>11, OkWhen
    <2> QED
      BY <2>1, <1>0, <1>01, Block1 DEF b12
  <1> QED
    BY <1>12 DEF b1, b2, b3, b4, b5, b6, b7, b8, b9, b10, b11, b12, fp_section

\* The production formal_type
LEMMA FormalTypeTyped ==
    ASSUME NEW h \in Nat, NEW l \in Int, NEW s \in Int
    PROVE  Typed(formal_type, Sh(h, l, s, 2), Sh(h + 1, l, s, 2), {})
  <1> DEFINE b1 == <<next>>
             b2 == <<take, assert(Peek({"OF"}), b1, <<>>), push("dimension"), append>>
             b3 == <<call("qualident"), make("formal_type", 2)>>
             b4 == <<drop(1), resync({";", ")"}), null>>
             b5 == <<list, while(Peek({"ARRAY"}), b2), assert(Peek(Idents), b3, b4)>>
  <1> HIDE DEF b1, b2, b3, b4, b5
  <1>0. /\ Sh(h + 1, l, s, 0) \in Shape
        /\ Sh(h + 1, l, s, 2) \in Shape
        /\ Sh(h + 2, l, s, 2) \in Shape
        /\ Sh(h, l, s, 0) \in Shape
        /\ Sh(h, l, s, 2) \in Shape
    BY ShapesAre
  <1>01. /\ Fits(Sh(h + 1, l, s, 0), Sh(h + 1, l, s, 2))
         /\ Fits(Sh(h + 1, l, s, 2), Sh(h + 1, l, s, 2))
    BY ShFits
  <1>00. {Sh(h + 1, l, s, 2)} \in SUBSET Shape
    BY <1>0
  <1>1. Typed(b1, Sh(h + 1, l, s, 2), Sh(h + 1, l, s, 2), {Sh(h + 1, l, s, 2)})
    <2>1. Ok(next, Sh(h + 1, l, s, 2), Sh(h + 1, l, s, 2), {Sh(h + 1, l, s, 2)})
      BY OkStay
    <2> QED
      BY <2>1, <1>0, <1>00, <1>01, LoopBlock1 DEF b1
  <1>2. Typed(b2, Sh(h + 1, l, s, 2), Sh(h + 1, l, s, 2), {Sh(h + 1, l, s, 2)})
    <2>1. Ok(take, Sh(h + 1, l, s, 2), Sh(h + 1, l, s, 2), {Sh(h + 1, l, s, 2)})
      BY OkStay
    <2>2. Ok(assert(Peek({"OF"}), b1, <<>>), Sh(h + 1, l, s, 2), Sh(h + 1, l, s, 2),
         {Sh(h + 1, l, s, 2)}) /\ ~IsLoop(assert(Peek({"OF"}), b1, <<>>))
      <3>1. Typed(<<>>, Sh(h + 1, l, s, 0), Sh(h + 1, l, s, 2), {Sh(h + 1, l, s, 2)})
        BY TypedEmpty, <1>0, <1>01
      <3> QED
        BY <1>1, <3>1, FailSh, OkAssert
    <2>3. Ok(push("dimension"), Sh(h + 1, l, s, 2), Sh(h + 2, l, s, 2), {Sh(h + 1, l, s, 2)})
      BY OkPush, OtherKinds DEF Kept, Failed, Sound
    <2>4. Ok(append, Sh(h + 2, l, s, 2), Sh(h + 1, l, s, 2), {Sh(h + 1, l, s, 2)})
      BY OkAppend DEF Kept, Failed, Sound
    <2> QED
      BY <2>1, <2>2, <2>3, <2>4, <1>0, <1>00, <1>01, NotLoops, LoopBlock4 DEF b2
  <1>3. Typed(b3, Sh(h + 1, l, s, 2), Sh(h + 1, l, s, 2), {})
    <2>1. Ok(call("qualident"), Sh(h + 1, l, s, 2), Sh(h + 2, l, s, 2), {})
      BY OkPushes DEF Pushers
    <2>2. Ok(make("formal_type", 2), Sh(h + 2, l, s, 2), Sh(h + 1, l, s, 2), {})
      BY OkMake, OtherKinds DEF Kept, Failed, Sound
    <2> QED
      BY <2>1, <2>2, <1>0, <1>01, Block2 DEF b3
  <1>4. Typed(b4, Sh(h + 1, l, s, 0), Sh(h + 1, l, s, 2), {})
    <2>1. Ok(drop(1), Sh(h + 1, l, s, 0), Sh(h, l, s, 0), {})
      BY OkDrop DEF Kept, Failed, Sound
    <2>2. Ok(resync({";", ")"}), Sh(h, l, s, 0), Sh(h, l, s, 0), {})
      BY OkStay
    <2>3. Ok(null, Sh(h, l, s, 0), Sh(h + 1, l, s, 0), {})
      BY OkNull
    <2> QED
      BY <2>1, <2>2, <2>3, <1>0, <1>01, Block3 DEF b4
  <1>5. Typed(b5, Sh(h, l, s, 2), Sh(h + 1, l, s, 2), {})
    <2>1. Ok(list, Sh(h, l, s, 2), Sh(h + 1, l, s, 2), {})
      BY OkPush, OtherKinds DEF list, Kept, Failed, Sound
    <2>2. Ok(while(Peek({"ARRAY"}), b2), Sh(h + 1, l, s, 2), Sh(h + 1, l, s, 2), {})
      BY <1>2, <1>0, OkWhile
    <2>3. Ok(assert(Peek(Idents), b3, b4), Sh(h + 1, l, s, 2), Sh(h + 1, l, s, 2),
         {}) /\ ~IsLoop(assert(Peek(Idents), b3, b4))
      BY <1>3, <1>4, FailSh, OkAssert
    <2> QED
      BY <2>1, <2>2, <2>3, <1>0, <1>01, Block3 DEF b5
  <1> QED
    BY <1>5 DEF b1, b2, b3, b4, b5, formal_type

\* The production procedure
LEMMA ProcedureTyped ==
    ASSUME NEW h \in Nat, NEW l \in Int, NEW s \in Int
    PROVE  Typed(procedure, Sh(h + 1, l, s, 2), Sh(h + 1, l, s, 2), {})
  <1> DEFINE b1 == <<call("procedure_declaration")>>
             b2 == <<call("procedure_definition")>>
             b3 == <<next>>
             b4 == <<take, when(Peek({"["}), b1, b2), assert(Peek({";"}), b3, <<>>)>>
  <1> HIDE DEF b1, b2, b3, b4
  <1>0. /\ Sh(h + 1, l, s, 0) \in Shape
        /\ Sh(h + 1, l, s, 2) \in Shape
    BY ShapesAre
  <1>01. /\ Fits(Sh(h + 1, l, s, 0), Sh(h + 1, l, s, 2))
         /\ Fits(Sh(h + 1, l, s, 2), Sh(h + 1, l, s, 2))
    BY ShFits
  <1>1. Typed(b1, Sh(h + 1, l, s, 2), Sh(h + 1, l, s, 2), {})
    <2>1. Ok(call("procedure_declaration"), Sh(h + 1, l, s, 2), Sh(h + 1, l, s, 2), {})
      BY OkAdds DEF Appenders
    <2> QED
      BY <2>1, <1>0, <1>01, Block1 DEF b1
  <1>2. Typed(b2, Sh(h + 1, l, s, 2), Sh(h + 1, l, s, 2), {})
    <2>1. Ok(call("procedure_definition"), Sh(h + 1, l, s, 2), Sh(h + 1, l, s, 2), {})
      BY OkAdds DEF Appenders
    <2> QED
      BY <2>1, <1>0, <1>01, Block1 DEF b2
  <1>3. Typed(b3, Sh(h + 1, l, s, 2), Sh(h + 1, l, s, 2), {})
    <2>1. Ok(next, Sh(h + 1, l, s, 2), Sh(h + 1, l, s, 2), {})
      BY OkStay
    <2> QED
      BY <2>1, <1>0, <1>01, Block1 DEF b3
  <1>4. Typed(b4, Sh(h + 1, l, s, 2), Sh(h + 1, l, s, 2), {})
    <2>1. Ok(take, Sh(h + 1, l, s, 2), Sh(h + 1, l, s, 2), {})
      BY OkStay
    <2>2. Ok(when(Peek({"["}), b1, b2), Sh(h + 1, l, s, 2), Sh(h + 1, l, s, 2),
         {}) /\ ~IsLoop(when(Peek({"["}), b1, b2))
      BY <1>1, <1>2, OkWhen
    <2>3. Ok(assert(Peek({";"}), b3, <<>>), Sh(h + 1, l, s, 2), Sh(h + 1, l, s, 2),
         {}) /\ ~IsLoop(assert(Peek({";"}), b3, <<>>))
      <3>1. Typed(<<>>, Sh(h + 1, l, s, 0), Sh(h + 1, l, s, 2), {})
        BY TypedEmpty, <1>0, <1>01
      <3> QED
        BY <1>3, <3>1, FailSh, OkAssert
    <2> QED
      BY <2>1, <2>2, <2>3, <1>0, <1>01, Block3 DEF b4
  <1> QED
    BY <1>4 DEF b1, b2, b3, b4, procedure

\* The production procedure_declaration
LEMMA ProcedureDeclarationTyped ==
    ASSUME NEW h \in Nat, NEW l \in Int, NEW s \in Int
    PROVE  Typed(procedure_declaration, Sh(h + 1, l, s, 2), Sh(h + 1, l, s, 2), {})
  <1> DEFINE b1 == <<next>>
             b2 == <<next>>
             b3 == <<next>>
             b4 == <<take>>
             b5 == <<value, next, assert(Peek({"]"}), b4, <<>>), make("external", 4), append>>
             b6 == <<drop(3)>>
             b7 == <<next, call("identdef"), scope(1), call("formal_parameters"), scope(-1),
                   assert(Peek({";"}), b1, <<>>), assert(Peek({"EXTERNAL"}), b2, <<>>),
                   assert(Peek({"["}), b3, <<>>), assert(Peek({"string"}), b5, b6)>>
             b8 == <<drop(1)>>
             b9 == <<value, next, assert(Peek({"]"}), b7, b8)>>
             b10 == <<next, assert(Peek({"string"}), b9, <<>>)>>
  <1> HIDE DEF b1, b2, b3, b4, b5, b6, b7, b8, b9, b10
  <1>0. /\ Sh(h + 1, l, s, 0) \in Shape
        /\ Sh(h + 1, l, s, 2) \in Shape
        /\ Sh(h + 2, l, s, 0) \in Shape
        /\ Sh(h + 2, l, s, 2) \in Shape
        /\ Sh(h + 3, l, s + 1, 2) \in Shape
        /\ Sh(h + 3, l, s, 2) \in Shape
        /\ Sh(h + 4, l, s + 1, 2) \in Shape
        /\ Sh(h + 4, l, s, 0) \in Shape
        /\ Sh(h + 4, l, s, 2) \in Shape
        /\ Sh(h + 5, l, s, 0) \in Shape
        /\ Sh(h + 5, l, s, 2) \in Shape
    BY ShapesAre
  <1>01. /\ Fits(Sh(h + 1, l, s, 0), Sh(h + 1, l, s, 2))
         /\ Fits(Sh(h + 1, l, s, 2), Sh(h + 1, l, s, 2))
         /\ Fits(Sh(h + 4, l, s, 0), Sh(h + 4, l, s, 2))
         /\ Fits(Sh(h + 4, l, s, 2), Sh(h + 4, l, s, 2))
         /\ Fits(Sh(h + 5, l, s, 0), Sh(h + 5, l, s, 2))
         /\ Fits(Sh(h + 5, l, s, 2), Sh(h + 5, l, s, 2))
    BY ShFits
  <1>1. Typed(b1, Sh(h + 4, l, s, 2), Sh(h + 4, l, s, 2), {})
    <2>1. Ok(next, Sh(h + 4, l, s, 2), Sh(h + 4, l, s, 2), {})
      BY OkStay
    <2> QED
      BY <2>1, <1>0, <1>01, Block1 DEF b1
  <1>2. Typed(b2, Sh(h + 4, l, s, 2), Sh(h + 4, l, s, 2), {})
    <2>1. Ok(next, Sh(h + 4, l, s, 2), Sh(h + 4, l, s, 2), {})
      BY OkStay
    <2> QED
      BY <2>1, <1>0, <1>01, Block1 DEF b2
  <1>3. Typed(b3, Sh(h + 4, l, s, 2), Sh(h + 4, l, s, 2), {})
    <2>1. Ok(next, Sh(h + 4, l, s, 2), Sh(h + 4, l, s, 2), {})
      BY OkStay
    <2> QED
      BY <2>1, <1>0, <1>01, Block1 DEF b3
  <1>4. Typed(b4, Sh(h + 5, l, s, 2), Sh(h + 5, l, s, 2), {})
    <2>1. Ok(take, Sh(h + 5, l, s, 2), Sh(h + 5, l, s, 2), {})
      BY OkStay
    <2> QED
      BY <2>1, <1>0, <1>01, Block1 DEF b4
  <1>5. Typed(b5, Sh(h + 4, l, s, 2), Sh(h + 1, l, s, 2), {})
    <2>1. Ok(value, Sh(h + 4, l, s, 2), Sh(h + 5, l, s, 2), {})
      BY OkValue DEF Kept, Failed, Sound
    <2>2. Ok(next, Sh(h + 5, l, s, 2), Sh(h + 5, l, s, 2), {})
      BY OkStay
    <2>3. Ok(assert(Peek({"]"}), b4, <<>>), Sh(h + 5, l, s, 2), Sh(h + 5, l, s, 2),
         {}) /\ ~IsLoop(assert(Peek({"]"}), b4, <<>>))
      <3>1. Typed(<<>>, Sh(h + 5, l, s, 0), Sh(h + 5, l, s, 2), {})
        BY TypedEmpty, <1>0, <1>01
      <3> QED
        BY <1>4, <3>1, FailSh, OkAssert
    <2>4. Ok(make("external", 4), Sh(h + 5, l, s, 2), Sh(h + 2, l, s, 2), {})
      BY OkMake, OtherKinds DEF Kept, Failed, Sound
    <2>5. Ok(append, Sh(h + 2, l, s, 2), Sh(h + 1, l, s, 2), {})
      BY OkAppend DEF Kept, Failed, Sound
    <2> QED
      BY <2>1, <2>2, <2>3, <2>4, <2>5, <1>0, <1>01, Block5 DEF b5
  <1>6. Typed(b6, Sh(h + 4, l, s, 0), Sh(h + 1, l, s, 2), {})
    <2>1. Ok(drop(3), Sh(h + 4, l, s, 0), Sh(h + 1, l, s, 0), {})
      BY OkDrop DEF Kept, Failed, Sound
    <2> QED
      BY <2>1, <1>0, <1>01, Block1 DEF b6
  <1>7. Typed(b7, Sh(h + 2, l, s, 2), Sh(h + 1, l, s, 2), {})
    <2>1. Ok(next, Sh(h + 2, l, s, 2), Sh(h + 2, l, s, 2), {})
      BY OkStay
    <2>2. Ok(call("identdef"), Sh(h + 2, l, s, 2), Sh(h + 3, l, s, 2), {})
      BY OkPushes DEF Pushers
    <2>3. Ok(scope(1), Sh(h + 3, l, s, 2), Sh(h + 3, l, s + 1, 2), {})
      BY OkEnterScope
    <2>4. Ok(call("formal_parameters"), Sh(h + 3, l, s + 1, 2), Sh(h + 4, l, s + 1, 2), {})
      BY OkPushes DEF Pushers
    <2>5. Ok(scope(-1), Sh(h + 4, l, s + 1, 2), Sh(h + 4, l, s, 2), {})
      BY OkLeaveScope
    <2>6. Ok(assert(Peek({";"}), b1, <<>>), Sh(h + 4, l, s, 2), Sh(h + 4, l, s, 2),
         {}) /\ ~IsLoop(assert(Peek({";"}), b1, <<>>))
      <3>1. Typed(<<>>, Sh(h + 4, l, s, 0), Sh(h + 4, l, s, 2), {})
        BY TypedEmpty, <1>0, <1>01
      <3> QED
        BY <1>1, <3>1, FailSh, OkAssert
    <2>7. Ok(assert(Peek({"EXTERNAL"}), b2, <<>>), Sh(h + 4, l, s, 2), Sh(h + 4, l, s, 2),
         {}) /\ ~IsLoop(assert(Peek({"EXTERNAL"}), b2, <<>>))
      <3>1. Typed(<<>>, Sh(h + 4, l, s, 0), Sh(h + 4, l, s, 2), {})
        BY TypedEmpty, <1>0, <1>01
      <3> QED
        BY <1>2, <3>1, FailSh, OkAssert
    <2>8. Ok(assert(Peek({"["}), b3, <<>>), Sh(h + 4, l, s, 2), Sh(h + 4, l, s, 2),
         {}) /\ ~IsLoop(assert(Peek({"["}), b3, <<>>))
      <3>1. Typed(<<>>, Sh(h + 4, l, s, 0), Sh(h + 4, l, s, 2), {})
        BY TypedEmpty, <1>0, <1>01
      <3> QED
        BY <1>3, <3>1, FailSh, OkAssert
    <2>9. Ok(assert(Peek({"string"}), b5, b6), Sh(h + 4, l, s, 2), Sh(h + 1, l, s, 2),
         {}) /\ ~IsLoop(assert(Peek({"string"}), b5, b6))
      BY <1>5, <1>6, FailSh, OkAssert
    <2> QED
      BY <2>1, <2>2, <2>3, <2>4, <2>5, <2>6, <2>7, <2>8, <2>9, <1>0, <1>01, Block9 DEF b7
  <1>8. Typed(b8, Sh(h + 2, l, s, 0), Sh(h + 1, l, s, 2), {})
    <2>1. Ok(drop(1), Sh(h + 2, l, s, 0), Sh(h + 1, l, s, 0), {})
      BY OkDrop DEF Kept, Failed, Sound
    <2> QED
      BY <2>1, <1>0, <1>01, Block1 DEF b8
  <1>9. Typed(b9, Sh(h + 1, l, s, 2), Sh(h + 1, l, s, 2), {})
    <2>1. Ok(value, Sh(h + 1, l, s, 2), Sh(h + 2, l, s, 2), {})
      BY OkValue DEF Kept, Failed, Sound
    <2>2. Ok(next, Sh(h + 2, l, s, 2), Sh(h + 2, l, s, 2), {})
      BY OkStay
    <2>3. Ok(assert(Peek({"]"}), b7, b8), Sh(h + 2, l, s, 2), Sh(h + 1, l, s, 2),
         {}) /\ ~IsLoop(assert(Peek({"]"}), b7, b8))
      BY <1>7, <1>8, FailSh, OkAssert
    <2> QED
      BY <2>1, <2>2, <2>3, <1>0, <1>01, Block3 DEF b9
  <1>10. Typed(b10, Sh(h + 1, l, s, 2), Sh(h + 1, l, s, 2), {})
    <2>1. Ok(next, Sh(h + 1, l, s, 2), Sh(h + 1, l, s, 2), {})
      BY OkStay
    <2>2. Ok(assert(Peek({"string"}), b9, <<>>), Sh(h + 1, l, s, 2), Sh(h + 1, l, s, 2),
         {}) /\ ~IsLoop(assert(Peek({"string"}), b9, <<>>))
      <3>1. Typed(<<>>, Sh(h + 1, l, s, 0), Sh(h + 1, l, s, 2), {})
        BY TypedEmpty, <1>0, <1>01
      <3> QED
        BY <1>9, <3>1, FailSh, OkAssert
    <2> QED
      BY <2>1, <2>2, <1>0, <1>01, Block2 DEF b10
  <1> QED
    BY <1>10 DEF b1, b2, b3, b4, b5, b6, b7, b8, b9, b10, procedure_declaration

\* The production procedure_definition
LEMMA ProcedureDefinitionTyped ==
    ASSUME NEW h \in Nat, NEW l \in Int, NEW s \in Int
    PROVE  Typed(procedure_definition, Sh(h + 1, l, s, 2), Sh(h + 1, l, s, 2), {})
  <1> DEFINE b1 == <<next>>
             b2 == <<call("identdef"), make("heading", 1), scope(1), call("formal_parameters"),
                   assert(Peek({";"}), b1, <<>>), call("procedure_body"), call("ident"), scope(-1),
                   sema("procedure", 5), append>>
  <1> HIDE DEF b1, b2
  <1>0. /\ Sh(h + 1, l, s, 2) \in Shape
        /\ Sh(h + 2, l, s + 1, 2) \in Shape
        /\ Sh(h + 2, l, s, 2) \in Shape
        /\ Sh(h + 3, l, s + 1, 0) \in Shape
        /\ Sh(h + 3, l, s + 1, 2) \in Shape
        /\ Sh(h + 5, l, s + 1, 2) \in Shape
        /\ Sh(h + 6, l, s + 1, 2) \in Shape
        /\ Sh(h + 6, l, s, 2) \in Shape
    BY ShapesAre
  <1>01. /\ Fits(Sh(h + 1, l, s, 2), Sh(h + 1, l, s, 2))
         /\ Fits(Sh(h + 3, l, s + 1, 0), Sh(h + 3, l, s + 1, 2))
         /\ Fits(Sh(h + 3, l, s + 1, 2), Sh(h + 3, l, s + 1, 2))
    BY ShFits
  <1>1. Typed(b1, Sh(h + 3, l, s + 1, 2), Sh(h + 3, l, s + 1, 2), {})
    <2>1. Ok(next, Sh(h + 3, l, s + 1, 2), Sh(h + 3, l, s + 1, 2), {})
      BY OkStay
    <2> QED
      BY <2>1, <1>0, <1>01, Block1 DEF b1
  <1>2. Typed(b2, Sh(h + 1, l, s, 2), Sh(h + 1, l, s, 2), {})
    <2>1. Ok(call("identdef"), Sh(h + 1, l, s, 2), Sh(h + 2, l, s, 2), {})
      BY OkPushes DEF Pushers
    <2>2. Ok(make("heading", 1), Sh(h + 2, l, s, 2), Sh(h + 2, l, s, 2), {})
      BY OkMakeHeading
    <2>3. Ok(scope(1), Sh(h + 2, l, s, 2), Sh(h + 2, l, s + 1, 2), {})
      BY OkEnterScope
    <2>4. Ok(call("formal_parameters"), Sh(h + 2, l, s + 1, 2), Sh(h + 3, l, s + 1, 2), {})
      BY OkPushes DEF Pushers
    <2>5. Ok(assert(Peek({";"}), b1, <<>>), Sh(h + 3, l, s + 1, 2), Sh(h + 3, l, s + 1, 2),
         {}) /\ ~IsLoop(assert(Peek({";"}), b1, <<>>))
      <3>1. Typed(<<>>, Sh(h + 3, l, s + 1, 0), Sh(h + 3, l, s + 1, 2), {})
        BY TypedEmpty, <1>0, <1>01
      <3> QED
        BY <1>1, <3>1, FailSh, OkAssert
    <2>6. Ok(call("procedure_body"), Sh(h + 3, l, s + 1, 2), Sh(h + 5, l, s + 1, 2), {})
      BY OkBody
    <2>7. Ok(call("ident"), Sh(h + 5, l, s + 1, 2), Sh(h + 6, l, s + 1, 2), {})
      BY OkPushes DEF Pushers
    <2>8. Ok(scope(-1), Sh(h + 6, l, s + 1, 2), Sh(h + 6, l, s, 2), {})
      BY OkLeaveScope
    <2>9. Ok(sema("procedure", 5), Sh(h + 6, l, s, 2), Sh(h + 2, l, s, 2), {})
      BY OkSema DEF SemaKinds, LookingInto, Kept, Failed, Sound
    <2>10. Ok(append, Sh(h + 2, l, s, 2), Sh(h + 1, l, s, 2), {})
      BY OkAppend DEF Kept, Failed, Sound
    <2> QED
      BY <2>1, <2>2, <2>3, <2>4, <2>5, <2>6, <2>7, <2>8, <2>9, <2>10, <1>0, <1>01, Block10 DEF b2
  <1> QED
    BY <1>2 DEF b1, b2, procedure_definition

\* The production procedure_body
LEMMA ProcedureBodyTyped ==
    ASSUME NEW h \in Nat, NEW l \in Int, NEW s \in Int
    PROVE  Typed(procedure_body, Sh(h, l, s, 2), Sh(h + 2, l, s, 2), {})
  <1> DEFINE b1 == <<next, statements>>
             b2 == <<take>>
             b3 == <<resync({"END"})>>
             b4 == <<next, call("statement_sequence"), assert(Peek({"END"}), b2, b3)>>
             b5 == <<statements>>
             b6 == <<assert(Peek({"BEGIN"}), b4, b5)>>
             b7 == <<call("declarations"), when(Peek({"END"}), b1, b6), resync(Idents)>>
  <1> HIDE DEF b1, b2, b3, b4, b5, b6, b7
  <1>0. /\ Sh(h + 1, l, s, 0) \in Shape
        /\ Sh(h + 1, l, s, 2) \in Shape
        /\ Sh(h + 2, l, s, 0) \in Shape
        /\ Sh(h + 2, l, s, 2) \in Shape
        /\ Sh(h, l, s, 2) \in Shape
    BY ShapesAre
  <1>01. /\ Fits(Sh(h + 2, l, s, 0), Sh(h + 2, l, s, 2))
         /\ Fits(Sh(h + 2, l, s, 2), Sh(h + 2, l, s, 2))
    BY ShFits
  <1>1. Typed(b1, Sh(h + 1, l, s, 2), Sh(h + 2, l, s, 2), {})
    <2>1. Ok(next, Sh(h + 1, l, s, 2), Sh(h + 1, l, s, 2), {})
      BY OkStay
    <2>2. Ok(statements, Sh(h + 1, l, s, 2), Sh(h + 2, l, s, 2), {})
      BY OkPush, OtherKinds DEF statements, Kept, Failed, Sound
    <2> QED
      BY <2>1, <2>2, <1>0, <1>01, Block2 DEF b1
  <1>2. Typed(b2, Sh(h + 2, l, s, 2), Sh(h + 2, l, s, 2), {})
    <2>1. Ok(take, Sh(h + 2, l, s, 2), Sh(h + 2, l, s, 2), {})
      BY OkStay
    <2> QED
      BY <2>1, <1>0, <1>01, Block1 DEF b2
  <1>3. Typed(b3, Sh(h + 2, l, s, 0), Sh(h + 2, l, s, 2), {})
    <2>1. Ok(resync({"END"}), Sh(h + 2, l, s, 0), Sh(h + 2, l, s, 0), {})
      BY OkStay
    <2> QED
      BY <2>1, <1>0, <1>01, Block1 DEF b3
  <1>4. Typed(b4, Sh(h + 1, l, s, 2), Sh(h + 2, l, s, 2), {})
    <2>1. Ok(next, Sh(h + 1, l, s, 2), Sh(h + 1, l, s, 2), {})
      BY OkStay
    <2>2. Ok(call("statement_sequence"), Sh(h + 1, l, s, 2), Sh(h + 2, l, s, 2), {})
      BY OkPushes DEF Pushers
    <2>3. Ok(assert(Peek({"END"}), b2, b3), Sh(h + 2, l, s, 2), Sh(h + 2, l, s, 2),
         {}) /\ ~IsLoop(assert(Peek({"END"}), b2, b3))
      BY <1>2, <1>3, FailSh, OkAssert
    <2> QED
      BY <2>1, <2>2, <2>3, <1>0, <1>01, Block3 DEF b4
  <1>5. Typed(b5, Sh(h + 1, l, s, 0), Sh(h + 2, l, s, 2), {})
    <2>1. Ok(statements, Sh(h + 1, l, s, 0), Sh(h + 2, l, s, 0), {})
      BY OkPush, OtherKinds DEF statements, Kept, Failed, Sound
    <2> QED
      BY <2>1, <1>0, <1>01, Block1 DEF b5
  <1>6. Typed(b6, Sh(h + 1, l, s, 2), Sh(h + 2, l, s, 2), {})
    <2>1. Ok(assert(Peek({"BEGIN"}), b4, b5), Sh(h + 1, l, s, 2), Sh(h + 2, l, s, 2),
         {}) /\ ~IsLoop(assert(Peek({"BEGIN"}), b4, b5))
      BY <1>4, <1>5, FailSh, OkAssert
    <2> QED
      BY <2>1, <1>0, <1>01, Block1 DEF b6
  <1>7. Typed(b7, Sh(h, l, s, 2), Sh(h + 2, l, s, 2), {})
    <2>1. Ok(call("declarations"), Sh(h, l, s, 2), Sh(h + 1, l, s, 2), {})
      BY OkPushes DEF Pushers
    <2>2. Ok(when(Peek({"END"}), b1, b6), Sh(h + 1, l, s, 2), Sh(h + 2, l, s, 2),
         {}) /\ ~IsLoop(when(Peek({"END"}), b1, b6))
      BY <1>1, <1>6, OkWhen
    <2>3. Ok(resync(Idents), Sh(h + 2, l, s, 2), Sh(h + 2, l, s, 2), {})
      BY OkStay
    <2> QED
      BY <2>1, <2>2, <2>3, <1>0, <1>01, Block3 DEF b7
  <1> QED
    BY <1>7 DEF b1, b2, b3, b4, b5, b6, b7, procedure_body

\* The production statement_sequence
LEMMA StatementSequenceTyped ==
    ASSUME NEW h \in Nat, NEW l \in Int, NEW s \in Int
    PROVE  Typed(statement_sequence, Sh(h, l, s, 2), Sh(h + 1, l, s, 2), {})
  <1> DEFINE e1 == Enders \cup {";"}
             b1 == <<take>>
             b2 == <<report>>
             b3 == <<break>>
             b4 == <<report, break>>
             b5 == <<report, resync(e1)>>
             b6 == <<when(Peek({"eof"}), b4, b5)>>
             b7 == <<when(Peek(Enders), b3, b6)>>
             b8 == <<when(Peek(Starters), b2, b7)>>
             b9 == <<call("statement"), add, when(Peek({";"}), b1, b8)>>
             b10 == <<forever(b9)>>
             b11 == <<statements, unless(Peek(Enders), b10)>>
  <1> HIDE DEF e1, b1, b2, b3, b4, b5, b6, b7, b8, b9, b10, b11
  <1>0. /\ Sh(h + 1, l, s, 0) \in Shape
        /\ Sh(h + 1, l, s, 2) \in Shape
        /\ Sh(h + 2, l, s, 3) \in Shape
        /\ Sh(h, l, s, 2) \in Shape
    BY ShapesAre
  <1>01. /\ Fits(Sh(h + 1, l, s, 0), Sh(h + 1, l, s, 0))
         /\ Fits(Sh(h + 1, l, s, 0), Sh(h + 1, l, s, 2))
         /\ Fits(Sh(h + 1, l, s, 2), Sh(h + 1, l, s, 2))
    BY ShFits
  <1>00. {Sh(h + 1, l, s, 2)} \in SUBSET Shape
    BY <1>0
  <1>1. Typed(b1, Sh(h + 1, l, s, 2), Sh(h + 1, l, s, 2), {Sh(h + 1, l, s, 2)})
    <2>1. Ok(take, Sh(h + 1, l, s, 2), Sh(h + 1, l, s, 2), {Sh(h + 1, l, s, 2)})
      BY OkStay
    <2> QED
      BY <2>1, <1>0, <1>00, <1>01, LoopBlock1 DEF b1
  <1>2. Typed(b2, Sh(h + 1, l, s, 2), Sh(h + 1, l, s, 0), {Sh(h + 1, l, s, 2)})
    <2>1. Ok(report, Sh(h + 1, l, s, 2), Sh(h + 1, l, s, 0), {Sh(h + 1, l, s, 2)})
      BY OkReport
    <2> QED
      BY <2>1, <1>0, <1>00, <1>01, LoopBlock1 DEF b2
  <1>3. Typed(b3, Sh(h + 1, l, s, 2), Sh(h + 1, l, s, 0), {Sh(h + 1, l, s, 2)})
    <2>1. Ok(break, Sh(h + 1, l, s, 2), Sh(h + 1, l, s, 0), {Sh(h + 1, l, s, 2)})
      BY OkBreak, <1>01
    <2> QED
      BY <2>1, <1>0, <1>00, <1>01, LoopBlock1 DEF b3
  <1>4. Typed(b4, Sh(h + 1, l, s, 2), Sh(h + 1, l, s, 0), {Sh(h + 1, l, s, 2)})
    <2>1. Ok(report, Sh(h + 1, l, s, 2), Sh(h + 1, l, s, 0), {Sh(h + 1, l, s, 2)})
      BY OkReport
    <2>2. Ok(break, Sh(h + 1, l, s, 0), Sh(h + 1, l, s, 0), {Sh(h + 1, l, s, 2)})
      BY OkBreak, <1>01
    <2> QED
      BY <2>1, <2>2, <1>0, <1>00, <1>01, NotLoops, LoopBlock2 DEF b4
  <1>5. Typed(b5, Sh(h + 1, l, s, 2), Sh(h + 1, l, s, 0), {Sh(h + 1, l, s, 2)})
    <2>1. Ok(report, Sh(h + 1, l, s, 2), Sh(h + 1, l, s, 0), {Sh(h + 1, l, s, 2)})
      BY OkReport
    <2>2. Ok(resync(e1), Sh(h + 1, l, s, 0), Sh(h + 1, l, s, 0), {Sh(h + 1, l, s, 2)})
      BY OkStay
    <2> QED
      BY <2>1, <2>2, <1>0, <1>00, <1>01, NotLoops, LoopBlock2 DEF b5
  <1>6. Typed(b6, Sh(h + 1, l, s, 2), Sh(h + 1, l, s, 0), {Sh(h + 1, l, s, 2)})
    <2>1. Ok(when(Peek({"eof"}), b4, b5), Sh(h + 1, l, s, 2), Sh(h + 1, l, s, 0), {Sh(h + 1,
         l, s, 2)}) /\ ~IsLoop(when(Peek({"eof"}), b4, b5))
      BY <1>4, <1>5, OkWhen
    <2> QED
      BY <2>1, <1>0, <1>00, <1>01, LoopBlock1 DEF b6
  <1>7. Typed(b7, Sh(h + 1, l, s, 2), Sh(h + 1, l, s, 0), {Sh(h + 1, l, s, 2)})
    <2>1. Ok(when(Peek(Enders), b3, b6), Sh(h + 1, l, s, 2), Sh(h + 1, l, s, 0), {Sh(h + 1, l,
         s, 2)}) /\ ~IsLoop(when(Peek(Enders), b3, b6))
      BY <1>3, <1>6, OkWhen
    <2> QED
      BY <2>1, <1>0, <1>00, <1>01, LoopBlock1 DEF b7
  <1>8. Typed(b8, Sh(h + 1, l, s, 2), Sh(h + 1, l, s, 2), {Sh(h + 1, l, s, 2)})
    <2>1. Ok(when(Peek(Starters), b2, b7), Sh(h + 1, l, s, 2), Sh(h + 1, l, s, 0), {Sh(h + 1,
         l, s, 2)}) /\ ~IsLoop(when(Peek(Starters), b2, b7))
      BY <1>2, <1>7, OkWhen
    <2> QED
      BY <2>1, <1>0, <1>00, <1>01, LoopBlock1 DEF b8
  <1>9. Typed(b9, Sh(h + 1, l, s, 2), Sh(h + 1, l, s, 2), {Sh(h + 1, l, s, 2)})
    <2>1. Ok(call("statement"), Sh(h + 1, l, s, 2), Sh(h + 2, l, s, 3), {Sh(h + 1, l, s, 2)})
      BY OkStatement
    <2>2. Ok(add, Sh(h + 2, l, s, 3), Sh(h + 1, l, s, 2), {Sh(h + 1, l, s, 2)})
      BY OkAdd DEF Kept, Failed, Sound
    <2>3. Ok(when(Peek({";"}), b1, b8), Sh(h + 1, l, s, 2), Sh(h + 1, l, s, 2), {Sh(h + 1, l,
         s, 2)}) /\ ~IsLoop(when(Peek({";"}), b1, b8))
      BY <1>1, <1>8, OkWhen
    <2> QED
      BY <2>1, <2>2, <2>3, <1>0, <1>00, <1>01, NotLoops, LoopBlock3 DEF b9
  <1>10. Typed(b10, Sh(h + 1, l, s, 2), Sh(h + 1, l, s, 2), {})
    <2>1. Ok(forever(b9), Sh(h + 1, l, s, 2), Sh(h + 1, l, s, 2), {})
      BY <1>9, <1>0, OkForever
    <2> QED
      BY <2>1, <1>0, <1>01, Block1 DEF b10
  <1>11. Typed(b11, Sh(h, l, s, 2), Sh(h + 1, l, s, 2), {})
    <2>1. Ok(statements, Sh(h, l, s, 2), Sh(h + 1, l, s, 2), {})
      BY OkPush, OtherKinds DEF statements, Kept, Failed, Sound
    <2>2. Ok(unless(Peek(Enders), b10), Sh(h + 1, l, s, 2), Sh(h + 1, l, s, 2),
         {}) /\ ~IsLoop(unless(Peek(Enders), b10))
      <3>1. Typed(<<>>, Sh(h + 1, l, s, 2), Sh(h + 1, l, s, 2), {})
        BY TypedEmpty, <1>0, <1>01
      <3> QED
        BY <3>1, <1>10, OkWhen DEF unless
    <2> QED
      BY <2>1, <2>2, <1>0, <1>01, Block2 DEF b11
  <1> QED
    BY <1>11 DEF e1, b1, b2, b3, b4, b5, b6, b7, b8, b9, b10, b11, statement_sequence

\* The production statement
LEMMA StatementTyped ==
    ASSUME NEW h \in Nat, NEW l \in Int, NEW s \in Int
    PROVE  Typed(statement, Sh(h, l, s, 2), Sh(h + 1, l, s, 3), {})
  <1> DEFINE e1 == Enders \cup {";"}
             b1 == <<report, drop(1), null>>
             b2 == <<sema("qualified", 1), call("assignment")>>
             b3 == <<sema("call", 1)>>
             b4 == <<when(Peek({":="}), b2, b3)>>
             b5 == <<call("designator"), when(Peek({"="}), b1, b4)>>
             b6 == <<call("if_statement")>>
             b7 == <<call("case_statement")>>
             b8 == <<call("loop_statement")>>
             b9 == <<call("while_statement")>>
             b10 == <<call("repeat_statement")>>
             b11 == <<call("for_statement")>>
             b12 == <<take, sema("exit", 0)>>
             b13 == <<push("none")>>
             b14 == <<call("expression")>>
             b15 == <<take, when(Peek(e1), b13, b14), make("return", 1)>>
             b16 == <<null>>
             b17 == <<report, next, null>>
             b18 == <<when(Peek(e1), b16, b17)>>
             b19 == <<when(Peek({"RETURN"}), b15, b18)>>
             b20 == <<when(Peek({"EXIT"}), b12, b19)>>
             b21 == <<when(Peek({"FOR"}), b11, b20)>>
             b22 == <<when(Peek({"REPEAT"}), b10, b21)>>
             b23 == <<when(Peek({"WHILE"}), b9, b22)>>
             b24 == <<when(Peek({"LOOP"}), b8, b23)>>
             b25 == <<when(Peek({"CASE"}), b7, b24)>>
             b26 == <<when(Peek({"IF"}), b6, b25)>>
             b27 == <<when(Peek(Idents), b5, b26)>>
  <1> HIDE DEF e1, b1, b2, b3, b4, b5, b6, b7, b8, b9, b10, b11, b12, b13, b14, b15, b16, b17, b18,
               b19, b20, b21, b22, b23, b24, b25, b26, b27
  <1>0. /\ Sh(h + 1, l, s, 0) \in Shape
        /\ Sh(h + 1, l, s, 1) \in Shape
        /\ Sh(h + 1, l, s, 2) \in Shape
        /\ Sh(h + 1, l, s, 3) \in Shape
        /\ Sh(h, l, s, 0) \in Shape
        /\ Sh(h, l, s, 2) \in Shape
    BY ShapesAre
  <1>01. /\ Fits(Sh(h + 1, l, s, 0), Sh(h + 1, l, s, 2))
         /\ Fits(Sh(h + 1, l, s, 0), Sh(h + 1, l, s, 3))
         /\ Fits(Sh(h + 1, l, s, 2), Sh(h + 1, l, s, 2))
         /\ Fits(Sh(h + 1, l, s, 2), Sh(h + 1, l, s, 3))
         /\ Fits(Sh(h + 1, l, s, 3), Sh(h + 1, l, s, 3))
    BY ShFits
  <1>1. Typed(b1, Sh(h + 1, l, s, 1), Sh(h + 1, l, s, 2), {})
    <2>1. Ok(report, Sh(h + 1, l, s, 1), Sh(h + 1, l, s, 0), {})
      BY OkReport
    <2>2. Ok(drop(1), Sh(h + 1, l, s, 0), Sh(h, l, s, 0), {})
      BY OkDrop DEF Kept, Failed, Sound
    <2>3. Ok(null, Sh(h, l, s, 0), Sh(h + 1, l, s, 0), {})
      BY OkNull
    <2> QED
      BY <2>1, <2>2, <2>3, <1>0, <1>01, Block3 DEF b1
  <1>2. Typed(b2, Sh(h + 1, l, s, 1), Sh(h + 1, l, s, 2), {})
    <2>1. Ok(sema("qualified", 1), Sh(h + 1, l, s, 1), Sh(h + 1, l, s, 2), {})
      BY OkDesignated DEF Kept, Failed, Sound
    <2>2. Ok(call("assignment"), Sh(h + 1, l, s, 2), Sh(h + 1, l, s, 2), {})
      BY OkAdds DEF Appenders
    <2> QED
      BY <2>1, <2>2, <1>0, <1>01, Block2 DEF b2
  <1>3. Typed(b3, Sh(h + 1, l, s, 1), Sh(h + 1, l, s, 2), {})
    <2>1. Ok(sema("call", 1), Sh(h + 1, l, s, 1), Sh(h + 1, l, s, 2), {})
      BY OkDesignated DEF Kept, Failed, Sound
    <2> QED
      BY <2>1, <1>0, <1>01, Block1 DEF b3
  <1>4. Typed(b4, Sh(h + 1, l, s, 1), Sh(h + 1, l, s, 2), {})
    <2>1. Ok(when(Peek({":="}), b2, b3), Sh(h + 1, l, s, 1), Sh(h + 1, l, s, 2),
         {}) /\ ~IsLoop(when(Peek({":="}), b2, b3))
      BY <1>2, <1>3, OkWhen
    <2> QED
      BY <2>1, <1>0, <1>01, Block1 DEF b4
  <1>5. Typed(b5, Sh(h, l, s, 2), Sh(h + 1, l, s, 3), {})
    <2>1. Ok(call("designator"), Sh(h, l, s, 2), Sh(h + 1, l, s, 1), {})
      BY OkDesignator
    <2>2. Ok(when(Peek({"="}), b1, b4), Sh(h + 1, l, s, 1), Sh(h + 1, l, s, 2),
         {}) /\ ~IsLoop(when(Peek({"="}), b1, b4))
      BY <1>1, <1>4, OkWhen
    <2> QED
      BY <2>1, <2>2, <1>0, <1>01, Block2 DEF b5
  <1>6. Typed(b6, Sh(h, l, s, 2), Sh(h + 1, l, s, 3), {})
    <2>1. Ok(call("if_statement"), Sh(h, l, s, 2), Sh(h + 1, l, s, 2), {})
      BY OkPushes DEF Pushers
    <2> QED
      BY <2>1, <1>0, <1>01, Block1 DEF b6
  <1>7. Typed(b7, Sh(h, l, s, 2), Sh(h + 1, l, s, 3), {})
    <2>1. Ok(call("case_statement"), Sh(h, l, s, 2), Sh(h + 1, l, s, 2), {})
      BY OkPushes DEF Pushers
    <2> QED
      BY <2>1, <1>0, <1>01, Block1 DEF b7
  <1>8. Typed(b8, Sh(h, l, s, 2), Sh(h + 1, l, s, 3), {})
    <2>1. Ok(call("loop_statement"), Sh(h, l, s, 2), Sh(h + 1, l, s, 2), {})
      BY OkPushes DEF Pushers
    <2> QED
      BY <2>1, <1>0, <1>01, Block1 DEF b8
  <1>9. Typed(b9, Sh(h, l, s, 2), Sh(h + 1, l, s, 3), {})
    <2>1. Ok(call("while_statement"), Sh(h, l, s, 2), Sh(h + 1, l, s, 2), {})
      BY OkPushes DEF Pushers
    <2> QED
      BY <2>1, <1>0, <1>01, Block1 DEF b9
  <1>10. Typed(b10, Sh(h, l, s, 2), Sh(h + 1, l, s, 3), {})
    <2>1. Ok(call("repeat_statement"), Sh(h, l, s, 2), Sh(h + 1, l, s, 2), {})
      BY OkPushes DEF Pushers
    <2> QED
      BY <2>1, <1>0, <1>01, Block1 DEF b10
  <1>11. Typed(b11, Sh(h, l, s, 2), Sh(h + 1, l, s, 3), {})
    <2>1. Ok(call("for_statement"), Sh(h, l, s, 2), Sh(h + 1, l, s, 2), {})
      BY OkPushes DEF Pushers
    <2> QED
      BY <2>1, <1>0, <1>01, Block1 DEF b11
  <1>12. Typed(b12, Sh(h, l, s, 2), Sh(h + 1, l, s, 3), {})
    <2>1. Ok(take, Sh(h, l, s, 2), Sh(h, l, s, 2), {})
      BY OkStay
    <2>2. Ok(sema("exit", 0), Sh(h, l, s, 2), Sh(h + 1, l, s, 2), {})
      BY OkSema DEF SemaKinds, LookingInto, Kept, Failed, Sound
    <2> QED
      BY <2>1, <2>2, <1>0, <1>01, Block2 DEF b12
  <1>13. Typed(b13, Sh(h, l, s, 2), Sh(h + 1, l, s, 2), {})
    <2>1. Ok(push("none"), Sh(h, l, s, 2), Sh(h + 1, l, s, 2), {})
      BY OkPush, OtherKinds DEF Kept, Failed, Sound
    <2> QED
      BY <2>1, <1>0, <1>01, Block1 DEF b13
  <1>14. Typed(b14, Sh(h, l, s, 2), Sh(h + 1, l, s, 2), {})
    <2>1. Ok(call("expression"), Sh(h, l, s, 2), Sh(h + 1, l, s, 2), {})
      BY OkPushes DEF Pushers
    <2> QED
      BY <2>1, <1>0, <1>01, Block1 DEF b14
  <1>15. Typed(b15, Sh(h, l, s, 2), Sh(h + 1, l, s, 3), {})
    <2>1. Ok(take, Sh(h, l, s, 2), Sh(h, l, s, 2), {})
      BY OkStay
    <2>2. Ok(when(Peek(e1), b13, b14), Sh(h, l, s, 2), Sh(h + 1, l, s, 2),
         {}) /\ ~IsLoop(when(Peek(e1), b13, b14))
      BY <1>13, <1>14, OkWhen
    <2>3. Ok(make("return", 1), Sh(h + 1, l, s, 2), Sh(h + 1, l, s, 2), {})
      BY OkMake, OtherKinds DEF Kept, Failed, Sound
    <2> QED
      BY <2>1, <2>2, <2>3, <1>0, <1>01, Block3 DEF b15
  <1>16. Typed(b16, Sh(h, l, s, 2), Sh(h + 1, l, s, 3), {})
    <2>1. Ok(null, Sh(h, l, s, 2), Sh(h + 1, l, s, 3), {})
      BY OkNull
    <2> QED
      BY <2>1, <1>0, <1>01, Block1 DEF b16
  <1>17. Typed(b17, Sh(h, l, s, 2), Sh(h + 1, l, s, 3), {})
    <2>1. Ok(report, Sh(h, l, s, 2), Sh(h, l, s, 0), {})
      BY OkReport
    <2>2. Ok(next, Sh(h, l, s, 0), Sh(h, l, s, 0), {})
      BY OkStay
    <2>3. Ok(null, Sh(h, l, s, 0), Sh(h + 1, l, s, 0), {})
      BY OkNull
    <2> QED
      BY <2>1, <2>2, <2>3, <1>0, <1>01, Block3 DEF b17
  <1>18. Typed(b18, Sh(h, l, s, 2), Sh(h + 1, l, s, 3), {})
    <2>1. Ok(when(Peek(e1), b16, b17), Sh(h, l, s, 2), Sh(h + 1, l, s, 3),
         {}) /\ ~IsLoop(when(Peek(e1), b16, b17))
      BY <1>16, <1>17, OkWhen
    <2> QED
      BY <2>1, <1>0, <1>01, Block1 DEF b18
  <1>19. Typed(b19, Sh(h, l, s, 2), Sh(h + 1, l, s, 3), {})
    <2>1. Ok(when(Peek({"RETURN"}), b15, b18), Sh(h, l, s, 2), Sh(h + 1, l, s, 3),
         {}) /\ ~IsLoop(when(Peek({"RETURN"}), b15, b18))
      BY <1>15, <1>18, OkWhen
    <2> QED
      BY <2>1, <1>0, <1>01, Block1 DEF b19
  <1>20. Typed(b20, Sh(h, l, s, 2), Sh(h + 1, l, s, 3), {})
    <2>1. Ok(when(Peek({"EXIT"}), b12, b19), Sh(h, l, s, 2), Sh(h + 1, l, s, 3),
         {}) /\ ~IsLoop(when(Peek({"EXIT"}), b12, b19))
      BY <1>12, <1>19, OkWhen
    <2> QED
      BY <2>1, <1>0, <1>01, Block1 DEF b20
  <1>21. Typed(b21, Sh(h, l, s, 2), Sh(h + 1, l, s, 3), {})
    <2>1. Ok(when(Peek({"FOR"}), b11, b20), Sh(h, l, s, 2), Sh(h + 1, l, s, 3),
         {}) /\ ~IsLoop(when(Peek({"FOR"}), b11, b20))
      BY <1>11, <1>20, OkWhen
    <2> QED
      BY <2>1, <1>0, <1>01, Block1 DEF b21
  <1>22. Typed(b22, Sh(h, l, s, 2), Sh(h + 1, l, s, 3), {})
    <2>1. Ok(when(Peek({"REPEAT"}), b10, b21), Sh(h, l, s, 2), Sh(h + 1, l, s, 3),
         {}) /\ ~IsLoop(when(Peek({"REPEAT"}), b10, b21))
      BY <1>10, <1>21, OkWhen
    <2> QED
      BY <2>1, <1>0, <1>01, Block1 DEF b22
  <1>23. Typed(b23, Sh(h, l, s, 2), Sh(h + 1, l, s, 3), {})
    <2>1. Ok(when(Peek({"WHILE"}), b9, b22), Sh(h, l, s, 2), Sh(h + 1, l, s, 3),
         {}) /\ ~IsLoop(when(Peek({"WHILE"}), b9, b22))
      BY <1>9, <1>22, OkWhen
    <2> QED
      BY <2>1, <1>0, <1>01, Block1 DEF b23
  <1>24. Typed(b24, Sh(h, l, s, 2), Sh(h + 1, l, s, 3), {})
    <2>1. Ok(when(Peek({"LOOP"}), b8, b23), Sh(h, l, s, 2), Sh(h + 1, l, s, 3),
         {}) /\ ~IsLoop(when(Peek({"LOOP"}), b8, b23))
      BY <1>8, <1>23, OkWhen
    <2> QED
      BY <2>1, <1>0, <1>01, Block1 DEF b24
  <1>25. Typed(b25, Sh(h, l, s, 2), Sh(h + 1, l, s, 3), {})
    <2>1. Ok(when(Peek({"CASE"}), b7, b24), Sh(h, l, s, 2), Sh(h + 1, l, s, 3),
         {}) /\ ~IsLoop(when(Peek({"CASE"}), b7, b24))
      BY <1>7, <1>24, OkWhen
    <2> QED
      BY <2>1, <1>0, <1>01, Block1 DEF b25
  <1>26. Typed(b26, Sh(h, l, s, 2), Sh(h + 1, l, s, 3), {})
    <2>1. Ok(when(Peek({"IF"}), b6, b25), Sh(h, l, s, 2), Sh(h + 1, l, s, 3),
         {}) /\ ~IsLoop(when(Peek({"IF"}), b6, b25))
      BY <1>6, <1>25, OkWhen
    <2> QED
      BY <2>1, <1>0, <1>01, Block1 DEF b26
  <1>27. Typed(b27, Sh(h, l, s, 2), Sh(h + 1, l, s, 3), {})
    <2>1. Ok(when(Peek(Idents), b5, b26), Sh(h, l, s, 2), Sh(h + 1, l, s, 3),
         {}) /\ ~IsLoop(when(Peek(Idents), b5, b26))
      BY <1>5, <1>26, OkWhen
    <2> QED
      BY <2>1, <1>0, <1>01, Block1 DEF b27
  <1> QED
    BY <1>27 DEF e1, b1, b2, b3, b4, b5, b6, b7, b8, b9, b10, b11, b12, b13, b14, b15, b16, b17,
       b18, b19, b20, b21, b22, b23, b24, b25, b26, b27, statement

\* The production assignment
LEMMA AssignmentTyped ==
    ASSUME NEW h \in Nat, NEW l \in Int, NEW s \in Int
    PROVE  Typed(assignment, Sh(h + 1, l, s, 2), Sh(h + 1, l, s, 2), {})
  <1> DEFINE b1 == <<next, call("expression"), make("assignment", 2)>>
  <1> HIDE DEF b1
  <1>0. /\ Sh(h + 1, l, s, 2) \in Shape
        /\ Sh(h + 2, l, s, 2) \in Shape
    BY ShapesAre
  <1>01. Fits(Sh(h + 1, l, s, 2), Sh(h + 1, l, s, 2))
    BY ShFits
  <1>1. Typed(b1, Sh(h + 1, l, s, 2), Sh(h + 1, l, s, 2), {})
    <2>1. Ok(next, Sh(h + 1, l, s, 2), Sh(h + 1, l, s, 2), {})
      BY OkStay
    <2>2. Ok(call("expression"), Sh(h + 1, l, s, 2), Sh(h + 2, l, s, 2), {})
      BY OkPushes DEF Pushers
    <2>3. Ok(make("assignment", 2), Sh(h + 2, l, s, 2), Sh(h + 1, l, s, 2), {})
      BY OkMake, OtherKinds DEF Kept, Failed, Sound
    <2> QED
      BY <2>1, <2>2, <2>3, <1>0, <1>01, Block3 DEF b1
  <1> QED
    BY <1>1 DEF b1, assignment

\* The production if_statement
LEMMA IfStatementTyped ==
    ASSUME NEW h \in Nat, NEW l \in Int, NEW s \in Int
    PROVE  Typed(if_statement, Sh(h, l, s, 2), Sh(h + 1, l, s, 2), {})
  <1> DEFINE b1 == <<call("elsif_then")>>
             b2 == <<call("statement_sequence"), take>>
             b3 == <<statements>>
             b4 == <<report>>
             b5 == <<call("statement_sequence"), list, take, while(Member({"ELSIF"}), b1),
                   when(Member({"ELSE"}), b2, b3), unless(Member({"END"}), b4)>>
             b6 == <<statements, list, statements>>
             b7 == <<take, call("expression"), take, assert(Member({"THEN"}), b5, b6),
                   sema("if", 4)>>
  <1> HIDE DEF b1, b2, b3, b4, b5, b6, b7
  <1>0. /\ Sh(h + 1, l, s, 0) \in Shape
        /\ Sh(h + 1, l, s, 2) \in Shape
        /\ Sh(h + 2, l, s, 0) \in Shape
        /\ Sh(h + 2, l, s, 2) \in Shape
        /\ Sh(h + 3, l, s, 0) \in Shape
        /\ Sh(h + 3, l, s, 2) \in Shape
        /\ Sh(h + 4, l, s, 0) \in Shape
        /\ Sh(h + 4, l, s, 2) \in Shape
        /\ Sh(h, l, s, 2) \in Shape
    BY ShapesAre
  <1>01. /\ Fits(Sh(h + 1, l, s, 2), Sh(h + 1, l, s, 2))
         /\ Fits(Sh(h + 3, l, s, 2), Sh(h + 3, l, s, 2))
         /\ Fits(Sh(h + 4, l, s, 0), Sh(h + 4, l, s, 2))
         /\ Fits(Sh(h + 4, l, s, 2), Sh(h + 4, l, s, 2))
    BY ShFits
  <1>00. {Sh(h + 3, l, s, 2)} \in SUBSET Shape
    BY <1>0
  <1>1. Typed(b1, Sh(h + 3, l, s, 2), Sh(h + 3, l, s, 2), {Sh(h + 3, l, s, 2)})
    <2>1. Ok(call("elsif_then"), Sh(h + 3, l, s, 2), Sh(h + 3, l, s, 2), {Sh(h + 3, l, s, 2)})
      BY OkAdds DEF Appenders
    <2> QED
      BY <2>1, <1>0, <1>00, <1>01, LoopBlock1 DEF b1
  <1>2. Typed(b2, Sh(h + 3, l, s, 2), Sh(h + 4, l, s, 2), {})
    <2>1. Ok(call("statement_sequence"), Sh(h + 3, l, s, 2), Sh(h + 4, l, s, 2), {})
      BY OkPushes DEF Pushers
    <2>2. Ok(take, Sh(h + 4, l, s, 2), Sh(h + 4, l, s, 2), {})
      BY OkStay
    <2> QED
      BY <2>1, <2>2, <1>0, <1>01, Block2 DEF b2
  <1>3. Typed(b3, Sh(h + 3, l, s, 2), Sh(h + 4, l, s, 2), {})
    <2>1. Ok(statements, Sh(h + 3, l, s, 2), Sh(h + 4, l, s, 2), {})
      BY OkPush, OtherKinds DEF statements, Kept, Failed, Sound
    <2> QED
      BY <2>1, <1>0, <1>01, Block1 DEF b3
  <1>4. Typed(b4, Sh(h + 4, l, s, 2), Sh(h + 4, l, s, 2), {})
    <2>1. Ok(report, Sh(h + 4, l, s, 2), Sh(h + 4, l, s, 0), {})
      BY OkReport
    <2> QED
      BY <2>1, <1>0, <1>01, Block1 DEF b4
  <1>5. Typed(b5, Sh(h + 1, l, s, 2), Sh(h + 4, l, s, 2), {})
    <2>1. Ok(call("statement_sequence"), Sh(h + 1, l, s, 2), Sh(h + 2, l, s, 2), {})
      BY OkPushes DEF Pushers
    <2>2. Ok(list, Sh(h + 2, l, s, 2), Sh(h + 3, l, s, 2), {})
      BY OkPush, OtherKinds DEF list, Kept, Failed, Sound
    <2>3. Ok(take, Sh(h + 3, l, s, 2), Sh(h + 3, l, s, 2), {})
      BY OkStay
    <2>4. Ok(while(Member({"ELSIF"}), b1), Sh(h + 3, l, s, 2), Sh(h + 3, l, s, 2), {})
      BY <1>1, <1>0, OkWhile
    <2>5. Ok(when(Member({"ELSE"}), b2, b3), Sh(h + 3, l, s, 2), Sh(h + 4, l, s, 2),
         {}) /\ ~IsLoop(when(Member({"ELSE"}), b2, b3))
      BY <1>2, <1>3, OkWhen
    <2>6. Ok(unless(Member({"END"}), b4), Sh(h + 4, l, s, 2), Sh(h + 4, l, s, 2),
         {}) /\ ~IsLoop(unless(Member({"END"}), b4))
      <3>1. Typed(<<>>, Sh(h + 4, l, s, 2), Sh(h + 4, l, s, 2), {})
        BY TypedEmpty, <1>0, <1>01
      <3> QED
        BY <3>1, <1>4, OkWhen DEF unless
    <2> QED
      BY <2>1, <2>2, <2>3, <2>4, <2>5, <2>6, <1>0, <1>01, Block6 DEF b5
  <1>6. Typed(b6, Sh(h + 1, l, s, 0), Sh(h + 4, l, s, 2), {})
    <2>1. Ok(statements, Sh(h + 1, l, s, 0), Sh(h + 2, l, s, 0), {})
      BY OkPush, OtherKinds DEF statements, Kept, Failed, Sound
    <2>2. Ok(list, Sh(h + 2, l, s, 0), Sh(h + 3, l, s, 0), {})
      BY OkPush, OtherKinds DEF list, Kept, Failed, Sound
    <2>3. Ok(statements, Sh(h + 3, l, s, 0), Sh(h + 4, l, s, 0), {})
      BY OkPush, OtherKinds DEF statements, Kept, Failed, Sound
    <2> QED
      BY <2>1, <2>2, <2>3, <1>0, <1>01, Block3 DEF b6
  <1>7. Typed(b7, Sh(h, l, s, 2), Sh(h + 1, l, s, 2), {})
    <2>1. Ok(take, Sh(h, l, s, 2), Sh(h, l, s, 2), {})
      BY OkStay
    <2>2. Ok(call("expression"), Sh(h, l, s, 2), Sh(h + 1, l, s, 2), {})
      BY OkPushes DEF Pushers
    <2>3. Ok(take, Sh(h + 1, l, s, 2), Sh(h + 1, l, s, 2), {})
      BY OkStay
    <2>4. Ok(assert(Member({"THEN"}), b5, b6), Sh(h + 1, l, s, 2), Sh(h + 4, l, s, 2),
         {}) /\ ~IsLoop(assert(Member({"THEN"}), b5, b6))
      BY <1>5, <1>6, FailSh, OkAssert
    <2>5. Ok(sema("if", 4), Sh(h + 4, l, s, 2), Sh(h + 1, l, s, 2), {})
      BY OkSema DEF SemaKinds, LookingInto, Kept, Failed, Sound
    <2> QED
      BY <2>1, <2>2, <2>3, <2>4, <2>5, <1>0, <1>01, Block5 DEF b7
  <1> QED
    BY <1>7 DEF b1, b2, b3, b4, b5, b6, b7, if_statement

\* The production loop_statement
LEMMA LoopStatementTyped ==
    ASSUME NEW h \in Nat, NEW l \in Int, NEW s \in Int
    PROVE  Typed(loop_statement, Sh(h, l, s, 2), Sh(h + 1, l, s, 2), {})
  <1> DEFINE b1 == <<report>>
             b2 == <<take, loop(1), call("statement_sequence"), take, unless(Member({"END"}),
                   b1), loop(-1), make("loop", 1)>>
  <1> HIDE DEF b1, b2
  <1>0. /\ Sh(h + 1, l + 1, s, 0) \in Shape
        /\ Sh(h + 1, l + 1, s, 2) \in Shape
        /\ Sh(h + 1, l, s, 2) \in Shape
        /\ Sh(h, l + 1, s, 2) \in Shape
        /\ Sh(h, l, s, 2) \in Shape
    BY ShapesAre
  <1>01. /\ Fits(Sh(h + 1, l + 1, s, 0), Sh(h + 1, l + 1, s, 2))
         /\ Fits(Sh(h + 1, l + 1, s, 2), Sh(h + 1, l + 1, s, 2))
         /\ Fits(Sh(h + 1, l, s, 2), Sh(h + 1, l, s, 2))
    BY ShFits
  <1>1. Typed(b1, Sh(h + 1, l + 1, s, 2), Sh(h + 1, l + 1, s, 2), {})
    <2>1. Ok(report, Sh(h + 1, l + 1, s, 2), Sh(h + 1, l + 1, s, 0), {})
      BY OkReport
    <2> QED
      BY <2>1, <1>0, <1>01, Block1 DEF b1
  <1>2. Typed(b2, Sh(h, l, s, 2), Sh(h + 1, l, s, 2), {})
    <2>1. Ok(take, Sh(h, l, s, 2), Sh(h, l, s, 2), {})
      BY OkStay
    <2>2. Ok(loop(1), Sh(h, l, s, 2), Sh(h, l + 1, s, 2), {})
      BY OkEnterLoop
    <2>3. Ok(call("statement_sequence"), Sh(h, l + 1, s, 2), Sh(h + 1, l + 1, s, 2), {})
      BY OkPushes DEF Pushers
    <2>4. Ok(take, Sh(h + 1, l + 1, s, 2), Sh(h + 1, l + 1, s, 2), {})
      BY OkStay
    <2>5. Ok(unless(Member({"END"}), b1), Sh(h + 1, l + 1, s, 2), Sh(h + 1, l + 1, s, 2),
         {}) /\ ~IsLoop(unless(Member({"END"}), b1))
      <3>1. Typed(<<>>, Sh(h + 1, l + 1, s, 2), Sh(h + 1, l + 1, s, 2), {})
        BY TypedEmpty, <1>0, <1>01
      <3> QED
        BY <3>1, <1>1, OkWhen DEF unless
    <2>6. Ok(loop(-1), Sh(h + 1, l + 1, s, 2), Sh(h + 1, l, s, 2), {})
      BY OkLeaveLoop
    <2>7. Ok(make("loop", 1), Sh(h + 1, l, s, 2), Sh(h + 1, l, s, 2), {})
      BY OkMake, OtherKinds DEF Kept, Failed, Sound
    <2> QED
      BY <2>1, <2>2, <2>3, <2>4, <2>5, <2>6, <2>7, <1>0, <1>01, Block7 DEF b2
  <1> QED
    BY <1>2 DEF b1, b2, loop_statement

\* The production while_statement
LEMMA WhileStatementTyped ==
    ASSUME NEW h \in Nat, NEW l \in Int, NEW s \in Int
    PROVE  Typed(while_statement, Sh(h, l, s, 2), Sh(h + 1, l, s, 2), {})
  <1> DEFINE b1 == <<call("elsif_do")>>
             b2 == <<report>>
             b3 == <<call("statement_sequence"), list, take, while(Member({"ELSIF"}), b1),
                   unless(Member({"END"}), b2)>>
             b4 == <<statements, list>>
             b5 == <<take, loop(1), call("expression"), take, assert(Member({"DO"}), b3, b4),
                   needs(3), loop(-1), make("while", 3)>>
  <1> HIDE DEF b1, b2, b3, b4, b5
  <1>0. /\ Sh(h + 1, l + 1, s, 0) \in Shape
        /\ Sh(h + 1, l + 1, s, 2) \in Shape
        /\ Sh(h + 1, l, s, 2) \in Shape
        /\ Sh(h + 2, l + 1, s, 0) \in Shape
        /\ Sh(h + 2, l + 1, s, 2) \in Shape
        /\ Sh(h + 3, l + 1, s, 0) \in Shape
        /\ Sh(h + 3, l + 1, s, 2) \in Shape
        /\ Sh(h + 3, l, s, 2) \in Shape
        /\ Sh(h, l + 1, s, 2) \in Shape
        /\ Sh(h, l, s, 2) \in Shape
    BY ShapesAre
  <1>01. /\ Fits(Sh(h + 1, l, s, 2), Sh(h + 1, l, s, 2))
         /\ Fits(Sh(h + 3, l + 1, s, 0), Sh(h + 3, l + 1, s, 2))
         /\ Fits(Sh(h + 3, l + 1, s, 2), Sh(h + 3, l + 1, s, 2))
    BY ShFits
  <1>00. {Sh(h + 3, l + 1, s, 2)} \in SUBSET Shape
    BY <1>0
  <1>1. Typed(b1, Sh(h + 3, l + 1, s, 2), Sh(h + 3, l + 1, s, 2), {Sh(h + 3, l + 1, s, 2)})
    <2>1. Ok(call("elsif_do"), Sh(h + 3, l + 1, s, 2), Sh(h + 3, l + 1, s, 2), {Sh(h + 3,
         l + 1, s, 2)})
      BY OkAdds DEF Appenders
    <2> QED
      BY <2>1, <1>0, <1>00, <1>01, LoopBlock1 DEF b1
  <1>2. Typed(b2, Sh(h + 3, l + 1, s, 2), Sh(h + 3, l + 1, s, 2), {})
    <2>1. Ok(report, Sh(h + 3, l + 1, s, 2), Sh(h + 3, l + 1, s, 0), {})
      BY OkReport
    <2> QED
      BY <2>1, <1>0, <1>01, Block1 DEF b2
  <1>3. Typed(b3, Sh(h + 1, l + 1, s, 2), Sh(h + 3, l + 1, s, 2), {})
    <2>1. Ok(call("statement_sequence"), Sh(h + 1, l + 1, s, 2), Sh(h + 2, l + 1, s, 2), {})
      BY OkPushes DEF Pushers
    <2>2. Ok(list, Sh(h + 2, l + 1, s, 2), Sh(h + 3, l + 1, s, 2), {})
      BY OkPush, OtherKinds DEF list, Kept, Failed, Sound
    <2>3. Ok(take, Sh(h + 3, l + 1, s, 2), Sh(h + 3, l + 1, s, 2), {})
      BY OkStay
    <2>4. Ok(while(Member({"ELSIF"}), b1), Sh(h + 3, l + 1, s, 2), Sh(h + 3, l + 1, s, 2), {})
      BY <1>1, <1>0, OkWhile
    <2>5. Ok(unless(Member({"END"}), b2), Sh(h + 3, l + 1, s, 2), Sh(h + 3, l + 1, s, 2),
         {}) /\ ~IsLoop(unless(Member({"END"}), b2))
      <3>1. Typed(<<>>, Sh(h + 3, l + 1, s, 2), Sh(h + 3, l + 1, s, 2), {})
        BY TypedEmpty, <1>0, <1>01
      <3> QED
        BY <3>1, <1>2, OkWhen DEF unless
    <2> QED
      BY <2>1, <2>2, <2>3, <2>4, <2>5, <1>0, <1>01, Block5 DEF b3
  <1>4. Typed(b4, Sh(h + 1, l + 1, s, 0), Sh(h + 3, l + 1, s, 2), {})
    <2>1. Ok(statements, Sh(h + 1, l + 1, s, 0), Sh(h + 2, l + 1, s, 0), {})
      BY OkPush, OtherKinds DEF statements, Kept, Failed, Sound
    <2>2. Ok(list, Sh(h + 2, l + 1, s, 0), Sh(h + 3, l + 1, s, 0), {})
      BY OkPush, OtherKinds DEF list, Kept, Failed, Sound
    <2> QED
      BY <2>1, <2>2, <1>0, <1>01, Block2 DEF b4
  <1>5. Typed(b5, Sh(h, l, s, 2), Sh(h + 1, l, s, 2), {})
    <2>1. Ok(take, Sh(h, l, s, 2), Sh(h, l, s, 2), {})
      BY OkStay
    <2>2. Ok(loop(1), Sh(h, l, s, 2), Sh(h, l + 1, s, 2), {})
      BY OkEnterLoop
    <2>3. Ok(call("expression"), Sh(h, l + 1, s, 2), Sh(h + 1, l + 1, s, 2), {})
      BY OkPushes DEF Pushers
    <2>4. Ok(take, Sh(h + 1, l + 1, s, 2), Sh(h + 1, l + 1, s, 2), {})
      BY OkStay
    <2>5. Ok(assert(Member({"DO"}), b3, b4), Sh(h + 1, l + 1, s, 2), Sh(h + 3, l + 1, s, 2),
         {}) /\ ~IsLoop(assert(Member({"DO"}), b3, b4))
      BY <1>3, <1>4, FailSh, OkAssert
    <2>6. Ok(needs(3), Sh(h + 3, l + 1, s, 2), Sh(h + 3, l + 1, s, 2), {})
      BY OkNeeds
    <2>7. Ok(loop(-1), Sh(h + 3, l + 1, s, 2), Sh(h + 3, l, s, 2), {})
      BY OkLeaveLoop
    <2>8. Ok(make("while", 3), Sh(h + 3, l, s, 2), Sh(h + 1, l, s, 2), {})
      BY OkMake, OtherKinds DEF Kept, Failed, Sound
    <2> QED
      BY <2>1, <2>2, <2>3, <2>4, <2>5, <2>6, <2>7, <2>8, <1>0, <1>01, Block8 DEF b5
  <1> QED
    BY <1>5 DEF b1, b2, b3, b4, b5, while_statement

\* The production repeat_statement
LEMMA RepeatStatementTyped ==
    ASSUME NEW h \in Nat, NEW l \in Int, NEW s \in Int
    PROVE  Typed(repeat_statement, Sh(h, l, s, 2), Sh(h + 1, l, s, 2), {})
  <1> DEFINE b1 == <<call("expression")>>
             b2 == <<null>>
             b3 == <<take, loop(1), call("statement_sequence"), take,
                   assert(Member({"UNTIL"}), b1, b2), needs(1), loop(-1), make("repeat", 2)>>
  <1> HIDE DEF b1, b2, b3
  <1>0. /\ Sh(h + 1, l + 1, s, 0) \in Shape
        /\ Sh(h + 1, l + 1, s, 2) \in Shape
        /\ Sh(h + 1, l, s, 2) \in Shape
        /\ Sh(h + 2, l + 1, s, 0) \in Shape
        /\ Sh(h + 2, l + 1, s, 2) \in Shape
        /\ Sh(h + 2, l, s, 2) \in Shape
        /\ Sh(h, l + 1, s, 2) \in Shape
        /\ Sh(h, l, s, 2) \in Shape
    BY ShapesAre
  <1>01. /\ Fits(Sh(h + 1, l, s, 2), Sh(h + 1, l, s, 2))
         /\ Fits(Sh(h + 2, l + 1, s, 0), Sh(h + 2, l + 1, s, 2))
         /\ Fits(Sh(h + 2, l + 1, s, 2), Sh(h + 2, l + 1, s, 2))
    BY ShFits
  <1>1. Typed(b1, Sh(h + 1, l + 1, s, 2), Sh(h + 2, l + 1, s, 2), {})
    <2>1. Ok(call("expression"), Sh(h + 1, l + 1, s, 2), Sh(h + 2, l + 1, s, 2), {})
      BY OkPushes DEF Pushers
    <2> QED
      BY <2>1, <1>0, <1>01, Block1 DEF b1
  <1>2. Typed(b2, Sh(h + 1, l + 1, s, 0), Sh(h + 2, l + 1, s, 2), {})
    <2>1. Ok(null, Sh(h + 1, l + 1, s, 0), Sh(h + 2, l + 1, s, 0), {})
      BY OkNull
    <2> QED
      BY <2>1, <1>0, <1>01, Block1 DEF b2
  <1>3. Typed(b3, Sh(h, l, s, 2), Sh(h + 1, l, s, 2), {})
    <2>1. Ok(take, Sh(h, l, s, 2), Sh(h, l, s, 2), {})
      BY OkStay
    <2>2. Ok(loop(1), Sh(h, l, s, 2), Sh(h, l + 1, s, 2), {})
      BY OkEnterLoop
    <2>3. Ok(call("statement_sequence"), Sh(h, l + 1, s, 2), Sh(h + 1, l + 1, s, 2), {})
      BY OkPushes DEF Pushers
    <2>4. Ok(take, Sh(h + 1, l + 1, s, 2), Sh(h + 1, l + 1, s, 2), {})
      BY OkStay
    <2>5. Ok(assert(Member({"UNTIL"}), b1, b2), Sh(h + 1, l + 1, s, 2), Sh(h + 2, l + 1, s,
         2), {}) /\ ~IsLoop(assert(Member({"UNTIL"}), b1, b2))
      BY <1>1, <1>2, FailSh, OkAssert
    <2>6. Ok(needs(1), Sh(h + 2, l + 1, s, 2), Sh(h + 2, l + 1, s, 2), {})
      BY OkNeeds
    <2>7. Ok(loop(-1), Sh(h + 2, l + 1, s, 2), Sh(h + 2, l, s, 2), {})
      BY OkLeaveLoop
    <2>8. Ok(make("repeat", 2), Sh(h + 2, l, s, 2), Sh(h + 1, l, s, 2), {})
      BY OkMake, OtherKinds DEF Kept, Failed, Sound
    <2> QED
      BY <2>1, <2>2, <2>3, <2>4, <2>5, <2>6, <2>7, <2>8, <1>0, <1>01, Block8 DEF b3
  <1> QED
    BY <1>3 DEF b1, b2, b3, repeat_statement

\* The production for_statement
LEMMA ForStatementTyped ==
    ASSUME NEW h \in Nat, NEW l \in Int, NEW s \in Int
    PROVE  Typed(for_statement, Sh(h, l, s, 2), Sh(h + 1, l, s, 2), {})
  <1> DEFINE b1 == <<call("expression")>>
             b2 == <<null>>
             b3 == <<call("expression")>>
             b4 == <<null>>
             b5 == <<next, call("expression")>>
             b6 == <<push("none")>>
             b7 == <<call("statement_sequence")>>
             b8 == <<statements>>
             b9 == <<report>>
             b10 == <<take, loop(1), call("qualident"), take, assert(Member({":="}), b1,
                    b2), take, assert(Member({"TO"}), b3, b4), when(Peek({"BY"}), b5, b6), take,
                    assert(Member({"DO"}), b7, b8), take, unless(Member({"END"}), b9), loop(-1),
                    sema("for", 5)>>
  <1> HIDE DEF b1, b2, b3, b4, b5, b6, b7, b8, b9, b10
  <1>0. /\ Sh(h + 1, l + 1, s, 0) \in Shape
        /\ Sh(h + 1, l + 1, s, 2) \in Shape
        /\ Sh(h + 1, l, s, 2) \in Shape
        /\ Sh(h + 2, l + 1, s, 0) \in Shape
        /\ Sh(h + 2, l + 1, s, 2) \in Shape
        /\ Sh(h + 3, l + 1, s, 0) \in Shape
        /\ Sh(h + 3, l + 1, s, 2) \in Shape
        /\ Sh(h + 4, l + 1, s, 0) \in Shape
        /\ Sh(h + 4, l + 1, s, 2) \in Shape
        /\ Sh(h + 5, l + 1, s, 0) \in Shape
        /\ Sh(h + 5, l + 1, s, 2) \in Shape
        /\ Sh(h + 5, l, s, 2) \in Shape
        /\ Sh(h, l + 1, s, 2) \in Shape
        /\ Sh(h, l, s, 2) \in Shape
    BY ShapesAre
  <1>01. /\ Fits(Sh(h + 1, l, s, 2), Sh(h + 1, l, s, 2))
         /\ Fits(Sh(h + 2, l + 1, s, 0), Sh(h + 2, l + 1, s, 2))
         /\ Fits(Sh(h + 2, l + 1, s, 2), Sh(h + 2, l + 1, s, 2))
         /\ Fits(Sh(h + 3, l + 1, s, 0), Sh(h + 3, l + 1, s, 2))
         /\ Fits(Sh(h + 3, l + 1, s, 2), Sh(h + 3, l + 1, s, 2))
         /\ Fits(Sh(h + 4, l + 1, s, 2), Sh(h + 4, l + 1, s, 2))
         /\ Fits(Sh(h + 5, l + 1, s, 0), Sh(h + 5, l + 1, s, 2))
         /\ Fits(Sh(h + 5, l + 1, s, 2), Sh(h + 5, l + 1, s, 2))
    BY ShFits
  <1>1. Typed(b1, Sh(h + 1, l + 1, s, 2), Sh(h + 2, l + 1, s, 2), {})
    <2>1. Ok(call("expression"), Sh(h + 1, l + 1, s, 2), Sh(h + 2, l + 1, s, 2), {})
      BY OkPushes DEF Pushers
    <2> QED
      BY <2>1, <1>0, <1>01, Block1 DEF b1
  <1>2. Typed(b2, Sh(h + 1, l + 1, s, 0), Sh(h + 2, l + 1, s, 2), {})
    <2>1. Ok(null, Sh(h + 1, l + 1, s, 0), Sh(h + 2, l + 1, s, 0), {})
      BY OkNull
    <2> QED
      BY <2>1, <1>0, <1>01, Block1 DEF b2
  <1>3. Typed(b3, Sh(h + 2, l + 1, s, 2), Sh(h + 3, l + 1, s, 2), {})
    <2>1. Ok(call("expression"), Sh(h + 2, l + 1, s, 2), Sh(h + 3, l + 1, s, 2), {})
      BY OkPushes DEF Pushers
    <2> QED
      BY <2>1, <1>0, <1>01, Block1 DEF b3
  <1>4. Typed(b4, Sh(h + 2, l + 1, s, 0), Sh(h + 3, l + 1, s, 2), {})
    <2>1. Ok(null, Sh(h + 2, l + 1, s, 0), Sh(h + 3, l + 1, s, 0), {})
      BY OkNull
    <2> QED
      BY <2>1, <1>0, <1>01, Block1 DEF b4
  <1>5. Typed(b5, Sh(h + 3, l + 1, s, 2), Sh(h + 4, l + 1, s, 2), {})
    <2>1. Ok(next, Sh(h + 3, l + 1, s, 2), Sh(h + 3, l + 1, s, 2), {})
      BY OkStay
    <2>2. Ok(call("expression"), Sh(h + 3, l + 1, s, 2), Sh(h + 4, l + 1, s, 2), {})
      BY OkPushes DEF Pushers
    <2> QED
      BY <2>1, <2>2, <1>0, <1>01, Block2 DEF b5
  <1>6. Typed(b6, Sh(h + 3, l + 1, s, 2), Sh(h + 4, l + 1, s, 2), {})
    <2>1. Ok(push("none"), Sh(h + 3, l + 1, s, 2), Sh(h + 4, l + 1, s, 2), {})
      BY OkPush, OtherKinds DEF Kept, Failed, Sound
    <2> QED
      BY <2>1, <1>0, <1>01, Block1 DEF b6
  <1>7. Typed(b7, Sh(h + 4, l + 1, s, 2), Sh(h + 5, l + 1, s, 2), {})
    <2>1. Ok(call("statement_sequence"), Sh(h + 4, l + 1, s, 2), Sh(h + 5, l + 1, s, 2), {})
      BY OkPushes DEF Pushers
    <2> QED
      BY <2>1, <1>0, <1>01, Block1 DEF b7
  <1>8. Typed(b8, Sh(h + 4, l + 1, s, 0), Sh(h + 5, l + 1, s, 2), {})
    <2>1. Ok(statements, Sh(h + 4, l + 1, s, 0), Sh(h + 5, l + 1, s, 0), {})
      BY OkPush, OtherKinds DEF statements, Kept, Failed, Sound
    <2> QED
      BY <2>1, <1>0, <1>01, Block1 DEF b8
  <1>9. Typed(b9, Sh(h + 5, l + 1, s, 2), Sh(h + 5, l + 1, s, 2), {})
    <2>1. Ok(report, Sh(h + 5, l + 1, s, 2), Sh(h + 5, l + 1, s, 0), {})
      BY OkReport
    <2> QED
      BY <2>1, <1>0, <1>01, Block1 DEF b9
  <1>10. Typed(b10, Sh(h, l, s, 2), Sh(h + 1, l, s, 2), {})
    <2>1. Ok(take, Sh(h, l, s, 2), Sh(h, l, s, 2), {})
      BY OkStay
    <2>2. Ok(loop(1), Sh(h, l, s, 2), Sh(h, l + 1, s, 2), {})
      BY OkEnterLoop
    <2>3. Ok(call("qualident"), Sh(h, l + 1, s, 2), Sh(h + 1, l + 1, s, 2), {})
      BY OkPushes DEF Pushers
    <2>4. Ok(take, Sh(h + 1, l + 1, s, 2), Sh(h + 1, l + 1, s, 2), {})
      BY OkStay
    <2>5. Ok(assert(Member({":="}), b1, b2), Sh(h + 1, l + 1, s, 2), Sh(h + 2, l + 1, s, 2),
         {}) /\ ~IsLoop(assert(Member({":="}), b1, b2))
      BY <1>1, <1>2, FailSh, OkAssert
    <2>6. Ok(take, Sh(h + 2, l + 1, s, 2), Sh(h + 2, l + 1, s, 2), {})
      BY OkStay
    <2>7. Ok(assert(Member({"TO"}), b3, b4), Sh(h + 2, l + 1, s, 2), Sh(h + 3, l + 1, s, 2),
         {}) /\ ~IsLoop(assert(Member({"TO"}), b3, b4))
      BY <1>3, <1>4, FailSh, OkAssert
    <2>8. Ok(when(Peek({"BY"}), b5, b6), Sh(h + 3, l + 1, s, 2), Sh(h + 4, l + 1, s, 2),
         {}) /\ ~IsLoop(when(Peek({"BY"}), b5, b6))
      BY <1>5, <1>6, OkWhen
    <2>9. Ok(take, Sh(h + 4, l + 1, s, 2), Sh(h + 4, l + 1, s, 2), {})
      BY OkStay
    <2>10. Ok(assert(Member({"DO"}), b7, b8), Sh(h + 4, l + 1, s, 2), Sh(h + 5, l + 1, s, 2),
         {}) /\ ~IsLoop(assert(Member({"DO"}), b7, b8))
      BY <1>7, <1>8, FailSh, OkAssert
    <2>11. Ok(take, Sh(h + 5, l + 1, s, 2), Sh(h + 5, l + 1, s, 2), {})
      BY OkStay
    <2>12. Ok(unless(Member({"END"}), b9), Sh(h + 5, l + 1, s, 2), Sh(h + 5, l + 1, s, 2),
         {}) /\ ~IsLoop(unless(Member({"END"}), b9))
      <3>1. Typed(<<>>, Sh(h + 5, l + 1, s, 2), Sh(h + 5, l + 1, s, 2), {})
        BY TypedEmpty, <1>0, <1>01
      <3> QED
        BY <3>1, <1>9, OkWhen DEF unless
    <2>13. Ok(loop(-1), Sh(h + 5, l + 1, s, 2), Sh(h + 5, l, s, 2), {})
      BY OkLeaveLoop
    <2>14. Ok(sema("for", 5), Sh(h + 5, l, s, 2), Sh(h + 1, l, s, 2), {})
      BY OkSema DEF SemaKinds, LookingInto, Kept, Failed, Sound
    <2> QED
      BY <2>1, <2>2, <2>3, <2>4, <2>5, <2>6, <2>7, <2>8, <2>9, <2>10, <2>11, <2>12, <2>13,
         <2>14, <1>0, <1>01, Block14 DEF b10
  <1> QED
    BY <1>10 DEF b1, b2, b3, b4, b5, b6, b7, b8, b9, b10, for_statement

\* The production case_statement
LEMMA CaseStatementTyped ==
    ASSUME NEW h \in Nat, NEW l \in Int, NEW s \in Int
    PROVE  Typed(case_statement, Sh(h, l, s, 2), Sh(h + 1, l, s, 2), {})
  <1> DEFINE b1 == <<report>>
             b2 == <<take>>
             b3 == <<next>>
             b4 == <<break>>
             b5 == <<when(Peek({"|"}), b2, <<>>), call("range_expression_list"),
                   assert(Peek({":"}), b3, <<>>), sema("labels", 1), call("statement_sequence"),
                   make("arm", 2), append, unless(Peek({"|"}), b4)>>
             b6 == <<forever(b5)>>
             b7 == <<next, call("statement_sequence")>>
             b8 == <<statements>>
             b9 == <<next>>
             b10 == <<next, when(Peek({"ELSE", "END"}), b1, b6), when(Peek({"ELSE"}), b7,
                    b8), assert(Peek({"END"}), b9, <<>>)>>
             b11 == <<statements>>
             b12 == <<take, call("expression"), needs(1), list, assert(Peek({"OF"}), b10,
                    b11), sema("case", 3)>>
  <1> HIDE DEF b1, b2, b3, b4, b5, b6, b7, b8, b9, b10, b11, b12
  <1>0. /\ Sh(h + 1, l, s, 2) \in Shape
        /\ Sh(h + 2, l, s, 0) \in Shape
        /\ Sh(h + 2, l, s, 2) \in Shape
        /\ Sh(h + 3, l, s, 0) \in Shape
        /\ Sh(h + 3, l, s, 2) \in Shape
        /\ Sh(h + 4, l, s, 2) \in Shape
        /\ Sh(h, l, s, 2) \in Shape
    BY ShapesAre
  <1>01. /\ Fits(Sh(h + 1, l, s, 2), Sh(h + 1, l, s, 2))
         /\ Fits(Sh(h + 2, l, s, 0), Sh(h + 2, l, s, 2))
         /\ Fits(Sh(h + 2, l, s, 2), Sh(h + 2, l, s, 2))
         /\ Fits(Sh(h + 3, l, s, 0), Sh(h + 3, l, s, 2))
         /\ Fits(Sh(h + 3, l, s, 2), Sh(h + 3, l, s, 2))
    BY ShFits
  <1>00. {Sh(h + 2, l, s, 2)} \in SUBSET Shape
    BY <1>0
  <1>1. Typed(b1, Sh(h + 2, l, s, 2), Sh(h + 2, l, s, 2), {})
    <2>1. Ok(report, Sh(h + 2, l, s, 2), Sh(h + 2, l, s, 0), {})
      BY OkReport
    <2> QED
      BY <2>1, <1>0, <1>01, Block1 DEF b1
  <1>2. Typed(b2, Sh(h + 2, l, s, 2), Sh(h + 2, l, s, 2), {Sh(h + 2, l, s, 2)})
    <2>1. Ok(take, Sh(h + 2, l, s, 2), Sh(h + 2, l, s, 2), {Sh(h + 2, l, s, 2)})
      BY OkStay
    <2> QED
      BY <2>1, <1>0, <1>00, <1>01, LoopBlock1 DEF b2
  <1>3. Typed(b3, Sh(h + 3, l, s, 2), Sh(h + 3, l, s, 2), {Sh(h + 2, l, s, 2)})
    <2>1. Ok(next, Sh(h + 3, l, s, 2), Sh(h + 3, l, s, 2), {Sh(h + 2, l, s, 2)})
      BY OkStay
    <2> QED
      BY <2>1, <1>0, <1>00, <1>01, LoopBlock1 DEF b3
  <1>4. Typed(b4, Sh(h + 2, l, s, 2), Sh(h + 2, l, s, 2), {Sh(h + 2, l, s, 2)})
    <2>1. Ok(break, Sh(h + 2, l, s, 2), Sh(h + 2, l, s, 2), {Sh(h + 2, l, s, 2)})
      BY OkBreak, <1>01
    <2> QED
      BY <2>1, <1>0, <1>00, <1>01, LoopBlock1 DEF b4
  <1>5. Typed(b5, Sh(h + 2, l, s, 2), Sh(h + 2, l, s, 2), {Sh(h + 2, l, s, 2)})
    <2>1. Ok(when(Peek({"|"}), b2, <<>>), Sh(h + 2, l, s, 2), Sh(h + 2, l, s, 2), {Sh(h + 2,
         l, s, 2)}) /\ ~IsLoop(when(Peek({"|"}), b2, <<>>))
      <3>1. Typed(<<>>, Sh(h + 2, l, s, 2), Sh(h + 2, l, s, 2), {Sh(h + 2, l, s, 2)})
        BY TypedEmpty, <1>0, <1>01
      <3> QED
        BY <1>2, <3>1, OkWhen
    <2>2. Ok(call("range_expression_list"), Sh(h + 2, l, s, 2), Sh(h + 3, l, s, 2), {Sh(h + 2,
         l, s, 2)})
      BY OkPushes DEF Pushers
    <2>3. Ok(assert(Peek({":"}), b3, <<>>), Sh(h + 3, l, s, 2), Sh(h + 3, l, s, 2), {Sh(h + 2,
         l, s, 2)}) /\ ~IsLoop(assert(Peek({":"}), b3, <<>>))
      <3>1. Typed(<<>>, Sh(h + 3, l, s, 0), Sh(h + 3, l, s, 2), {Sh(h + 2, l, s, 2)})
        BY TypedEmpty, <1>0, <1>01
      <3> QED
        BY <1>3, <3>1, FailSh, OkAssert
    <2>4. Ok(sema("labels", 1), Sh(h + 3, l, s, 2), Sh(h + 3, l, s, 2), {Sh(h + 2, l, s, 2)})
      BY OkSema DEF SemaKinds, LookingInto, Kept, Failed, Sound
    <2>5. Ok(call("statement_sequence"), Sh(h + 3, l, s, 2), Sh(h + 4, l, s, 2), {Sh(h + 2, l,
         s, 2)})
      BY OkPushes DEF Pushers
    <2>6. Ok(make("arm", 2), Sh(h + 4, l, s, 2), Sh(h + 3, l, s, 2), {Sh(h + 2, l, s, 2)})
      BY OkMake, OtherKinds DEF Kept, Failed, Sound
    <2>7. Ok(append, Sh(h + 3, l, s, 2), Sh(h + 2, l, s, 2), {Sh(h + 2, l, s, 2)})
      BY OkAppend DEF Kept, Failed, Sound
    <2>8. Ok(unless(Peek({"|"}), b4), Sh(h + 2, l, s, 2), Sh(h + 2, l, s, 2), {Sh(h + 2, l, s,
         2)}) /\ ~IsLoop(unless(Peek({"|"}), b4))
      <3>1. Typed(<<>>, Sh(h + 2, l, s, 2), Sh(h + 2, l, s, 2), {Sh(h + 2, l, s, 2)})
        BY TypedEmpty, <1>0, <1>01
      <3> QED
        BY <3>1, <1>4, OkWhen DEF unless
    <2> QED
      BY <2>1, <2>2, <2>3, <2>4, <2>5, <2>6, <2>7, <2>8, <1>0, <1>00, <1>01, NotLoops,
         LoopBlock8 DEF b5
  <1>6. Typed(b6, Sh(h + 2, l, s, 2), Sh(h + 2, l, s, 2), {})
    <2>1. Ok(forever(b5), Sh(h + 2, l, s, 2), Sh(h + 2, l, s, 2), {})
      BY <1>5, <1>0, OkForever
    <2> QED
      BY <2>1, <1>0, <1>01, Block1 DEF b6
  <1>7. Typed(b7, Sh(h + 2, l, s, 2), Sh(h + 3, l, s, 2), {})
    <2>1. Ok(next, Sh(h + 2, l, s, 2), Sh(h + 2, l, s, 2), {})
      BY OkStay
    <2>2. Ok(call("statement_sequence"), Sh(h + 2, l, s, 2), Sh(h + 3, l, s, 2), {})
      BY OkPushes DEF Pushers
    <2> QED
      BY <2>1, <2>2, <1>0, <1>01, Block2 DEF b7
  <1>8. Typed(b8, Sh(h + 2, l, s, 2), Sh(h + 3, l, s, 2), {})
    <2>1. Ok(statements, Sh(h + 2, l, s, 2), Sh(h + 3, l, s, 2), {})
      BY OkPush, OtherKinds DEF statements, Kept, Failed, Sound
    <2> QED
      BY <2>1, <1>0, <1>01, Block1 DEF b8
  <1>9. Typed(b9, Sh(h + 3, l, s, 2), Sh(h + 3, l, s, 2), {})
    <2>1. Ok(next, Sh(h + 3, l, s, 2), Sh(h + 3, l, s, 2), {})
      BY OkStay
    <2> QED
      BY <2>1, <1>0, <1>01, Block1 DEF b9
  <1>10. Typed(b10, Sh(h + 2, l, s, 2), Sh(h + 3, l, s, 2), {})
    <2>1. Ok(next, Sh(h + 2, l, s, 2), Sh(h + 2, l, s, 2), {})
      BY OkStay
    <2>2. Ok(when(Peek({"ELSE", "END"}), b1, b6), Sh(h + 2, l, s, 2), Sh(h + 2, l, s, 2),
         {}) /\ ~IsLoop(when(Peek({"ELSE", "END"}), b1, b6))
      BY <1>1, <1>6, OkWhen
    <2>3. Ok(when(Peek({"ELSE"}), b7, b8), Sh(h + 2, l, s, 2), Sh(h + 3, l, s, 2),
         {}) /\ ~IsLoop(when(Peek({"ELSE"}), b7, b8))
      BY <1>7, <1>8, OkWhen
    <2>4. Ok(assert(Peek({"END"}), b9, <<>>), Sh(h + 3, l, s, 2), Sh(h + 3, l, s, 2),
         {}) /\ ~IsLoop(assert(Peek({"END"}), b9, <<>>))
      <3>1. Typed(<<>>, Sh(h + 3, l, s, 0), Sh(h + 3, l, s, 2), {})
        BY TypedEmpty, <1>0, <1>01
      <3> QED
        BY <1>9, <3>1, FailSh, OkAssert
    <2> QED
      BY <2>1, <2>2, <2>3, <2>4, <1>0, <1>01, Block4 DEF b10
  <1>11. Typed(b11, Sh(h + 2, l, s, 0), Sh(h + 3, l, s, 2), {})
    <2>1. Ok(statements, Sh(h + 2, l, s, 0), Sh(h + 3, l, s, 0), {})
      BY OkPush, OtherKinds DEF statements, Kept, Failed, Sound
    <2> QED
      BY <2>1, <1>0, <1>01, Block1 DEF b11
  <1>12. Typed(b12, Sh(h, l, s, 2), Sh(h + 1, l, s, 2), {})
    <2>1. Ok(take, Sh(h, l, s, 2), Sh(h, l, s, 2), {})
      BY OkStay
    <2>2. Ok(call("expression"), Sh(h, l, s, 2), Sh(h + 1, l, s, 2), {})
      BY OkPushes DEF Pushers
    <2>3. Ok(needs(1), Sh(h + 1, l, s, 2), Sh(h + 1, l, s, 2), {})
      BY OkNeeds
    <2>4. Ok(list, Sh(h + 1, l, s, 2), Sh(h + 2, l, s, 2), {})
      BY OkPush, OtherKinds DEF list, Kept, Failed, Sound
    <2>5. Ok(assert(Peek({"OF"}), b10, b11), Sh(h + 2, l, s, 2), Sh(h + 3, l, s, 2),
         {}) /\ ~IsLoop(assert(Peek({"OF"}), b10, b11))
      BY <1>10, <1>11, FailSh, OkAssert
    <2>6. Ok(sema("case", 3), Sh(h + 3, l, s, 2), Sh(h + 1, l, s, 2), {})
      BY OkSema DEF SemaKinds, LookingInto, Kept, Failed, Sound
    <2> QED
      BY <2>1, <2>2, <2>3, <2>4, <2>5, <2>6, <1>0, <1>01, Block6 DEF b12
  <1> QED
    BY <1>12 DEF b1, b2, b3, b4, b5, b6, b7, b8, b9, b10, b11, b12, case_statement

\* The production elsif_clause
LEMMA ElsifClauseTyped ==
    ASSUME NEW keyword, NEW h \in Nat, NEW l \in Int, NEW s \in Int
    PROVE  Typed(elsif_clause(keyword), Sh(h + 1, l, s, 2), Sh(h + 1, l, s, 2), {})
  <1> DEFINE b1 == <<call("statement_sequence"), needs(2), make("elsif", 2), append>>
             b2 == <<drop(1)>>
             b3 == <<call("expression"), take, assert(Member({keyword}), b1, b2), take>>
  <1> HIDE DEF b1, b2, b3
  <1>0. /\ Sh(h + 1, l, s, 0) \in Shape
        /\ Sh(h + 1, l, s, 2) \in Shape
        /\ Sh(h + 2, l, s, 0) \in Shape
        /\ Sh(h + 2, l, s, 2) \in Shape
        /\ Sh(h + 3, l, s, 2) \in Shape
    BY ShapesAre
  <1>01. /\ Fits(Sh(h + 1, l, s, 0), Sh(h + 1, l, s, 2))
         /\ Fits(Sh(h + 1, l, s, 2), Sh(h + 1, l, s, 2))
    BY ShFits
  <1>1. Typed(b1, Sh(h + 2, l, s, 2), Sh(h + 1, l, s, 2), {})
    <2>1. Ok(call("statement_sequence"), Sh(h + 2, l, s, 2), Sh(h + 3, l, s, 2), {})
      BY OkPushes DEF Pushers
    <2>2. Ok(needs(2), Sh(h + 3, l, s, 2), Sh(h + 3, l, s, 2), {})
      BY OkNeeds
    <2>3. Ok(make("elsif", 2), Sh(h + 3, l, s, 2), Sh(h + 2, l, s, 2), {})
      BY OkMake, OtherKinds DEF Kept, Failed, Sound
    <2>4. Ok(append, Sh(h + 2, l, s, 2), Sh(h + 1, l, s, 2), {})
      BY OkAppend DEF Kept, Failed, Sound
    <2> QED
      BY <2>1, <2>2, <2>3, <2>4, <1>0, <1>01, Block4 DEF b1
  <1>2. Typed(b2, Sh(h + 2, l, s, 0), Sh(h + 1, l, s, 2), {})
    <2>1. Ok(drop(1), Sh(h + 2, l, s, 0), Sh(h + 1, l, s, 0), {})
      BY OkDrop DEF Kept, Failed, Sound
    <2> QED
      BY <2>1, <1>0, <1>01, Block1 DEF b2
  <1>3. Typed(b3, Sh(h + 1, l, s, 2), Sh(h + 1, l, s, 2), {})
    <2>1. Ok(call("expression"), Sh(h + 1, l, s, 2), Sh(h + 2, l, s, 2), {})
      BY OkPushes DEF Pushers
    <2>2. Ok(take, Sh(h + 2, l, s, 2), Sh(h + 2, l, s, 2), {})
      BY OkStay
    <2>3. Ok(assert(Member({keyword}), b1, b2), Sh(h + 2, l, s, 2), Sh(h + 1, l, s, 2),
         {}) /\ ~IsLoop(assert(Member({keyword}), b1, b2))
      BY <1>1, <1>2, FailSh, OkAssert
    <2>4. Ok(take, Sh(h + 1, l, s, 2), Sh(h + 1, l, s, 2), {})
      BY OkStay
    <2> QED
      BY <2>1, <2>2, <2>3, <2>4, <1>0, <1>01, Block4 DEF b3
  <1> QED
    BY <1>3 DEF b1, b2, b3, elsif_clause

\* The production expression_list
LEMMA ExpressionListTyped ==
    ASSUME NEW h \in Nat, NEW l \in Int, NEW s \in Int
    PROVE  Typed(expression_list, Sh(h, l, s, 2), Sh(h + 1, l, s, 2), {})
  <1> DEFINE b1 == <<take, call("expression"), append>>
             b2 == <<list, call("expression"), append, while(Peek({","}), b1)>>
  <1> HIDE DEF b1, b2
  <1>0. /\ Sh(h + 1, l, s, 2) \in Shape
        /\ Sh(h + 2, l, s, 2) \in Shape
        /\ Sh(h, l, s, 2) \in Shape
    BY ShapesAre
  <1>01. Fits(Sh(h + 1, l, s, 2), Sh(h + 1, l, s, 2))
    BY ShFits
  <1>00. {Sh(h + 1, l, s, 2)} \in SUBSET Shape
    BY <1>0
  <1>1. Typed(b1, Sh(h + 1, l, s, 2), Sh(h + 1, l, s, 2), {Sh(h + 1, l, s, 2)})
    <2>1. Ok(take, Sh(h + 1, l, s, 2), Sh(h + 1, l, s, 2), {Sh(h + 1, l, s, 2)})
      BY OkStay
    <2>2. Ok(call("expression"), Sh(h + 1, l, s, 2), Sh(h + 2, l, s, 2), {Sh(h + 1, l, s, 2)})
      BY OkPushes DEF Pushers
    <2>3. Ok(append, Sh(h + 2, l, s, 2), Sh(h + 1, l, s, 2), {Sh(h + 1, l, s, 2)})
      BY OkAppend DEF Kept, Failed, Sound
    <2> QED
      BY <2>1, <2>2, <2>3, <1>0, <1>00, <1>01, NotLoops, LoopBlock3 DEF b1
  <1>2. Typed(b2, Sh(h, l, s, 2), Sh(h + 1, l, s, 2), {})
    <2>1. Ok(list, Sh(h, l, s, 2), Sh(h + 1, l, s, 2), {})
      BY OkPush, OtherKinds DEF list, Kept, Failed, Sound
    <2>2. Ok(call("expression"), Sh(h + 1, l, s, 2), Sh(h + 2, l, s, 2), {})
      BY OkPushes DEF Pushers
    <2>3. Ok(append, Sh(h + 2, l, s, 2), Sh(h + 1, l, s, 2), {})
      BY OkAppend DEF Kept, Failed, Sound
    <2>4. Ok(while(Peek({","}), b1), Sh(h + 1, l, s, 2), Sh(h + 1, l, s, 2), {})
      BY <1>1, <1>0, OkWhile
    <2> QED
      BY <2>1, <2>2, <2>3, <2>4, <1>0, <1>01, Block4 DEF b2
  <1> QED
    BY <1>2 DEF b1, b2, expression_list

\* The production expression
LEMMA ExpressionTyped ==
    ASSUME NEW h \in Nat, NEW l \in Int, NEW s \in Int
    PROVE  Typed(expression, Sh(h, l, s, 2), Sh(h + 1, l, s, 2), {})
  <1> DEFINE e1 == {"END", "ELSE", "TO", "THEN", "UNTIL", "ELSIF", "BY", "DO", "OF", ")",
                   "]", ",", ";"}
             b1 == <<take, leaf, call("simple_expression"), deref(3), sema("binary", 3)>>
             b2 == <<resync(e1)>>
             b3 == <<call("simple_expression"), when(Peek({"=", "#", "<", "<=", ">", ">=",
                   "IN", "IS"}), b1, <<>>), when(IsNull, b2, <<>>)>>
  <1> HIDE DEF e1, b1, b2, b3
  <1>0. /\ Sh(h + 1, l, s, 2) \in Shape
        /\ Sh(h + 2, l, s, 2) \in Shape
        /\ Sh(h + 3, l, s, 2) \in Shape
        /\ Sh(h, l, s, 2) \in Shape
    BY ShapesAre
  <1>01. Fits(Sh(h + 1, l, s, 2), Sh(h + 1, l, s, 2))
    BY ShFits
  <1>1. Typed(b1, Sh(h + 1, l, s, 2), Sh(h + 1, l, s, 2), {})
    <2>1. Ok(take, Sh(h + 1, l, s, 2), Sh(h + 1, l, s, 2), {})
      BY OkStay
    <2>2. Ok(leaf, Sh(h + 1, l, s, 2), Sh(h + 2, l, s, 2), {})
      BY OkLeaf DEF Kept, Failed, Sound
    <2>3. Ok(call("simple_expression"), Sh(h + 2, l, s, 2), Sh(h + 3, l, s, 2), {})
      BY OkPushes DEF Pushers
    <2>4. Ok(deref(3), Sh(h + 3, l, s, 2), Sh(h + 3, l, s, 2), {})
      BY OkDeref
    <2>5. Ok(sema("binary", 3), Sh(h + 3, l, s, 2), Sh(h + 1, l, s, 2), {})
      BY OkSema DEF SemaKinds, LookingInto, Kept, Failed, Sound
    <2> QED
      BY <2>1, <2>2, <2>3, <2>4, <2>5, <1>0, <1>01, Block5 DEF b1
  <1>2. Typed(b2, Sh(h + 1, l, s, 2), Sh(h + 1, l, s, 2), {})
    <2>1. Ok(resync(e1), Sh(h + 1, l, s, 2), Sh(h + 1, l, s, 2), {})
      BY OkStay
    <2> QED
      BY <2>1, <1>0, <1>01, Block1 DEF b2
  <1>3. Typed(b3, Sh(h, l, s, 2), Sh(h + 1, l, s, 2), {})
    <2>1. Ok(call("simple_expression"), Sh(h, l, s, 2), Sh(h + 1, l, s, 2), {})
      BY OkPushes DEF Pushers
    <2>2. Ok(when(Peek({"=", "#", "<", "<=", ">", ">=", "IN", "IS"}), b1, <<>>), Sh(h + 1, l,
         s, 2), Sh(h + 1, l, s, 2), {}) /\ ~IsLoop(when(Peek({"=", "#", "<", "<=", ">", ">=", "IN",
         "IS"}), b1, <<>>))
      <3>1. Typed(<<>>, Sh(h + 1, l, s, 2), Sh(h + 1, l, s, 2), {})
        BY TypedEmpty, <1>0, <1>01
      <3> QED
        BY <1>1, <3>1, OkWhen
    <2>3. Ok(when(IsNull, b2, <<>>), Sh(h + 1, l, s, 2), Sh(h + 1, l, s, 2),
         {}) /\ ~IsLoop(when(IsNull, b2, <<>>))
      <3>1. Typed(<<>>, Sh(h + 1, l, s, 2), Sh(h + 1, l, s, 2), {})
        BY TypedEmpty, <1>0, <1>01
      <3> QED
        BY <1>2, <3>1, OkWhen
    <2> QED
      BY <2>1, <2>2, <2>3, <1>0, <1>01, Block3 DEF b3
  <1> QED
    BY <1>3 DEF e1, b1, b2, b3, expression

\* The production simple_expression
LEMMA SimpleExpressionTyped ==
    ASSUME NEW h \in Nat, NEW l \in Int, NEW s \in Int
    PROVE  Typed(simple_expression, Sh(h, l, s, 2), Sh(h + 1, l, s, 2), {})
  <1> DEFINE b1 == <<take, call("term")>>
             b2 == <<take, call("term"), sema("negation", 1)>>
             b3 == <<call("term")>>
             b4 == <<when(Peek({"-"}), b2, b3)>>
             b5 == <<take, leaf, call("term"), sema("binary", 3)>>
             b6 == <<when(Peek({"+"}), b1, b4), while(Peek({"+", "-", "OR"}), b5)>>
  <1> HIDE DEF b1, b2, b3, b4, b5, b6
  <1>0. /\ Sh(h + 1, l, s, 2) \in Shape
        /\ Sh(h + 2, l, s, 2) \in Shape
        /\ Sh(h + 3, l, s, 2) \in Shape
        /\ Sh(h, l, s, 2) \in Shape
    BY ShapesAre
  <1>01. Fits(Sh(h + 1, l, s, 2), Sh(h + 1, l, s, 2))
    BY ShFits
  <1>00. {Sh(h + 1, l, s, 2)} \in SUBSET Shape
    BY <1>0
  <1>1. Typed(b1, Sh(h, l, s, 2), Sh(h + 1, l, s, 2), {})
    <2>1. Ok(take, Sh(h, l, s, 2), Sh(h, l, s, 2), {})
      BY OkStay
    <2>2. Ok(call("term"), Sh(h, l, s, 2), Sh(h + 1, l, s, 2), {})
      BY OkPushes DEF Pushers
    <2> QED
      BY <2>1, <2>2, <1>0, <1>01, Block2 DEF b1
  <1>2. Typed(b2, Sh(h, l, s, 2), Sh(h + 1, l, s, 2), {})
    <2>1. Ok(take, Sh(h, l, s, 2), Sh(h, l, s, 2), {})
      BY OkStay
    <2>2. Ok(call("term"), Sh(h, l, s, 2), Sh(h + 1, l, s, 2), {})
      BY OkPushes DEF Pushers
    <2>3. Ok(sema("negation", 1), Sh(h + 1, l, s, 2), Sh(h + 1, l, s, 2), {})
      BY OkSema DEF SemaKinds, LookingInto, Kept, Failed, Sound
    <2> QED
      BY <2>1, <2>2, <2>3, <1>0, <1>01, Block3 DEF b2
  <1>3. Typed(b3, Sh(h, l, s, 2), Sh(h + 1, l, s, 2), {})
    <2>1. Ok(call("term"), Sh(h, l, s, 2), Sh(h + 1, l, s, 2), {})
      BY OkPushes DEF Pushers
    <2> QED
      BY <2>1, <1>0, <1>01, Block1 DEF b3
  <1>4. Typed(b4, Sh(h, l, s, 2), Sh(h + 1, l, s, 2), {})
    <2>1. Ok(when(Peek({"-"}), b2, b3), Sh(h, l, s, 2), Sh(h + 1, l, s, 2),
         {}) /\ ~IsLoop(when(Peek({"-"}), b2, b3))
      BY <1>2, <1>3, OkWhen
    <2> QED
      BY <2>1, <1>0, <1>01, Block1 DEF b4
  <1>5. Typed(b5, Sh(h + 1, l, s, 2), Sh(h + 1, l, s, 2), {Sh(h + 1, l, s, 2)})
    <2>1. Ok(take, Sh(h + 1, l, s, 2), Sh(h + 1, l, s, 2), {Sh(h + 1, l, s, 2)})
      BY OkStay
    <2>2. Ok(leaf, Sh(h + 1, l, s, 2), Sh(h + 2, l, s, 2), {Sh(h + 1, l, s, 2)})
      BY OkLeaf DEF Kept, Failed, Sound
    <2>3. Ok(call("term"), Sh(h + 2, l, s, 2), Sh(h + 3, l, s, 2), {Sh(h + 1, l, s, 2)})
      BY OkPushes DEF Pushers
    <2>4. Ok(sema("binary", 3), Sh(h + 3, l, s, 2), Sh(h + 1, l, s, 2), {Sh(h + 1, l, s, 2)})
      BY OkSema DEF SemaKinds, LookingInto, Kept, Failed, Sound
    <2> QED
      BY <2>1, <2>2, <2>3, <2>4, <1>0, <1>00, <1>01, NotLoops, LoopBlock4 DEF b5
  <1>6. Typed(b6, Sh(h, l, s, 2), Sh(h + 1, l, s, 2), {})
    <2>1. Ok(when(Peek({"+"}), b1, b4), Sh(h, l, s, 2), Sh(h + 1, l, s, 2),
         {}) /\ ~IsLoop(when(Peek({"+"}), b1, b4))
      BY <1>1, <1>4, OkWhen
    <2>2. Ok(while(Peek({"+", "-", "OR"}), b5), Sh(h + 1, l, s, 2), Sh(h + 1, l, s, 2), {})
      BY <1>5, <1>0, OkWhile
    <2> QED
      BY <2>1, <2>2, <1>0, <1>01, Block2 DEF b6
  <1> QED
    BY <1>6 DEF b1, b2, b3, b4, b5, b6, simple_expression

\* The production term
LEMMA TermTyped ==
    ASSUME NEW h \in Nat, NEW l \in Int, NEW s \in Int
    PROVE  Typed(term, Sh(h, l, s, 2), Sh(h + 1, l, s, 2), {})
  <1> DEFINE b1 == <<take, leaf, call("factor"), sema("binary", 3)>>
             b2 == <<call("factor"), while(Peek({"*", "/", "DIV", "MOD", "&"}), b1)>>
  <1> HIDE DEF b1, b2
  <1>0. /\ Sh(h + 1, l, s, 2) \in Shape
        /\ Sh(h + 2, l, s, 2) \in Shape
        /\ Sh(h + 3, l, s, 2) \in Shape
        /\ Sh(h, l, s, 2) \in Shape
    BY ShapesAre
  <1>01. Fits(Sh(h + 1, l, s, 2), Sh(h + 1, l, s, 2))
    BY ShFits
  <1>00. {Sh(h + 1, l, s, 2)} \in SUBSET Shape
    BY <1>0
  <1>1. Typed(b1, Sh(h + 1, l, s, 2), Sh(h + 1, l, s, 2), {Sh(h + 1, l, s, 2)})
    <2>1. Ok(take, Sh(h + 1, l, s, 2), Sh(h + 1, l, s, 2), {Sh(h + 1, l, s, 2)})
      BY OkStay
    <2>2. Ok(leaf, Sh(h + 1, l, s, 2), Sh(h + 2, l, s, 2), {Sh(h + 1, l, s, 2)})
      BY OkLeaf DEF Kept, Failed, Sound
    <2>3. Ok(call("factor"), Sh(h + 2, l, s, 2), Sh(h + 3, l, s, 2), {Sh(h + 1, l, s, 2)})
      BY OkPushes DEF Pushers
    <2>4. Ok(sema("binary", 3), Sh(h + 3, l, s, 2), Sh(h + 1, l, s, 2), {Sh(h + 1, l, s, 2)})
      BY OkSema DEF SemaKinds, LookingInto, Kept, Failed, Sound
    <2> QED
      BY <2>1, <2>2, <2>3, <2>4, <1>0, <1>00, <1>01, NotLoops, LoopBlock4 DEF b1
  <1>2. Typed(b2, Sh(h, l, s, 2), Sh(h + 1, l, s, 2), {})
    <2>1. Ok(call("factor"), Sh(h, l, s, 2), Sh(h + 1, l, s, 2), {})
      BY OkPushes DEF Pushers
    <2>2. Ok(while(Peek({"*", "/", "DIV", "MOD", "&"}), b1), Sh(h + 1, l, s, 2), Sh(h + 1, l,
         s, 2), {})
      BY <1>1, <1>0, OkWhile
    <2> QED
      BY <2>1, <2>2, <1>0, <1>01, Block2 DEF b2
  <1> QED
    BY <1>2 DEF b1, b2, term

\* The production factor
LEMMA FactorTyped ==
    ASSUME NEW h \in Nat, NEW l \in Int, NEW s \in Int
    PROVE  Typed(factor, Sh(h, l, s, 2), Sh(h + 1, l, s, 2), {})
  <1> DEFINE b1 == <<next, call("basic_factor")>>
             b2 == <<next, call("basic_factor"), sema("negation", 1)>>
             b3 == <<next, call("basic_factor"), sema("not", 1)>>
             b4 == <<call("basic_factor")>>
             b5 == <<when(Peek({"~"}), b3, b4)>>
             b6 == <<when(Peek({"-"}), b2, b5)>>
             b7 == <<when(Peek({"+"}), b1, b6)>>
  <1> HIDE DEF b1, b2, b3, b4, b5, b6, b7
  <1>0. /\ Sh(h + 1, l, s, 2) \in Shape
        /\ Sh(h, l, s, 2) \in Shape
    BY ShapesAre
  <1>01. Fits(Sh(h + 1, l, s, 2), Sh(h + 1, l, s, 2))
    BY ShFits
  <1>1. Typed(b1, Sh(h, l, s, 2), Sh(h + 1, l, s, 2), {})
    <2>1. Ok(next, Sh(h, l, s, 2), Sh(h, l, s, 2), {})
      BY OkStay
    <2>2. Ok(call("basic_factor"), Sh(h, l, s, 2), Sh(h + 1, l, s, 2), {})
      BY OkPushes DEF Pushers
    <2> QED
      BY <2>1, <2>2, <1>0, <1>01, Block2 DEF b1
  <1>2. Typed(b2, Sh(h, l, s, 2), Sh(h + 1, l, s, 2), {})
    <2>1. Ok(next, Sh(h, l, s, 2), Sh(h, l, s, 2), {})
      BY OkStay
    <2>2. Ok(call("basic_factor"), Sh(h, l, s, 2), Sh(h + 1, l, s, 2), {})
      BY OkPushes DEF Pushers
    <2>3. Ok(sema("negation", 1), Sh(h + 1, l, s, 2), Sh(h + 1, l, s, 2), {})
      BY OkSema DEF SemaKinds, LookingInto, Kept, Failed, Sound
    <2> QED
      BY <2>1, <2>2, <2>3, <1>0, <1>01, Block3 DEF b2
  <1>3. Typed(b3, Sh(h, l, s, 2), Sh(h + 1, l, s, 2), {})
    <2>1. Ok(next, Sh(h, l, s, 2), Sh(h, l, s, 2), {})
      BY OkStay
    <2>2. Ok(call("basic_factor"), Sh(h, l, s, 2), Sh(h + 1, l, s, 2), {})
      BY OkPushes DEF Pushers
    <2>3. Ok(sema("not", 1), Sh(h + 1, l, s, 2), Sh(h + 1, l, s, 2), {})
      BY OkSema DEF SemaKinds, LookingInto, Kept, Failed, Sound
    <2> QED
      BY <2>1, <2>2, <2>3, <1>0, <1>01, Block3 DEF b3
  <1>4. Typed(b4, Sh(h, l, s, 2), Sh(h + 1, l, s, 2), {})
    <2>1. Ok(call("basic_factor"), Sh(h, l, s, 2), Sh(h + 1, l, s, 2), {})
      BY OkPushes DEF Pushers
    <2> QED
      BY <2>1, <1>0, <1>01, Block1 DEF b4
  <1>5. Typed(b5, Sh(h, l, s, 2), Sh(h + 1, l, s, 2), {})
    <2>1. Ok(when(Peek({"~"}), b3, b4), Sh(h, l, s, 2), Sh(h + 1, l, s, 2),
         {}) /\ ~IsLoop(when(Peek({"~"}), b3, b4))
      BY <1>3, <1>4, OkWhen
    <2> QED
      BY <2>1, <1>0, <1>01, Block1 DEF b5
  <1>6. Typed(b6, Sh(h, l, s, 2), Sh(h + 1, l, s, 2), {})
    <2>1. Ok(when(Peek({"-"}), b2, b5), Sh(h, l, s, 2), Sh(h + 1, l, s, 2),
         {}) /\ ~IsLoop(when(Peek({"-"}), b2, b5))
      BY <1>2, <1>5, OkWhen
    <2> QED
      BY <2>1, <1>0, <1>01, Block1 DEF b6
  <1>7. Typed(b7, Sh(h, l, s, 2), Sh(h + 1, l, s, 2), {})
    <2>1. Ok(when(Peek({"+"}), b1, b6), Sh(h, l, s, 2), Sh(h + 1, l, s, 2),
         {}) /\ ~IsLoop(when(Peek({"+"}), b1, b6))
      BY <1>1, <1>6, OkWhen
    <2> QED
      BY <2>1, <1>0, <1>01, Block1 DEF b7
  <1> QED
    BY <1>7 DEF b1, b2, b3, b4, b5, b6, b7, factor

\* The production basic_factor
LEMMA BasicFactorTyped ==
    ASSUME NEW h \in Nat, NEW l \in Int, NEW s \in Int
    PROVE  Typed(basic_factor, Sh(h, l, s, 2), Sh(h + 1, l, s, 2), {})
  <1> DEFINE b1 == <<call("designator"), sema("qualified", 1)>>
             b2 == <<call("set")>>
             b3 == <<take>>
             b4 == <<next, call("expression"), assert(Peek({")"}), b3, <<>>)>>
             b5 == <<leaf>>
             b6 == <<report, null>>
             b7 == <<take, when(Member(Literals), b5, b6)>>
             b8 == <<when(Peek({"("}), b4, b7)>>
             b9 == <<when(Peek({"{"}), b2, b8)>>
             b10 == <<when(Peek(Idents), b1, b9)>>
  <1> HIDE DEF b1, b2, b3, b4, b5, b6, b7, b8, b9, b10
  <1>0. /\ Sh(h + 1, l, s, 0) \in Shape
        /\ Sh(h + 1, l, s, 1) \in Shape
        /\ Sh(h + 1, l, s, 2) \in Shape
        /\ Sh(h, l, s, 0) \in Shape
        /\ Sh(h, l, s, 2) \in Shape
    BY ShapesAre
  <1>01. /\ Fits(Sh(h + 1, l, s, 0), Sh(h + 1, l, s, 2))
         /\ Fits(Sh(h + 1, l, s, 2), Sh(h + 1, l, s, 2))
    BY ShFits
  <1>1. Typed(b1, Sh(h, l, s, 2), Sh(h + 1, l, s, 2), {})
    <2>1. Ok(call("designator"), Sh(h, l, s, 2), Sh(h + 1, l, s, 1), {})
      BY OkDesignator
    <2>2. Ok(sema("qualified", 1), Sh(h + 1, l, s, 1), Sh(h + 1, l, s, 2), {})
      BY OkDesignated DEF Kept, Failed, Sound
    <2> QED
      BY <2>1, <2>2, <1>0, <1>01, Block2 DEF b1
  <1>2. Typed(b2, Sh(h, l, s, 2), Sh(h + 1, l, s, 2), {})
    <2>1. Ok(call("set"), Sh(h, l, s, 2), Sh(h + 1, l, s, 2), {})
      BY OkPushes DEF Pushers
    <2> QED
      BY <2>1, <1>0, <1>01, Block1 DEF b2
  <1>3. Typed(b3, Sh(h + 1, l, s, 2), Sh(h + 1, l, s, 2), {})
    <2>1. Ok(take, Sh(h + 1, l, s, 2), Sh(h + 1, l, s, 2), {})
      BY OkStay
    <2> QED
      BY <2>1, <1>0, <1>01, Block1 DEF b3
  <1>4. Typed(b4, Sh(h, l, s, 2), Sh(h + 1, l, s, 2), {})
    <2>1. Ok(next, Sh(h, l, s, 2), Sh(h, l, s, 2), {})
      BY OkStay
    <2>2. Ok(call("expression"), Sh(h, l, s, 2), Sh(h + 1, l, s, 2), {})
      BY OkPushes DEF Pushers
    <2>3. Ok(assert(Peek({")"}), b3, <<>>), Sh(h + 1, l, s, 2), Sh(h + 1, l, s, 2),
         {}) /\ ~IsLoop(assert(Peek({")"}), b3, <<>>))
      <3>1. Typed(<<>>, Sh(h + 1, l, s, 0), Sh(h + 1, l, s, 2), {})
        BY TypedEmpty, <1>0, <1>01
      <3> QED
        BY <1>3, <3>1, FailSh, OkAssert
    <2> QED
      BY <2>1, <2>2, <2>3, <1>0, <1>01, Block3 DEF b4
  <1>5. Typed(b5, Sh(h, l, s, 2), Sh(h + 1, l, s, 2), {})
    <2>1. Ok(leaf, Sh(h, l, s, 2), Sh(h + 1, l, s, 2), {})
      BY OkLeaf DEF Kept, Failed, Sound
    <2> QED
      BY <2>1, <1>0, <1>01, Block1 DEF b5
  <1>6. Typed(b6, Sh(h, l, s, 2), Sh(h + 1, l, s, 2), {})
    <2>1. Ok(report, Sh(h, l, s, 2), Sh(h, l, s, 0), {})
      BY OkReport
    <2>2. Ok(null, Sh(h, l, s, 0), Sh(h + 1, l, s, 0), {})
      BY OkNull
    <2> QED
      BY <2>1, <2>2, <1>0, <1>01, Block2 DEF b6
  <1>7. Typed(b7, Sh(h, l, s, 2), Sh(h + 1, l, s, 2), {})
    <2>1. Ok(take, Sh(h, l, s, 2), Sh(h, l, s, 2), {})
      BY OkStay
    <2>2. Ok(when(Member(Literals), b5, b6), Sh(h, l, s, 2), Sh(h + 1, l, s, 2),
         {}) /\ ~IsLoop(when(Member(Literals), b5, b6))
      BY <1>5, <1>6, OkWhen
    <2> QED
      BY <2>1, <2>2, <1>0, <1>01, Block2 DEF b7
  <1>8. Typed(b8, Sh(h, l, s, 2), Sh(h + 1, l, s, 2), {})
    <2>1. Ok(when(Peek({"("}), b4, b7), Sh(h, l, s, 2), Sh(h + 1, l, s, 2),
         {}) /\ ~IsLoop(when(Peek({"("}), b4, b7))
      BY <1>4, <1>7, OkWhen
    <2> QED
      BY <2>1, <1>0, <1>01, Block1 DEF b8
  <1>9. Typed(b9, Sh(h, l, s, 2), Sh(h + 1, l, s, 2), {})
    <2>1. Ok(when(Peek({"{"}), b2, b8), Sh(h, l, s, 2), Sh(h + 1, l, s, 2),
         {}) /\ ~IsLoop(when(Peek({"{"}), b2, b8))
      BY <1>2, <1>8, OkWhen
    <2> QED
      BY <2>1, <1>0, <1>01, Block1 DEF b9
  <1>10. Typed(b10, Sh(h, l, s, 2), Sh(h + 1, l, s, 2), {})
    <2>1. Ok(when(Peek(Idents), b1, b9), Sh(h, l, s, 2), Sh(h + 1, l, s, 2),
         {}) /\ ~IsLoop(when(Peek(Idents), b1, b9))
      BY <1>1, <1>9, OkWhen
    <2> QED
      BY <2>1, <1>0, <1>01, Block1 DEF b10
  <1> QED
    BY <1>10 DEF b1, b2, b3, b4, b5, b6, b7, b8, b9, b10, basic_factor

\* The production designator
LEMMA DesignatorTyped ==
    ASSUME NEW h \in Nat, NEW l \in Int, NEW s \in Int
    PROVE  Typed(designator, Sh(h, l, s, 2), Sh(h + 1, l, s, 1), {})
  <1> DEFINE b1 == <<call("selector"), append>>
             b2 == <<call("qualident"), list, while(Peek({".", "[", "^", "("}), b1),
                   make("designator", 2)>>
  <1> HIDE DEF b1, b2
  <1>0. /\ Sh(h + 1, l, s, 1) \in Shape
        /\ Sh(h + 1, l, s, 2) \in Shape
        /\ Sh(h + 2, l, s, 2) \in Shape
        /\ Sh(h + 3, l, s, 2) \in Shape
        /\ Sh(h, l, s, 2) \in Shape
    BY ShapesAre
  <1>01. /\ Fits(Sh(h + 1, l, s, 1), Sh(h + 1, l, s, 1))
         /\ Fits(Sh(h + 2, l, s, 2), Sh(h + 2, l, s, 2))
    BY ShFits
  <1>00. {Sh(h + 2, l, s, 2)} \in SUBSET Shape
    BY <1>0
  <1>1. Typed(b1, Sh(h + 2, l, s, 2), Sh(h + 2, l, s, 2), {Sh(h + 2, l, s, 2)})
    <2>1. Ok(call("selector"), Sh(h + 2, l, s, 2), Sh(h + 3, l, s, 2), {Sh(h + 2, l, s, 2)})
      BY OkPushes DEF Pushers
    <2>2. Ok(append, Sh(h + 3, l, s, 2), Sh(h + 2, l, s, 2), {Sh(h + 2, l, s, 2)})
      BY OkAppend DEF Kept, Failed, Sound
    <2> QED
      BY <2>1, <2>2, <1>0, <1>00, <1>01, NotLoops, LoopBlock2 DEF b1
  <1>2. Typed(b2, Sh(h, l, s, 2), Sh(h + 1, l, s, 1), {})
    <2>1. Ok(call("qualident"), Sh(h, l, s, 2), Sh(h + 1, l, s, 2), {})
      BY OkPushes DEF Pushers
    <2>2. Ok(list, Sh(h + 1, l, s, 2), Sh(h + 2, l, s, 2), {})
      BY OkPush, OtherKinds DEF list, Kept, Failed, Sound
    <2>3. Ok(while(Peek({".", "[", "^", "("}), b1), Sh(h + 2, l, s, 2), Sh(h + 2, l, s, 2), {})
      BY <1>1, <1>0, OkWhile
    <2>4. Ok(make("designator", 2), Sh(h + 2, l, s, 2), Sh(h + 1, l, s, 1), {})
      BY OkMakeDesignator
    <2> QED
      BY <2>1, <2>2, <2>3, <2>4, <1>0, <1>01, Block4 DEF b2
  <1> QED
    BY <1>2 DEF b1, b2, designator

\* The production selector
LEMMA SelectorTyped ==
    ASSUME NEW h \in Nat, NEW l \in Int, NEW s \in Int
    PROVE  Typed(selector, Sh(h, l, s, 2), Sh(h + 1, l, s, 2), {})
  <1> DEFINE b1 == <<take, call("ident"), make("field", 1)>>
             b2 == <<report>>
             b3 == <<take, call("expression_list"), take, unless(Member({"]"}), b2),
                   make("index", 1)>>
             b4 == <<take, make("dereference", 0)>>
             b5 == <<list>>
             b6 == <<call("expression_list")>>
             b7 == <<take, when(Peek({")"}), b5, b6), take, assert(Member({")"}), <<>>,
                   <<>>), make("parameters", 1)>>
             b8 == <<when(Peek({"^"}), b4, b7)>>
             b9 == <<when(Peek({"["}), b3, b8)>>
             b10 == <<when(Peek({"."}), b1, b9)>>
  <1> HIDE DEF b1, b2, b3, b4, b5, b6, b7, b8, b9, b10
  <1>0. /\ Sh(h + 1, l, s, 0) \in Shape
        /\ Sh(h + 1, l, s, 2) \in Shape
        /\ Sh(h, l, s, 2) \in Shape
    BY ShapesAre
  <1>01. /\ Fits(Sh(h + 1, l, s, 0), Sh(h + 1, l, s, 2))
         /\ Fits(Sh(h + 1, l, s, 2), Sh(h + 1, l, s, 2))
    BY ShFits
  <1>1. Typed(b1, Sh(h, l, s, 2), Sh(h + 1, l, s, 2), {})
    <2>1. Ok(take, Sh(h, l, s, 2), Sh(h, l, s, 2), {})
      BY OkStay
    <2>2. Ok(call("ident"), Sh(h, l, s, 2), Sh(h + 1, l, s, 2), {})
      BY OkPushes DEF Pushers
    <2>3. Ok(make("field", 1), Sh(h + 1, l, s, 2), Sh(h + 1, l, s, 2), {})
      BY OkMake, OtherKinds DEF Kept, Failed, Sound
    <2> QED
      BY <2>1, <2>2, <2>3, <1>0, <1>01, Block3 DEF b1
  <1>2. Typed(b2, Sh(h + 1, l, s, 2), Sh(h + 1, l, s, 2), {})
    <2>1. Ok(report, Sh(h + 1, l, s, 2), Sh(h + 1, l, s, 0), {})
      BY OkReport
    <2> QED
      BY <2>1, <1>0, <1>01, Block1 DEF b2
  <1>3. Typed(b3, Sh(h, l, s, 2), Sh(h + 1, l, s, 2), {})
    <2>1. Ok(take, Sh(h, l, s, 2), Sh(h, l, s, 2), {})
      BY OkStay
    <2>2. Ok(call("expression_list"), Sh(h, l, s, 2), Sh(h + 1, l, s, 2), {})
      BY OkPushes DEF Pushers
    <2>3. Ok(take, Sh(h + 1, l, s, 2), Sh(h + 1, l, s, 2), {})
      BY OkStay
    <2>4. Ok(unless(Member({"]"}), b2), Sh(h + 1, l, s, 2), Sh(h + 1, l, s, 2),
         {}) /\ ~IsLoop(unless(Member({"]"}), b2))
      <3>1. Typed(<<>>, Sh(h + 1, l, s, 2), Sh(h + 1, l, s, 2), {})
        BY TypedEmpty, <1>0, <1>01
      <3> QED
        BY <3>1, <1>2, OkWhen DEF unless
    <2>5. Ok(make("index", 1), Sh(h + 1, l, s, 2), Sh(h + 1, l, s, 2), {})
      BY OkMakeOne DEF Kept, Failed, Sound
    <2> QED
      BY <2>1, <2>2, <2>3, <2>4, <2>5, <1>0, <1>01, Block5 DEF b3
  <1>4. Typed(b4, Sh(h, l, s, 2), Sh(h + 1, l, s, 2), {})
    <2>1. Ok(take, Sh(h, l, s, 2), Sh(h, l, s, 2), {})
      BY OkStay
    <2>2. Ok(make("dereference", 0), Sh(h, l, s, 2), Sh(h + 1, l, s, 2), {})
      BY OkMake, OtherKinds DEF Kept, Failed, Sound
    <2> QED
      BY <2>1, <2>2, <1>0, <1>01, Block2 DEF b4
  <1>5. Typed(b5, Sh(h, l, s, 2), Sh(h + 1, l, s, 2), {})
    <2>1. Ok(list, Sh(h, l, s, 2), Sh(h + 1, l, s, 2), {})
      BY OkPush, OtherKinds DEF list, Kept, Failed, Sound
    <2> QED
      BY <2>1, <1>0, <1>01, Block1 DEF b5
  <1>6. Typed(b6, Sh(h, l, s, 2), Sh(h + 1, l, s, 2), {})
    <2>1. Ok(call("expression_list"), Sh(h, l, s, 2), Sh(h + 1, l, s, 2), {})
      BY OkPushes DEF Pushers
    <2> QED
      BY <2>1, <1>0, <1>01, Block1 DEF b6
  <1>7. Typed(b7, Sh(h, l, s, 2), Sh(h + 1, l, s, 2), {})
    <2>1. Ok(take, Sh(h, l, s, 2), Sh(h, l, s, 2), {})
      BY OkStay
    <2>2. Ok(when(Peek({")"}), b5, b6), Sh(h, l, s, 2), Sh(h + 1, l, s, 2),
         {}) /\ ~IsLoop(when(Peek({")"}), b5, b6))
      BY <1>5, <1>6, OkWhen
    <2>3. Ok(take, Sh(h + 1, l, s, 2), Sh(h + 1, l, s, 2), {})
      BY OkStay
    <2>4. Ok(assert(Member({")"}), <<>>, <<>>), Sh(h + 1, l, s, 2), Sh(h + 1, l, s, 2),
         {}) /\ ~IsLoop(assert(Member({")"}), <<>>, <<>>))
      <3>1. Typed(<<>>, Sh(h + 1, l, s, 2), Sh(h + 1, l, s, 2), {})
        BY TypedEmpty, <1>0, <1>01
      <3>2. Typed(<<>>, Sh(h + 1, l, s, 0), Sh(h + 1, l, s, 2), {})
        BY TypedEmpty, <1>0, <1>01
      <3> QED
        BY <3>1, <3>2, FailSh, OkAssert
    <2>5. Ok(make("parameters", 1), Sh(h + 1, l, s, 2), Sh(h + 1, l, s, 2), {})
      BY OkMakeOne DEF Kept, Failed, Sound
    <2> QED
      BY <2>1, <2>2, <2>3, <2>4, <2>5, <1>0, <1>01, Block5 DEF b7
  <1>8. Typed(b8, Sh(h, l, s, 2), Sh(h + 1, l, s, 2), {})
    <2>1. Ok(when(Peek({"^"}), b4, b7), Sh(h, l, s, 2), Sh(h + 1, l, s, 2),
         {}) /\ ~IsLoop(when(Peek({"^"}), b4, b7))
      BY <1>4, <1>7, OkWhen
    <2> QED
      BY <2>1, <1>0, <1>01, Block1 DEF b8
  <1>9. Typed(b9, Sh(h, l, s, 2), Sh(h + 1, l, s, 2), {})
    <2>1. Ok(when(Peek({"["}), b3, b8), Sh(h, l, s, 2), Sh(h + 1, l, s, 2),
         {}) /\ ~IsLoop(when(Peek({"["}), b3, b8))
      BY <1>3, <1>8, OkWhen
    <2> QED
      BY <2>1, <1>0, <1>01, Block1 DEF b9
  <1>10. Typed(b10, Sh(h, l, s, 2), Sh(h + 1, l, s, 2), {})
    <2>1. Ok(when(Peek({"."}), b1, b9), Sh(h, l, s, 2), Sh(h + 1, l, s, 2),
         {}) /\ ~IsLoop(when(Peek({"."}), b1, b9))
      BY <1>1, <1>9, OkWhen
    <2> QED
      BY <2>1, <1>0, <1>01, Block1 DEF b10
  <1> QED
    BY <1>10 DEF b1, b2, b3, b4, b5, b6, b7, b8, b9, b10, selector

\* The production set
LEMMA SetTyped ==
    ASSUME NEW h \in Nat, NEW l \in Int, NEW s \in Int
    PROVE  Typed(set, Sh(h, l, s, 2), Sh(h + 1, l, s, 2), {})
  <1> DEFINE b1 == <<take, list>>
             b2 == <<take>>
             b3 == <<call("range_expression_list"), assert(Peek({"}"}), b2, <<>>)>>
             b4 == <<next, when(Peek({"}"}), b1, b3), sema("set", 1)>>
  <1> HIDE DEF b1, b2, b3, b4
  <1>0. /\ Sh(h + 1, l, s, 0) \in Shape
        /\ Sh(h + 1, l, s, 2) \in Shape
        /\ Sh(h, l, s, 2) \in Shape
    BY ShapesAre
  <1>01. /\ Fits(Sh(h + 1, l, s, 0), Sh(h + 1, l, s, 2))
         /\ Fits(Sh(h + 1, l, s, 2), Sh(h + 1, l, s, 2))
    BY ShFits
  <1>1. Typed(b1, Sh(h, l, s, 2), Sh(h + 1, l, s, 2), {})
    <2>1. Ok(take, Sh(h, l, s, 2), Sh(h, l, s, 2), {})
      BY OkStay
    <2>2. Ok(list, Sh(h, l, s, 2), Sh(h + 1, l, s, 2), {})
      BY OkPush, OtherKinds DEF list, Kept, Failed, Sound
    <2> QED
      BY <2>1, <2>2, <1>0, <1>01, Block2 DEF b1
  <1>2. Typed(b2, Sh(h + 1, l, s, 2), Sh(h + 1, l, s, 2), {})
    <2>1. Ok(take, Sh(h + 1, l, s, 2), Sh(h + 1, l, s, 2), {})
      BY OkStay
    <2> QED
      BY <2>1, <1>0, <1>01, Block1 DEF b2
  <1>3. Typed(b3, Sh(h, l, s, 2), Sh(h + 1, l, s, 2), {})
    <2>1. Ok(call("range_expression_list"), Sh(h, l, s, 2), Sh(h + 1, l, s, 2), {})
      BY OkPushes DEF Pushers
    <2>2. Ok(assert(Peek({"}"}), b2, <<>>), Sh(h + 1, l, s, 2), Sh(h + 1, l, s, 2),
         {}) /\ ~IsLoop(assert(Peek({"}"}), b2, <<>>))
      <3>1. Typed(<<>>, Sh(h + 1, l, s, 0), Sh(h + 1, l, s, 2), {})
        BY TypedEmpty, <1>0, <1>01
      <3> QED
        BY <1>2, <3>1, FailSh, OkAssert
    <2> QED
      BY <2>1, <2>2, <1>0, <1>01, Block2 DEF b3
  <1>4. Typed(b4, Sh(h, l, s, 2), Sh(h + 1, l, s, 2), {})
    <2>1. Ok(next, Sh(h, l, s, 2), Sh(h, l, s, 2), {})
      BY OkStay
    <2>2. Ok(when(Peek({"}"}), b1, b3), Sh(h, l, s, 2), Sh(h + 1, l, s, 2),
         {}) /\ ~IsLoop(when(Peek({"}"}), b1, b3))
      BY <1>1, <1>3, OkWhen
    <2>3. Ok(sema("set", 1), Sh(h + 1, l, s, 2), Sh(h + 1, l, s, 2), {})
      BY OkSema DEF SemaKinds, LookingInto, Kept, Failed, Sound
    <2> QED
      BY <2>1, <2>2, <2>3, <1>0, <1>01, Block3 DEF b4
  <1> QED
    BY <1>4 DEF b1, b2, b3, b4, set

\* The production range_expression
LEMMA RangeExpressionTyped ==
    ASSUME NEW h \in Nat, NEW l \in Int, NEW s \in Int
    PROVE  Typed(range_expression, Sh(h, l, s, 2), Sh(h + 1, l, s, 2), {})
  <1> DEFINE b1 == <<next, deref(1), call("expression"), sema("range", 2)>>
             b2 == <<call("expression"), when(Peek({".."}), b1, <<>>)>>
  <1> HIDE DEF b1, b2
  <1>0. /\ Sh(h + 1, l, s, 2) \in Shape
        /\ Sh(h + 2, l, s, 2) \in Shape
        /\ Sh(h, l, s, 2) \in Shape
    BY ShapesAre
  <1>01. Fits(Sh(h + 1, l, s, 2), Sh(h + 1, l, s, 2))
    BY ShFits
  <1>1. Typed(b1, Sh(h + 1, l, s, 2), Sh(h + 1, l, s, 2), {})
    <2>1. Ok(next, Sh(h + 1, l, s, 2), Sh(h + 1, l, s, 2), {})
      BY OkStay
    <2>2. Ok(deref(1), Sh(h + 1, l, s, 2), Sh(h + 1, l, s, 2), {})
      BY OkDeref
    <2>3. Ok(call("expression"), Sh(h + 1, l, s, 2), Sh(h + 2, l, s, 2), {})
      BY OkPushes DEF Pushers
    <2>4. Ok(sema("range", 2), Sh(h + 2, l, s, 2), Sh(h + 1, l, s, 2), {})
      BY OkSema DEF SemaKinds, LookingInto, Kept, Failed, Sound
    <2> QED
      BY <2>1, <2>2, <2>3, <2>4, <1>0, <1>01, Block4 DEF b1
  <1>2. Typed(b2, Sh(h, l, s, 2), Sh(h + 1, l, s, 2), {})
    <2>1. Ok(call("expression"), Sh(h, l, s, 2), Sh(h + 1, l, s, 2), {})
      BY OkPushes DEF Pushers
    <2>2. Ok(when(Peek({".."}), b1, <<>>), Sh(h + 1, l, s, 2), Sh(h + 1, l, s, 2),
         {}) /\ ~IsLoop(when(Peek({".."}), b1, <<>>))
      <3>1. Typed(<<>>, Sh(h + 1, l, s, 2), Sh(h + 1, l, s, 2), {})
        BY TypedEmpty, <1>0, <1>01
      <3> QED
        BY <1>1, <3>1, OkWhen
    <2> QED
      BY <2>1, <2>2, <1>0, <1>01, Block2 DEF b2
  <1> QED
    BY <1>2 DEF b1, b2, range_expression

\* The production range_expression_list
LEMMA RangeExpressionListTyped ==
    ASSUME NEW h \in Nat, NEW l \in Int, NEW s \in Int
    PROVE  Typed(range_expression_list, Sh(h, l, s, 2), Sh(h + 1, l, s, 2), {})
  <1> DEFINE b1 == <<take, call("range_expression"), append>>
             b2 == <<list, call("range_expression"), append, while(Peek({","}), b1)>>
  <1> HIDE DEF b1, b2
  <1>0. /\ Sh(h + 1, l, s, 2) \in Shape
        /\ Sh(h + 2, l, s, 2) \in Shape
        /\ Sh(h, l, s, 2) \in Shape
    BY ShapesAre
  <1>01. Fits(Sh(h + 1, l, s, 2), Sh(h + 1, l, s, 2))
    BY ShFits
  <1>00. {Sh(h + 1, l, s, 2)} \in SUBSET Shape
    BY <1>0
  <1>1. Typed(b1, Sh(h + 1, l, s, 2), Sh(h + 1, l, s, 2), {Sh(h + 1, l, s, 2)})
    <2>1. Ok(take, Sh(h + 1, l, s, 2), Sh(h + 1, l, s, 2), {Sh(h + 1, l, s, 2)})
      BY OkStay
    <2>2. Ok(call("range_expression"), Sh(h + 1, l, s, 2), Sh(h + 2, l, s, 2), {Sh(h + 1, l,
         s, 2)})
      BY OkPushes DEF Pushers
    <2>3. Ok(append, Sh(h + 2, l, s, 2), Sh(h + 1, l, s, 2), {Sh(h + 1, l, s, 2)})
      BY OkAppend DEF Kept, Failed, Sound
    <2> QED
      BY <2>1, <2>2, <2>3, <1>0, <1>00, <1>01, NotLoops, LoopBlock3 DEF b1
  <1>2. Typed(b2, Sh(h, l, s, 2), Sh(h + 1, l, s, 2), {})
    <2>1. Ok(list, Sh(h, l, s, 2), Sh(h + 1, l, s, 2), {})
      BY OkPush, OtherKinds DEF list, Kept, Failed, Sound
    <2>2. Ok(call("range_expression"), Sh(h + 1, l, s, 2), Sh(h + 2, l, s, 2), {})
      BY OkPushes DEF Pushers
    <2>3. Ok(append, Sh(h + 2, l, s, 2), Sh(h + 1, l, s, 2), {})
      BY OkAppend DEF Kept, Failed, Sound
    <2>4. Ok(while(Peek({","}), b1), Sh(h + 1, l, s, 2), Sh(h + 1, l, s, 2), {})
      BY <1>1, <1>0, OkWhile
    <2> QED
      BY <2>1, <2>2, <2>3, <2>4, <1>0, <1>01, Block4 DEF b2
  <1> QED
    BY <1>2 DEF b1, b2, range_expression_list

-----------------------------------------------------------------------------
(* The productions, by their names                                         *)

\* Each name has its production.
LEMMA ProductionIs ==
    /\ Production["ident"] = ident
    /\ Production["qualident"] = qualident
    /\ Production["identdef"] = identdef
    /\ Production["ident_list"] = ident_list
    /\ Production["module"] = module
    /\ Production["import_list"] = import_list
    /\ Production["import"] = import
    /\ Production["declarations"] = declarations
    /\ Production["const_declarations"] = const_declarations
    /\ Production["type_declarations"] = type_declarations
    /\ Production["var_declarations"] = var_declarations
    /\ Production["type"] = type
    /\ Production["array_type"] = array_type
    /\ Production["record_type"] = record_type
    /\ Production["field_list"] = field_list
    /\ Production["pointer_type"] = pointer_type
    /\ Production["procedure_type"] = procedure_type
    /\ Production["formal_parameters"] = formal_parameters
    /\ Production["fp_section"] = fp_section
    /\ Production["formal_type"] = formal_type
    /\ Production["procedure"] = procedure
    /\ Production["procedure_declaration"] = procedure_declaration
    /\ Production["procedure_definition"] = procedure_definition
    /\ Production["procedure_body"] = procedure_body
    /\ Production["statement_sequence"] = statement_sequence
    /\ Production["statement"] = statement
    /\ Production["assignment"] = assignment
    /\ Production["if_statement"] = if_statement
    /\ Production["loop_statement"] = loop_statement
    /\ Production["while_statement"] = while_statement
    /\ Production["repeat_statement"] = repeat_statement
    /\ Production["for_statement"] = for_statement
    /\ Production["case_statement"] = case_statement
    /\ Production["expression_list"] = expression_list
    /\ Production["expression"] = expression
    /\ Production["simple_expression"] = simple_expression
    /\ Production["term"] = term
    /\ Production["factor"] = factor
    /\ Production["basic_factor"] = basic_factor
    /\ Production["designator"] = designator
    /\ Production["selector"] = selector
    /\ Production["set"] = set
    /\ Production["range_expression"] = range_expression
    /\ Production["range_expression_list"] = range_expression_list
    /\ Production["elsif_then"] = elsif_clause("THEN")
    /\ Production["elsif_do"] = elsif_clause("DO")
  BY DEF Production

\* Productions that push a value do so.
LEMMA PushersTyped ==
    ASSUME NEW h \in Nat, NEW l \in Int, NEW s \in Int, NEW p \in Pushers
    PROVE  Typed(Production[p], Sh(h, l, s, 2), Sh(h + 1, l, s, 2), {})
  <1>1. Typed(Production["ident"], Sh(h, l, s, 2), Sh(h + 1, l, s, 2), {})
    BY IdentTyped, ProductionIs
  <1>2. Typed(Production["qualident"], Sh(h, l, s, 2), Sh(h + 1, l, s, 2), {})
    BY QualidentTyped, ProductionIs
  <1>3. Typed(Production["identdef"], Sh(h, l, s, 2), Sh(h + 1, l, s, 2), {})
    BY IdentdefTyped, ProductionIs
  <1>4. Typed(Production["ident_list"], Sh(h, l, s, 2), Sh(h + 1, l, s, 2), {})
    BY IdentListTyped, ProductionIs
  <1>5. Typed(Production["module"], Sh(h, l, s, 2), Sh(h + 1, l, s, 2), {})
    BY ModuleTyped, ProductionIs
  <1>6. Typed(Production["import_list"], Sh(h, l, s, 2), Sh(h + 1, l, s, 2), {})
    BY ImportListTyped, ProductionIs
  <1>7. Typed(Production["declarations"], Sh(h, l, s, 2), Sh(h + 1, l, s, 2), {})
    BY DeclarationsTyped, ProductionIs
  <1>8. Typed(Production["const_declarations"], Sh(h, l, s, 2), Sh(h + 1, l, s, 2), {})
    BY ConstDeclarationsTyped, ProductionIs
  <1>9. Typed(Production["type_declarations"], Sh(h, l, s, 2), Sh(h + 1, l, s, 2), {})
    BY TypeDeclarationsTyped, ProductionIs
  <1>10. Typed(Production["var_declarations"], Sh(h, l, s, 2), Sh(h + 1, l, s, 2), {})
    BY VarDeclarationsTyped, ProductionIs
  <1>11. Typed(Production["type"], Sh(h, l, s, 2), Sh(h + 1, l, s, 2), {})
    BY TypeTyped, ProductionIs
  <1>12. Typed(Production["array_type"], Sh(h, l, s, 2), Sh(h + 1, l, s, 2), {})
    BY ArrayTypeTyped, ProductionIs
  <1>13. Typed(Production["record_type"], Sh(h, l, s, 2), Sh(h + 1, l, s, 2), {})
    BY RecordTypeTyped, ProductionIs
  <1>14. Typed(Production["pointer_type"], Sh(h, l, s, 2), Sh(h + 1, l, s, 2), {})
    BY PointerTypeTyped, ProductionIs
  <1>15. Typed(Production["procedure_type"], Sh(h, l, s, 2), Sh(h + 1, l, s, 2), {})
    BY ProcedureTypeTyped, ProductionIs
  <1>16. Typed(Production["formal_parameters"], Sh(h, l, s, 2), Sh(h + 1, l, s, 2), {})
    BY FormalParametersTyped, ProductionIs
  <1>17. Typed(Production["formal_type"], Sh(h, l, s, 2), Sh(h + 1, l, s, 2), {})
    BY FormalTypeTyped, ProductionIs
  <1>18. Typed(Production["statement_sequence"], Sh(h, l, s, 2), Sh(h + 1, l, s, 2), {})
    BY StatementSequenceTyped, ProductionIs
  <1>19. Typed(Production["if_statement"], Sh(h, l, s, 2), Sh(h + 1, l, s, 2), {})
    BY IfStatementTyped, ProductionIs
  <1>20. Typed(Production["loop_statement"], Sh(h, l, s, 2), Sh(h + 1, l, s, 2), {})
    BY LoopStatementTyped, ProductionIs
  <1>21. Typed(Production["while_statement"], Sh(h, l, s, 2), Sh(h + 1, l, s, 2), {})
    BY WhileStatementTyped, ProductionIs
  <1>22. Typed(Production["repeat_statement"], Sh(h, l, s, 2), Sh(h + 1, l, s, 2), {})
    BY RepeatStatementTyped, ProductionIs
  <1>23. Typed(Production["for_statement"], Sh(h, l, s, 2), Sh(h + 1, l, s, 2), {})
    BY ForStatementTyped, ProductionIs
  <1>24. Typed(Production["case_statement"], Sh(h, l, s, 2), Sh(h + 1, l, s, 2), {})
    BY CaseStatementTyped, ProductionIs
  <1>25. Typed(Production["expression_list"], Sh(h, l, s, 2), Sh(h + 1, l, s, 2), {})
    BY ExpressionListTyped, ProductionIs
  <1>26. Typed(Production["expression"], Sh(h, l, s, 2), Sh(h + 1, l, s, 2), {})
    BY ExpressionTyped, ProductionIs
  <1>27. Typed(Production["simple_expression"], Sh(h, l, s, 2), Sh(h + 1, l, s, 2), {})
    BY SimpleExpressionTyped, ProductionIs
  <1>28. Typed(Production["term"], Sh(h, l, s, 2), Sh(h + 1, l, s, 2), {})
    BY TermTyped, ProductionIs
  <1>29. Typed(Production["factor"], Sh(h, l, s, 2), Sh(h + 1, l, s, 2), {})
    BY FactorTyped, ProductionIs
  <1>30. Typed(Production["basic_factor"], Sh(h, l, s, 2), Sh(h + 1, l, s, 2), {})
    BY BasicFactorTyped, ProductionIs
  <1>31. Typed(Production["selector"], Sh(h, l, s, 2), Sh(h + 1, l, s, 2), {})
    BY SelectorTyped, ProductionIs
  <1>32. Typed(Production["set"], Sh(h, l, s, 2), Sh(h + 1, l, s, 2), {})
    BY SetTyped, ProductionIs
  <1>33. Typed(Production["range_expression"], Sh(h, l, s, 2), Sh(h + 1, l, s, 2), {})
    BY RangeExpressionTyped, ProductionIs
  <1>34. Typed(Production["range_expression_list"], Sh(h, l, s, 2), Sh(h + 1, l, s, 2), {})
    BY RangeExpressionListTyped, ProductionIs
  <1> QED
    BY <1>1, <1>2, <1>3, <1>4, <1>5, <1>6, <1>7, <1>8, <1>9, <1>10, <1>11, <1>12, <1>13, <1>14,
       <1>15, <1>16, <1>17, <1>18, <1>19, <1>20, <1>21, <1>22, <1>23, <1>24, <1>25, <1>26, <1>27,
       <1>28, <1>29, <1>30, <1>31, <1>32, <1>33, <1>34 DEF Pushers

\* Productions that add to the value on the top do so.
LEMMA AppendersTyped ==
    ASSUME NEW h \in Nat, NEW l \in Int, NEW s \in Int, NEW p \in Appenders
    PROVE  Typed(Production[p], Sh(h + 1, l, s, 2), Sh(h + 1, l, s, 2), {})
  <1>1. Typed(Production["import"], Sh(h + 1, l, s, 2), Sh(h + 1, l, s, 2), {})
    BY ImportTyped, ProductionIs
  <1>2. Typed(Production["field_list"], Sh(h + 1, l, s, 2), Sh(h + 1, l, s, 2), {})
    BY FieldListTyped, ProductionIs
  <1>3. Typed(Production["fp_section"], Sh(h + 1, l, s, 2), Sh(h + 1, l, s, 2), {})
    BY FpSectionTyped, ProductionIs
  <1>4. Typed(Production["procedure"], Sh(h + 1, l, s, 2), Sh(h + 1, l, s, 2), {})
    BY ProcedureTyped, ProductionIs
  <1>5. Typed(Production["procedure_declaration"], Sh(h + 1, l, s, 2), Sh(h + 1, l, s, 2), {})
    BY ProcedureDeclarationTyped, ProductionIs
  <1>6. Typed(Production["procedure_definition"], Sh(h + 1, l, s, 2), Sh(h + 1, l, s, 2), {})
    BY ProcedureDefinitionTyped, ProductionIs
  <1>7. Typed(Production["assignment"], Sh(h + 1, l, s, 2), Sh(h + 1, l, s, 2), {})
    BY AssignmentTyped, ProductionIs
  <1>8. Typed(Production["elsif_then"], Sh(h + 1, l, s, 2), Sh(h + 1, l, s, 2), {})
    BY ElsifClauseTyped, ProductionIs
  <1>9. Typed(Production["elsif_do"], Sh(h + 1, l, s, 2), Sh(h + 1, l, s, 2), {})
    BY ElsifClauseTyped, ProductionIs
  <1> QED
    BY <1>1, <1>2, <1>3, <1>4, <1>5, <1>6, <1>7, <1>8, <1>9 DEF Appenders

\* Every production does what a call of it is taken to do.
LEMMA ProductionsTyped ==
    ASSUME NEW p, NEW a \in Shape, NEW b, Calls(p, a, b)
    PROVE  Typed(Production[p], a, b, {})
  <1> DEFINE h == a.height
             l == a.loops
             s == a.scopes
  <1>1. h \in Nat /\ l \in Int /\ s \in Int /\ a.mode <= 2
    BY DEF Calls, Shape, Sound
  <1>2. b = Sh(h + Gain(p), l, s, Post(p)) /\ p \in DOMAIN Production
    BY DEF Calls
  <1>3. Fits(a, Sh(h, l, s, 2)) /\ Sh(h, l, s, 2) \in Shape
    <2>1. Sh(h, l, s, 2) \in Shape
      BY <1>1, ShapesAre
    <2>2. Fits(a, Sh(h, l, s, 2))
      BY <1>1, ShParts DEF Fits
    <2> QED
      BY <2>1, <2>2
  <1>4. p \in Pushers \cup Appenders \cup {"statement", "designator", "procedure_body"}
    BY <1>2, ProductionNames
  <1>5. p \in Appenders => h \in Nat \ {0}
    BY <1>1 DEF Calls
  <1> HIDE DEF h, l, s
  <1>6. CASE p \in Pushers
    <2>1. Gain(p) = 1 /\ Post(p) = 2
      BY <1>6 DEF Pushers, Appenders, Gain, Post, Sound
    <2>2. Typed(Production[p], Sh(h, l, s, 2), Sh(h + 1, l, s, 2), {})
      BY <1>1, <1>6, PushersTyped
    <2> QED
      BY <1>2, <1>3, <2>1, <2>2, TypedFits
  <1>7. CASE p \in Appenders
    <2>1. Gain(p) = 0 /\ Post(p) = 2
      BY <1>7 DEF Appenders, Gain, Post, Sound
    <2>2. h - 1 \in Nat /\ (h - 1) + 1 = h /\ h + 0 = h
      BY <1>5, <1>7
    <2> DEFINE g == h - 1
    <2> HIDE DEF g
    <2>3. Typed(Production[p], Sh(g + 1, l, s, 2), Sh(g + 1, l, s, 2), {})
      BY <1>1, <1>7, <2>2, AppendersTyped DEF g
    <2>4. g + 1 = h
      BY <2>2 DEF g
    <2> QED
      BY <1>2, <1>3, <2>1, <2>2, <2>3, <2>4, TypedFits
  <1>8. CASE p = "statement"
    <2>1. Gain(p) = 1 /\ Post(p) = 3 /\ Production[p] = statement
      BY <1>8, ProductionIs DEF Appenders, Gain, Post, Loose
    <2>2. Typed(statement, Sh(h, l, s, 2), Sh(h + 1, l, s, 3), {})
      BY <1>1, StatementTyped
    <2> QED
      BY <1>2, <1>3, <2>1, <2>2, TypedFits
  <1>9. CASE p = "designator"
    <2>1. Gain(p) = 1 /\ Post(p) = 1 /\ Production[p] = designator
      BY <1>9, ProductionIs DEF Appenders, Gain, Post, Designates
    <2>2. Typed(designator, Sh(h, l, s, 2), Sh(h + 1, l, s, 1), {})
      BY <1>1, DesignatorTyped
    <2> QED
      BY <1>2, <1>3, <2>1, <2>2, TypedFits
  <1>10. CASE p = "procedure_body"
    <2>1. Gain(p) = 2 /\ Post(p) = 2 /\ Production[p] = procedure_body
      BY <1>10, ProductionIs DEF Appenders, Gain, Post, Sound
    <2>2. Typed(procedure_body, Sh(h, l, s, 2), Sh(h + 2, l, s, 2), {})
      BY <1>1, ProcedureBodyTyped
    <2> QED
      BY <1>2, <1>3, <2>1, <2>2, TypedFits
  <1> QED
    BY <1>4, <1>6, <1>7, <1>8, <1>9, <1>10

-----------------------------------------------------------------------------
(* The machine                                                             *)

Fields ==
    {"todo", "at", "member", "local", "values", "errors", "crashed", "lapsed", "loops", "scopes",
     "skipped", "dangling", "silent"}
IsMachine(m) == m = [f \in Fields |-> m[f]]
End == Sh(1, 0, 0, 2)

(* Nodes without null among them: those of S, with all that is below them. *)
Whole(S) ==
    \A x \in S : /\ x = Node(x.kind, x.kids) /\ x.kind # "null" /\ x.kids \in Seq(S)
                 /\ x.kind \in {"index", "parameters"} => Len(x.kids) >= 1
                 /\ x.kind = "designator" => Len(x.kids) >= 2
(* The nodes of a stack are those of S, but for a null on the top of a     *)
(* loose one.                                                              *)
Nodes(S, values, mode) ==
    /\ \A j \in 1 .. Len(values) :
          values[j] \in S \/ (j = Len(values) /\ mode = Loose /\ values[j] = Leaf("null"))
    /\ mode = Designates => values # <<>> /\ values[Len(values)].kind = "designator"
Matches(m, a) ==
    /\ IsMachine(m) /\ ~m.crashed
    /\ IsList(m.values) /\ Len(m.values) = a.height
    /\ m.loops = a.loops /\ m.scopes = a.scopes
    /\ m.errors \in Nat /\ m.member \notin NodeKinds
    /\ a.mode = Failed => m.errors > 0
    /\ m.errors = 0 => ~m.dangling /\ \E S : Whole(S) /\ Nodes(S, m.values, a.mode)
(* The process has ended with a null pointer, after an error or by a lapse *)
Fell(m) ==
    /\ IsMachine(m) /\ m.crashed /\ m.errors \in Nat /\ m.todo = <<>>
    /\ m.errors > 0 \/ m.lapsed = TRUE

\* One field of a machine is set.
LEMMA FieldSet ==
    ASSUME NEW m, IsMachine(m), NEW f \in Fields, NEW v
    PROVE  /\ IsMachine([m EXCEPT ![f] = v])
           /\ [m EXCEPT ![f] = v][f] = v
           /\ \A g \in Fields : g # f => [m EXCEPT ![f] = v][g] = m[g]
  <1> DEFINE n == [m EXCEPT ![f] = v]
  <1>1. DOMAIN m = Fields
    BY DEF IsMachine
  <1>2. n = [g \in Fields |-> IF g = f THEN v ELSE m[g]]
    BY <1>1
  <1> HIDE DEF n
  <1>3. IsMachine(n)
    BY <1>2 DEF IsMachine
  <1>4. n[f] = v /\ \A g \in Fields : g # f => n[g] = m[g]
    BY <1>2
  <1> QED
    BY <1>3, <1>4 DEF n

\* What is left to do is set.
LEMMA TodoSet ==
    ASSUME NEW m, IsMachine(m), NEW t
    PROVE  /\ IsMachine([m EXCEPT !.todo = t]) /\ [m EXCEPT !.todo = t].todo = t
           /\ \A g \in Fields \ {"todo"} : [m EXCEPT !.todo = t][g] = m[g]
  BY FieldSet, SMTT(30) DEF Fields

\* An error is counted and nothing else changes.
LEMMA ReportFields ==
    ASSUME NEW m, IsMachine(m), m.errors \in Nat
    PROVE  /\ IsMachine(Report(m)) /\ Report(m).errors \in Nat \ {0}
           /\ \A g \in Fields \ {"errors"} : Report(m)[g] = m[g]
  <1> DEFINE v == IF m.errors < ErrorBound THEN m.errors + 1 ELSE m.errors
  <1>1. v \in Nat \ {0}
    BY DEF ErrorBound
  <1>2. Report(m) = [m EXCEPT !.errors = v]
    BY DEF Report
  <1> HIDE DEF v
  <1> QED
    BY <1>1, <1>2, FieldSet, SMTT(30) DEF Fields

\* The stack is set.
LEMMA ValuesSet ==
    ASSUME NEW m, IsMachine(m), NEW v
    PROVE  /\ IsMachine([m EXCEPT !.values = v]) /\ [m EXCEPT !.values = v].values = v
           /\ \A g \in Fields \ {"values"} : [m EXCEPT !.values = v][g] = m[g]
  BY FieldSet, SMTT(30) DEF Fields

\* A crash after an error ends the process.
LEMMA CrashFalls ==
    ASSUME NEW m, IsMachine(m), m.errors \in Nat \ {0}
    PROVE  Fell(Crash(m))
  <1> DEFINE n == [m EXCEPT !.crashed = TRUE]
             p == [n EXCEPT !.todo = <<>>]
  <1>1. IsMachine(n) /\ n.crashed = TRUE /\ n.errors = m.errors
    BY FieldSet DEF Fields
  <1>2. Crash(m) = p
    BY DEF Crash
  <1> HIDE DEF n
  <1>3. IsMachine(p) /\ p.todo = <<>> /\ \A g \in Fields \ {"todo"} : p[g] = n[g]
    BY <1>1, TodoSet
  <1>4. p.crashed = n.crashed /\ p.errors = n.errors
    BY <1>3 DEF Fields
  <1> HIDE DEF p
  <1> QED
    BY <1>1, <1>2, <1>3, <1>4 DEF Fell

\* A lapse is noted.
LEMMA LapsedSet ==
    ASSUME NEW m, IsMachine(m), NEW v
    PROVE  /\ IsMachine([m EXCEPT !.lapsed = v]) /\ [m EXCEPT !.lapsed = v].lapsed = v
           /\ \A g \in Fields \ {"lapsed"} : [m EXCEPT !.lapsed = v][g] = m[g]
  BY FieldSet, SMTT(30) DEF Fields

\* A lapse ends the process.
LEMMA LapseFalls ==
    ASSUME NEW m, IsMachine(m), m.errors \in Nat
    PROVE  Fell(Lapse(m))
  <1> DEFINE n == [m EXCEPT !.crashed = TRUE]
             p == [n EXCEPT !.todo = <<>>]
             q == [p EXCEPT !.lapsed = TRUE]
  <1>1. IsMachine(n) /\ n.crashed = TRUE /\ n.errors = m.errors
    BY FieldSet DEF Fields
  <1>2. Crash(m) = p
    BY DEF Crash
  <1>3. Lapse(m) = q
    BY <1>2 DEF Lapse
  <1> HIDE DEF n
  <1>4. IsMachine(p) /\ p.todo = <<>> /\ \A g \in Fields \ {"todo"} : p[g] = n[g]
    BY <1>1, TodoSet
  <1>5. p.crashed = TRUE /\ p.errors = m.errors
    BY <1>1, <1>4 DEF Fields
  <1> HIDE DEF p
  <1>6. IsMachine(q) /\ q.lapsed = TRUE /\ \A g \in Fields \ {"lapsed"} : q[g] = p[g]
    BY <1>4, LapsedSet
  <1> HIDE DEF q
  <1>7. q.crashed = TRUE /\ q.errors = m.errors /\ q.todo = <<>>
    BY <1>4, <1>5, <1>6 DEF Fields
  <1> QED
    BY <1>3, <1>6, <1>7 DEF Fell

\* A machine that matches a shape matches those it fits.
LEMMA MatchesFits ==
    ASSUME NEW m, NEW a \in Shape, NEW b \in Shape, Matches(m, a), Fits(a, b)
    PROVE  Matches(m, b)
  <1>1. /\ a.height = b.height /\ a.loops = b.loops /\ a.scopes = b.scopes
        /\ a.mode \in 0 .. 3 /\ b.mode \in 0 .. 3 /\ a.mode <= b.mode
    BY DEF Fits, Shape
  <1>2. b.mode = Failed => m.errors > 0
    BY <1>1 DEF Matches, Failed
  <1>3. ASSUME m.errors = 0
        PROVE  ~m.dangling /\ \E S : Whole(S) /\ Nodes(S, m.values, b.mode)
    <2>1. PICK S : Whole(S) /\ Nodes(S, m.values, a.mode)
      BY <1>3 DEF Matches
    <2>2. a.mode # Failed
      BY <1>3 DEF Matches
    <2>3. Nodes(S, m.values, b.mode)
      BY <1>1, <2>1, <2>2 DEF Nodes, Loose, Designates, Failed
    <2> QED
      BY <1>3, <2>1, <2>3 DEF Matches
  <1> QED
    BY <1>1, <1>2, <1>3 DEF Matches

\* What a match says does not depend on what is left to do.
LEMMA MatchesSame ==
    ASSUME NEW m, NEW n, NEW a, Matches(m, a), IsMachine(n),
           \A g \in {"member", "values", "errors", "crashed", "loops", "scopes", "dangling"} : n[g] = m[g]
    PROVE  Matches(n, a)
  <1>1. /\ n.member = m.member /\ n.values = m.values /\ n.errors = m.errors /\ n.crashed = m.crashed
        /\ n.loops = m.loops /\ n.scopes = m.scopes /\ n.dangling = m.dangling
    OBVIOUS
  <1> QED
    BY <1>1 DEF Matches

\* A reported error is a failure that disturbs nothing.
LEMMA ReportMatches ==
    ASSUME NEW m, NEW a \in Shape, Matches(m, a)
    PROVE  Matches(Report(m), a) /\ Matches(Report(m), Fail(a)) /\ Report(m).todo = m.todo
  <1> DEFINE n == Report(m)
  <1>1. /\ IsMachine(n) /\ n.errors \in Nat \ {0} /\ n.todo = m.todo
        /\ n.member = m.member /\ n.values = m.values /\ n.crashed = m.crashed
        /\ n.loops = m.loops /\ n.scopes = m.scopes
    BY ReportFields DEF Matches, Fields
  <1> HIDE DEF n
  <1>2. Matches(n, a)
    BY <1>1 DEF Matches
  <1>3. Matches(n, Fail(a))
    BY <1>1, <1>2, ShParts DEF Matches, Fail
  <1> QED
    BY <1>1, <1>2, <1>3 DEF n

\* The stack without its top, and the top without the rest
LEMMA StackPopped ==
    ASSUME NEW v, IsList(v), NEW n \in 0 .. Len(v)
    PROVE  /\ IsList(SubSeq(v, 1, Len(v) - n))
           /\ Len(SubSeq(v, 1, Len(v) - n)) = Len(v) - n
           /\ \A j \in 1 .. Len(v) - n : SubSeq(v, 1, Len(v) - n)[j] = v[j]
           /\ Len(SubSeq(v, Len(v) - n + 1, Len(v))) = n
           /\ \A j \in 1 .. n : SubSeq(v, Len(v) - n + 1, Len(v))[j] = v[Len(v) - n + j]
           /\ \A S : (\A j \in 1 .. n : v[Len(v) - n + j] \in S) => SubSeq(v, Len(v) - n + 1, Len(v)) \in Seq(S)
  <1>1. PICK X : v \in Seq(X)
    BY DEF IsList
  <1>2. Len(v) \in Nat /\ n \in Nat /\ n <= Len(v)
    BY <1>1
  <1> DEFINE u == SubSeq(v, 1, Len(v) - n)
             w == SubSeq(v, Len(v) - n + 1, Len(v))
  <1>3. \A j \in 1 .. Len(v) : v[j] \in X
    BY <1>1
  <1>4. u = [j \in 1 .. Len(v) - n |-> v[j]]
    BY <1>2 
  <1>5. w = [j \in 1 .. n |-> v[Len(v) - n + j]]
    BY <1>2
  <1> HIDE DEF u, w
  <1>6. u \in Seq(X) /\ Len(u) = Len(v) - n
    BY <1>2, <1>3, <1>4
  <1>7. Len(w) = n
    BY <1>2, <1>5
  <1>8. ASSUME NEW S, \A j \in 1 .. n : v[Len(v) - n + j] \in S PROVE w \in Seq(S)
    BY <1>2, <1>5, <1>8
  <1> QED
    BY <1>4, <1>5, <1>6, <1>7, <1>8 DEF u, w, IsList

\* The stack with a new top
LEMMA StackPushed ==
    ASSUME NEW v, IsList(v), NEW x
    PROVE  /\ IsList(Append(v, x)) /\ Len(Append(v, x)) = Len(v) + 1
           /\ Append(v, x)[Len(v) + 1] = x
           /\ \A j \in 1 .. Len(v) : Append(v, x)[j] = v[j]
           /\ Append(v, x) # <<>>
  <1>1. PICK X : v \in Seq(X)
    BY DEF IsList
  <1>2. v \in Seq(X \cup {x}) /\ x \in X \cup {x}
    BY <1>1, SeqMonotonic
  <1> DEFINE w == Append(v, x)
  <1>3. /\ w \in Seq(X \cup {x}) /\ Len(w) = Len(v) + 1
        /\ \A j \in 1 .. Len(v) : w[j] = v[j]
        /\ w[Len(v) + 1] = x
    BY <1>2, AppendProperties
  <1>4. w # <<>>
    BY <1>2, <1>3
  <1> HIDE DEF w
  <1> QED
    BY <1>3, <1>4 DEF w, IsList

\* The nodes stay whole with a node that is made of them.
LEMMA WholeGrows ==
    ASSUME NEW S, Whole(S), NEW kind, kind # "null", NEW kids \in Seq(S),
           kind \in {"index", "parameters"} => Len(kids) >= 1, kind = "designator" => Len(kids) >= 2
    PROVE  /\ Whole(S \cup {Node(kind, kids)})
           /\ Node(kind, kids).kind = kind /\ Node(kind, kids).kids = kids
  <1> DEFINE x == Node(kind, kids)
             T == S \cup {x}
  <1>1. x.kind = kind /\ x.kids = kids /\ x = Node(x.kind, x.kids)
    BY DEF Node
  <1> HIDE DEF x
  <1>2. Whole(T)
    <2> SUFFICES ASSUME NEW y \in T
                 PROVE  /\ y = Node(y.kind, y.kids) /\ y.kind # "null" /\ y.kids \in Seq(T)
                        /\ y.kind \in {"index", "parameters"} => Len(y.kids) >= 1
                        /\ y.kind = "designator" => Len(y.kids) >= 2
      BY DEF Whole
    <2>1. \A z \in Seq(S) : z \in Seq(T)
      BY SeqMonotonic
    <2>2. CASE y \in S
      BY <2>1, <2>2 DEF Whole
    <2>3. CASE y = x
      BY <1>1, <2>1, <2>3
    <2> QED
      BY <2>2, <2>3
  <1> QED
    BY <1>1, <1>2 DEF x

\* Values on the top give way to a node that is as whole as they were.
LEMMA ReplaceMatches ==
    ASSUME NEW m, NEW a \in Shape, Matches(m, a), a.mode <= Sound, NEW n \in Nat, n <= a.height,
           NEW r, IsMachine(r), NEW node,
           \A g \in {"member", "errors", "crashed", "loops", "scopes", "dangling"} : r[g] = m[g],
           r.values = Append(SubSeq(m.values, 1, Len(m.values) - n), node),
           \A S : m.errors = 0 /\ Whole(S) /\ Nodes(S, m.values, a.mode) =>
                     \E T : S \subseteq T /\ Whole(T) /\ node \in T
    PROVE  /\ Matches(r, Sh(a.height - n + 1, a.loops, a.scopes, Kept(a.mode)))
           /\ node.kind = "designator" =>
                 Matches(r, Sh(a.height - n + 1, a.loops, a.scopes, IF a.mode # Failed THEN Designates ELSE Kept(a.mode)))
  <1> DEFINE v == m.values
             u == SubSeq(v, 1, Len(v) - n)
             w == r.values
  <1>1. IsList(v) /\ Len(v) = a.height /\ n \in 0 .. Len(v) /\ Len(v) \in Nat
    BY DEF Matches, Shape
  <1>2. IsList(u) /\ Len(u) = Len(v) - n /\ \A j \in 1 .. Len(v) - n : u[j] = v[j]
    BY <1>1, StackPopped
  <1>3. w = Append(u, node)
    OBVIOUS
  <1> HIDE DEF u, w
  <1>4. /\ IsList(w) /\ Len(w) = Len(v) - n + 1 /\ w[Len(v) - n + 1] = node
        /\ \A j \in 1 .. Len(v) - n : w[j] = v[j]
        /\ w # <<>>
    <2>1. /\ IsList(w) /\ Len(w) = Len(u) + 1 /\ w[Len(u) + 1] = node
          /\ \A j \in 1 .. Len(u) : w[j] = u[j]
          /\ w # <<>>
      <3>1. \A x : /\ IsList(Append(u, x)) /\ Len(Append(u, x)) = Len(u) + 1
                   /\ Append(u, x)[Len(u) + 1] = x
                   /\ \A j \in 1 .. Len(u) : Append(u, x)[j] = u[j]
                   /\ Append(u, x) # <<>>
        BY <1>2, StackPushed
      <3> QED
        BY <1>3, <3>1
    <2> QED
      BY <1>2, <2>1
  <1>5. /\ r.member = m.member /\ r.errors = m.errors /\ r.crashed = m.crashed
        /\ r.loops = m.loops /\ r.scopes = m.scopes /\ r.dangling = m.dangling
    OBVIOUS
  <1>6. a.mode \in 0 .. 2 /\ (m.errors = 0 => a.mode # Failed)
    BY DEF Shape, Sound, Matches
  <1> HIDE DEF v
  <1>7. ASSUME m.errors = 0
        PROVE  \E T : Whole(T) /\ Nodes(T, w, Sound) /\ (node.kind = "designator" => Nodes(T, w, Designates))
    <2>1. PICK S : Whole(S) /\ Nodes(S, v, a.mode)
      BY <1>7 DEF Matches, v
    <2>2. PICK T : S \subseteq T /\ Whole(T) /\ node \in T
      BY <1>7, <2>1 DEF v
    <2>3. \A j \in 1 .. Len(v) : v[j] \in S
      BY <1>6, <2>1 DEF Nodes, Loose
    <2>4. \A j \in 1 .. Len(w) : w[j] \in T
      BY <1>1, <1>4, <2>2, <2>3, SMTT(30)
    <2>5. w[Len(w)] = node
      BY <1>4
    <2>6. Nodes(T, w, Sound)
      BY <2>4 DEF Nodes, Sound, Designates
    <2>7. node.kind = "designator" => Nodes(T, w, Designates)
      BY <1>4, <2>4, <2>5 DEF Nodes
    <2> QED
      BY <2>2, <2>6, <2>7
  <1> DEFINE Good(mode) == \E T : Whole(T) /\ Nodes(T, w, mode)
  <1>8. ASSUME NEW mode \in 0 .. 2, mode = Failed => a.mode = Failed, m.errors = 0 => Good(mode)
        PROVE  Matches(r, Sh(a.height - n + 1, a.loops, a.scopes, mode))
    <2> DEFINE b == Sh(a.height - n + 1, a.loops, a.scopes, mode)
    <2>1. b.height = a.height - n + 1 /\ b.loops = a.loops /\ b.scopes = a.scopes /\ b.mode = mode
      BY ShParts
    <2> HIDE DEF b
    <2>2. b.mode = Failed => r.errors > 0
      BY <1>5, <1>8, <2>1 DEF Matches
    <2>3. r.errors = 0 => ~r.dangling /\ \E S : Whole(S) /\ Nodes(S, r.values, b.mode)
      BY <1>5, <1>8, <2>1 DEF Matches, w
    <2>4. IsList(r.values) /\ Len(r.values) = b.height
      BY <1>1, <1>4, <2>1 DEF w
    <2>5. /\ ~r.crashed /\ r.loops = b.loops /\ r.scopes = b.scopes
          /\ r.errors \in Nat /\ r.member \notin NodeKinds
      BY <1>5, <2>1 DEF Matches
    <2>6. Matches(r, b)
      BY <2>2, <2>3, <2>4, <2>5 DEF Matches
    <2> QED
      BY <2>6 DEF b
  <1>9. Matches(r, Sh(a.height - n + 1, a.loops, a.scopes, Kept(a.mode)))
    <2>1. Kept(a.mode) \in 0 .. 2 /\ (Kept(a.mode) = Failed => a.mode = Failed)
      BY DEF Kept, Failed, Sound
    <2>2. m.errors = 0 => Good(Kept(a.mode))
      BY <1>6, <1>7 DEF Kept
    <2> HIDE DEF Good
    <2> QED
      BY <1>8, <2>1, <2>2
  <1>10. ASSUME node.kind = "designator"
         PROVE  Matches(r, Sh(a.height - n + 1, a.loops, a.scopes, IF a.mode # Failed THEN Designates ELSE Kept(a.mode)))
    <2> DEFINE mode == IF a.mode # Failed THEN Designates ELSE Kept(a.mode)
    <2>1. mode \in 0 .. 2 /\ (mode = Failed => a.mode = Failed)
      BY DEF Kept, Failed, Designates
    <2>2. m.errors = 0 => Good(mode)
      BY <1>6, <1>7, <1>10
    <2> HIDE DEF Good, mode
    <2>3. Matches(r, Sh(a.height - n + 1, a.loops, a.scopes, mode))
      BY <1>8, <2>1, <2>2
    <2> QED
      BY <2>3 DEF mode
  <1> QED
    BY <1>9, <1>10

\* Push changes the stack alone.
LEMMA PushFields ==
    ASSUME NEW m, IsMachine(m), NEW node
    PROVE  /\ IsMachine(Push(m, node)) /\ Push(m, node).values = Append(m.values, node)
           /\ \A g \in Fields \ {"values"} : Push(m, node)[g] = m[g]
  <1> DEFINE v == Append(m.values, node)
  <1>1. Push(m, node) = [m EXCEPT !.values = v]
    BY DEF Push
  <1> HIDE DEF v
  <1>2. /\ IsMachine([m EXCEPT !.values = v]) /\ [m EXCEPT !.values = v].values = v
        /\ \A g \in Fields \ {"values"} : [m EXCEPT !.values = v][g] = m[g]
    BY ValuesSet
  <1>3. IsMachine(Push(m, node)) /\ Push(m, node).values = v
    BY <1>1, <1>2
  <1>4. \A g \in Fields \ {"values"} : Push(m, node)[g] = m[g]
    BY <1>1, <1>2
  <1> QED
    BY <1>3, <1>4 DEF v

\* Pop changes the stack alone.
LEMMA PopFields ==
    ASSUME NEW m, IsMachine(m), NEW n
    PROVE  /\ IsMachine(Pop(m, n)) /\ Pop(m, n).values = SubSeq(m.values, 1, Len(m.values) - n)
           /\ \A g \in Fields \ {"values"} : Pop(m, n)[g] = m[g]
  <1> DEFINE v == SubSeq(m.values, 1, Len(m.values) - n)
  <1>1. Pop(m, n) = [m EXCEPT !.values = v]
    BY DEF Pop
  <1> HIDE DEF v
  <1>2. /\ IsMachine([m EXCEPT !.values = v]) /\ [m EXCEPT !.values = v].values = v
        /\ \A g \in Fields \ {"values"} : [m EXCEPT !.values = v][g] = m[g]
    BY ValuesSet
  <1>3. IsMachine(Pop(m, n)) /\ Pop(m, n).values = v
    BY <1>1, <1>2
  <1>4. \A g \in Fields \ {"values"} : Pop(m, n)[g] = m[g]
    BY <1>1, <1>2
  <1> QED
    BY <1>3, <1>4 DEF v

\* Values on the top are replaced by a node without null below it.
LEMMA MadeMatches ==
    ASSUME NEW m, NEW a \in Shape, Matches(m, a), a.mode <= Sound, NEW n \in Nat, n <= a.height, NEW node,
           \A S : m.errors = 0 /\ Whole(S) /\ Nodes(S, m.values, a.mode) =>
                     \E T : S \subseteq T /\ Whole(T) /\ node \in T
    PROVE  /\ Matches(Push(Pop(m, n), node), Sh(a.height - n + 1, a.loops, a.scopes, Kept(a.mode)))
           /\ node.kind = "designator" =>
                 Matches(Push(Pop(m, n), node),
                         Sh(a.height - n + 1, a.loops, a.scopes, IF a.mode # Failed THEN Designates ELSE Kept(a.mode)))
           /\ Push(Pop(m, n), node).todo = m.todo
  <1> DEFINE p == Pop(m, n)
             r == Push(p, node)
  <1>1. IsMachine(m)
    BY DEF Matches
  <1>2. /\ IsMachine(p) /\ p.values = SubSeq(m.values, 1, Len(m.values) - n)
        /\ \A g \in Fields \ {"values"} : p[g] = m[g]
    BY <1>1, PopFields
  <1> HIDE DEF p
  <1>3. /\ IsMachine(r) /\ r.values = Append(p.values, node)
        /\ \A g \in Fields \ {"values"} : r[g] = p[g]
    BY <1>2, PushFields
  <1> HIDE DEF r
  <1>4. \A g \in {"member", "errors", "crashed", "loops", "scopes", "dangling", "todo"} : r[g] = m[g]
    BY <1>2, <1>3 DEF Fields
  <1>5. r.values = Append(SubSeq(m.values, 1, Len(m.values) - n), node)
    BY <1>2, <1>3
  <1>6. r.todo = m.todo
    BY <1>4
  <1>7. /\ Matches(r, Sh(a.height - n + 1, a.loops, a.scopes, Kept(a.mode)))
        /\ node.kind = "designator" =>
               Matches(r, Sh(a.height - n + 1, a.loops, a.scopes, IF a.mode # Failed THEN Designates ELSE Kept(a.mode)))
    <2>1. \A g \in {"member", "errors", "crashed", "loops", "scopes", "dangling"} : r[g] = m[g]
      BY <1>4
    <2>2. IsMachine(r)
      BY <1>3
    <2> QED
      BY <2>1, <2>2, <1>5, ReplaceMatches, ZenonT(60)
  <1> QED
    BY <1>6, <1>7 DEF r, p

\* Nothing taken, and one node pushed
LEMMA PopNothing ==
    ASSUME NEW m, IsMachine(m), IsList(m.values)
    PROVE  Pop(m, 0) = m
  <1> DEFINE p == Pop(m, 0)
  <1>1. PICK X : m.values \in Seq(X)
    BY DEF IsList
  <1>2. SubSeq(m.values, 1, Len(m.values) - 0) = m.values
    BY <1>1, SubSeqFull
  <1>3. IsMachine(p) /\ p.values = m.values /\ \A g \in Fields \ {"values"} : p[g] = m[g]
    BY <1>2, PopFields
  <1> HIDE DEF p
  <1>4. \A g \in Fields : p[g] = m[g]
    BY <1>3
  <1>5. p = m
    BY <1>3, <1>4 DEF IsMachine
  <1> QED
    BY <1>5 DEF p

\* A leaf that is not null has no null below it.
LEMMA LeafWhole ==
    ASSUME NEW S, Whole(S), NEW kind, kind \notin NodeKinds
    PROVE  Whole(S \cup {Leaf(kind)}) /\ Leaf(kind).kind = kind
  <1>1. <<>> \in Seq(S)
    OBVIOUS
  <1>2. kind # "null" /\ kind \notin {"index", "parameters"} /\ kind # "designator"
    BY DEF NodeKinds
  <1> QED
    <2>1. Whole(S \cup {Node(kind, <<>>)}) /\ Node(kind, <<>>).kind = kind
      BY <1>1, <1>2, WholeGrows, ZenonT(60)
    <2> QED
      BY <2>1 DEF Leaf

\* A leaf is pushed.
LEMMA LeafMatches ==
    ASSUME NEW m, NEW a \in Shape, Matches(m, a), a.mode <= Sound, NEW kind, kind \notin NodeKinds
    PROVE  /\ Matches(Push(m, Leaf(kind)), Sh(a.height + 1, a.loops, a.scopes, Kept(a.mode)))
           /\ Push(m, Leaf(kind)).todo = m.todo
  <1> DEFINE node == Leaf(kind)
  <1>1. \A S : m.errors = 0 /\ Whole(S) /\ Nodes(S, m.values, a.mode) =>
                  \E T : S \subseteq T /\ Whole(T) /\ node \in T
    <2> SUFFICES ASSUME NEW S, Whole(S) PROVE \E T : S \subseteq T /\ Whole(T) /\ node \in T
      OBVIOUS
    <2>1. Whole(S \cup {node})
      BY LeafWhole
    <2> HIDE DEF node
    <2> QED
      BY <2>1
  <1> HIDE DEF node
  <1>2. Pop(m, 0) = m
    BY PopNothing DEF Matches
  <1>3. 0 <= a.height /\ a.height - 0 + 1 = a.height + 1
    BY DEF Shape
  <1>4. /\ Matches(Push(Pop(m, 0), node), Sh(a.height - 0 + 1, a.loops, a.scopes, Kept(a.mode)))
        /\ Push(Pop(m, 0), node).todo = m.todo
    BY <1>1, <1>3, MadeMatches
  <1> QED
    BY <1>2, <1>3, <1>4 DEF node

\* A null is pushed.
LEMMA NullMatches ==
    ASSUME NEW m, NEW a \in Shape, Matches(m, a), a.mode <= Sound
    PROVE  /\ Matches(Push(m, Leaf("null")),
                      Sh(a.height + 1, a.loops, a.scopes, IF a.mode = Failed THEN Failed ELSE Loose))
           /\ Push(m, Leaf("null")).todo = m.todo
  <1> DEFINE node == Leaf("null")
             r == Push(m, node)
             mode == IF a.mode = Failed THEN Failed ELSE Loose
             b == Sh(a.height + 1, a.loops, a.scopes, mode)
             v == m.values
             w == r.values
  <1>1. IsMachine(m) /\ IsList(v) /\ Len(v) = a.height /\ Len(v) \in Nat
    BY DEF Matches, Shape
  <1>2. IsMachine(r) /\ w = Append(v, node) /\ \A g \in Fields \ {"values"} : r[g] = m[g]
    BY <1>1, PushFields
  <1> HIDE DEF w, v
  <1>3. /\ IsList(w) /\ Len(w) = Len(v) + 1 /\ w[Len(v) + 1] = node
        /\ \A j \in 1 .. Len(v) : w[j] = v[j]
    BY <1>1, <1>2, StackPushed
  <1>4. /\ r.member = m.member /\ r.errors = m.errors /\ r.crashed = m.crashed /\ r.todo = m.todo
        /\ r.loops = m.loops /\ r.scopes = m.scopes /\ r.dangling = m.dangling
    BY <1>2 DEF Fields
  <1> HIDE DEF r
  <1>5. b.height = a.height + 1 /\ b.loops = a.loops /\ b.scopes = a.scopes /\ b.mode = mode
    BY ShParts
  <1>6. mode = Failed => a.mode = Failed
    BY DEF Loose, Failed
  <1>7. ASSUME m.errors = 0
        PROVE  \E S : Whole(S) /\ Nodes(S, w, mode)
    <2>1. PICK S : Whole(S) /\ Nodes(S, v, a.mode)
      BY <1>7 DEF Matches, v
    <2>2. a.mode # Failed /\ a.mode # Loose /\ mode = Loose /\ mode # Designates
      BY <1>7 DEF Matches, Sound, Loose, Designates, Shape
    <2>3. \A j \in 1 .. Len(v) : v[j] \in S
      BY <2>1, <2>2 DEF Nodes
    <2>4. \A j \in 1 .. Len(w) : w[j] \in S \/ (j = Len(w) /\ mode = Loose /\ w[j] = node)
      BY <1>1, <1>3, <2>2, <2>3
    <2> HIDE DEF mode
    <2> QED
      BY <2>1, <2>2, <2>4 DEF Nodes
  <1> HIDE DEF b, mode
  <1>8. /\ IsMachine(r) /\ ~r.crashed /\ IsList(r.values) /\ Len(r.values) = b.height
        /\ r.loops = b.loops /\ r.scopes = b.scopes
        /\ r.errors \in Nat /\ r.member \notin NodeKinds
    <2>1. /\ ~m.crashed /\ m.loops = a.loops /\ m.scopes = a.scopes
          /\ m.errors \in Nat /\ m.member \notin NodeKinds
      BY DEF Matches
    <2>2. IsList(r.values) /\ Len(r.values) = b.height
      BY <1>1, <1>3, <1>5 DEF w
    <2> QED
      BY <1>2, <1>4, <1>5, <2>1, <2>2
  <1>9. b.mode = Failed => r.errors > 0
    BY <1>4, <1>5, <1>6 DEF Matches
  <1>10. r.errors = 0 => ~r.dangling /\ \E S : Whole(S) /\ Nodes(S, r.values, b.mode)
    BY <1>4, <1>5, <1>7 DEF Matches, w
  <1>11. Matches(r, b)
    BY <1>8, <1>9, <1>10 DEF Matches
  <1> QED
    BY <1>4, <1>11 DEF r, b, mode

\* Values are dropped; the top one may be null.
LEMMA PopMatches ==
    ASSUME NEW m, NEW a \in Shape, Matches(m, a), NEW n \in Nat, n <= a.height, a.mode <= Sound \/ n = 1
    PROVE  /\ Matches(Pop(m, n), Sh(a.height - n, a.loops, a.scopes, Kept(a.mode)))
           /\ Pop(m, n).todo = m.todo
  <1> DEFINE r == Pop(m, n)
             b == Sh(a.height - n, a.loops, a.scopes, Kept(a.mode))
             v == m.values
             w == r.values
  <1>1. IsMachine(m) /\ IsList(v) /\ Len(v) = a.height /\ Len(v) \in Nat /\ n \in 0 .. Len(v)
    BY DEF Matches, Shape
  <1>2. /\ IsMachine(r) /\ w = SubSeq(v, 1, Len(v) - n)
        /\ \A g \in Fields \ {"values"} : r[g] = m[g]
    BY <1>1, PopFields
  <1> HIDE DEF w, v
  <1>3. IsList(w) /\ Len(w) = Len(v) - n /\ \A j \in 1 .. Len(v) - n : w[j] = v[j]
    BY <1>1, <1>2, StackPopped
  <1>4. /\ r.member = m.member /\ r.errors = m.errors /\ r.crashed = m.crashed /\ r.todo = m.todo
        /\ r.loops = m.loops /\ r.scopes = m.scopes /\ r.dangling = m.dangling
    BY <1>2 DEF Fields
  <1> HIDE DEF r
  <1>5. b.height = a.height - n /\ b.loops = a.loops /\ b.scopes = a.scopes /\ b.mode = Kept(a.mode)
    BY ShParts
  <1>6. ASSUME m.errors = 0
        PROVE  \E S : Whole(S) /\ Nodes(S, w, b.mode)
    <2>1. PICK S : Whole(S) /\ Nodes(S, v, a.mode)
      BY <1>6 DEF Matches, v
    <2>2. b.mode = Sound
      BY <1>5, <1>6 DEF Matches, Kept
    <2>3. a.mode # Loose \/ n = 1
      BY DEF Sound, Loose
    <2>4. \A j \in 1 .. Len(w) : w[j] \in S
      BY <1>1, <1>3, <2>1, <2>3 DEF Nodes
    <2> QED
      BY <2>1, <2>2, <2>4 DEF Nodes, Sound, Designates
  <1>7. /\ ~m.crashed /\ m.loops = a.loops /\ m.scopes = a.scopes
        /\ m.errors \in Nat /\ m.member \notin NodeKinds
    BY DEF Matches
  <1>8. IsList(r.values) /\ Len(r.values) = b.height
    BY <1>1, <1>3, <1>5 DEF w
  <1>9. b.mode = Failed => r.errors > 0
    BY <1>4, <1>5 DEF Matches, Kept, Sound, Failed
  <1>10. r.errors = 0 => ~r.dangling /\ \E S : Whole(S) /\ Nodes(S, r.values, b.mode)
    BY <1>4, <1>6 DEF Matches, w
  <1> HIDE DEF b
  <1>11. Matches(r, b)
    BY <1>2, <1>4, <1>5, <1>7, <1>8, <1>9, <1>10 DEF Matches
  <1> QED
    BY <1>4, <1>11 DEF r, b

\* The operands of a node are values of the stack.
LEMMA OperandsWhole ==
    ASSUME NEW m, NEW a \in Shape, Matches(m, a), a.mode <= Sound, NEW n \in Nat, n <= a.height,
           NEW S, Nodes(S, m.values, a.mode)
    PROVE  /\ Operands(m, n) \in Seq(S) /\ Len(Operands(m, n)) = n
           /\ \A j \in 1 .. n : Operands(m, n)[j] = m.values[a.height - n + j]
  <1> DEFINE v == m.values
  <1>1. IsList(v) /\ Len(v) = a.height /\ Len(v) \in Nat /\ n \in 0 .. Len(v)
    BY DEF Matches, Shape
  <1>2. \A j \in 1 .. Len(v) : v[j] \in S
    BY DEF Nodes, Sound, Loose
  <1> HIDE DEF v
  <1>3. \A j \in 1 .. n : v[Len(v) - n + j] \in S
    BY <1>1, <1>2
  <1> QED
    <2> DEFINE k == SubSeq(v, Len(v) - n + 1, Len(v))
    <2>1. Len(k) = n /\ (\A j \in 1 .. n : k[j] = v[Len(v) - n + j])
          /\ \A T : (\A j \in 1 .. n : v[Len(v) - n + j] \in T) => k \in Seq(T)
      BY <1>1, StackPopped, ZenonT(60)
    <2> HIDE DEF k
    <2>2. k \in Seq(S) /\ Len(k) = n /\ \A j \in 1 .. n : k[j] = v[a.height - n + j]
      BY <1>1, <1>3, <2>1
    <2>3. Operands(m, n) = k
      BY DEF Operands, k, v
    <2> QED
      BY <2>2, <2>3 DEF v

\* A node is made of the values on the top.
LEMMA NodeMatches ==
    ASSUME NEW m, NEW a \in Shape, Matches(m, a), a.mode <= Sound, NEW n \in Nat, n <= a.height,
           NEW kind, kind # "null", kind \in {"index", "parameters"} => n = 1, kind = "designator" => n = 2
    PROVE  LET r == Push(Pop(m, n), Node(kind, Operands(m, n))) IN
           /\ Matches(r, Sh(a.height - n + 1, a.loops, a.scopes,
                            IF kind = "designator" /\ a.mode # Failed THEN Designates ELSE Kept(a.mode)))
           /\ Matches(r, Sh(a.height - n + 1, a.loops, a.scopes, Kept(a.mode)))
           /\ r.todo = m.todo
  <1> DEFINE node == Node(kind, Operands(m, n))
  <1>1. node.kind = kind
    BY DEF Node
  <1>2. \A S : m.errors = 0 /\ Whole(S) /\ Nodes(S, m.values, a.mode) =>
                  \E T : S \subseteq T /\ Whole(T) /\ node \in T
    <2> SUFFICES ASSUME NEW S, Whole(S), Nodes(S, m.values, a.mode)
                 PROVE  \E T : S \subseteq T /\ Whole(T) /\ node \in T
      OBVIOUS
    <2>1. Operands(m, n) \in Seq(S) /\ Len(Operands(m, n)) = n
      BY OperandsWhole
    <2> DEFINE kids == Operands(m, n)
    <2>2. kids \in Seq(S) /\ (kind \in {"index", "parameters"} => Len(kids) >= 1)
          /\ (kind = "designator" => Len(kids) >= 2)
      BY <2>1
    <2> HIDE DEF kids
    <2>3. Whole(S \cup {Node(kind, kids)})
      BY <2>2, WholeGrows
    <2>4. Whole(S \cup {node})
      BY <2>3 DEF node, kids
    <2> HIDE DEF node
    <2> QED
      BY <2>4
  <1> HIDE DEF node
  <1>3. /\ Matches(Push(Pop(m, n), node), Sh(a.height - n + 1, a.loops, a.scopes, Kept(a.mode)))
        /\ node.kind = "designator" =>
              Matches(Push(Pop(m, n), node),
                      Sh(a.height - n + 1, a.loops, a.scopes, IF a.mode # Failed THEN Designates ELSE Kept(a.mode)))
        /\ Push(Pop(m, n), node).todo = m.todo
    BY <1>2, MadeMatches
  <1> QED
    BY <1>1, <1>3 DEF node

\* The top and the values below it have no null among them.
LEMMA TopIsLast ==
    ASSUME NEW m, NEW a \in Shape, Matches(m, a), a.mode <= Sound, NEW S, Nodes(S, m.values, a.mode)
    PROVE  /\ a.height >= 1 => Top(m) \in S
           /\ \A n \in 0 .. a.height - 1 : Below(m, n) \in S
  <1>1. Len(m.values) = a.height /\ a.height \in Nat /\ a.mode # Loose
    BY DEF Matches, Shape, Sound, Loose
  <1>2. \A j \in 1 .. a.height : m.values[j] \in S
    BY <1>1 DEF Nodes
  <1> QED
    BY <1>1, <1>2 DEF Top, Below, Last

\* A null is on the stack after an error only.
LEMMA NullIsReported ==
    ASSUME NEW m, NEW a \in Shape, Matches(m, a), a.mode <= Sound, NEW n \in 0 .. a.height - 1,
           Below(m, n).kind = "null"
    PROVE  m.errors \in Nat \ {0}
  <1>1. m.errors \in Nat
    BY DEF Matches
  <1>2. ASSUME m.errors = 0 PROVE FALSE
    <2>1. PICK S : Whole(S) /\ Nodes(S, m.values, a.mode)
      BY <1>2 DEF Matches
    <2>2. Below(m, n) \in S
      BY <2>1, TopIsLast
    <2> QED
      BY <2>1, <2>2 DEF Whole
  <1> QED
    BY <1>1, <1>2

\* A value is appended to the one below it.
LEMMA AppendedMatches ==
    ASSUME NEW m, NEW a \in Shape, Matches(m, a), a.mode <= Sound, a.height >= 2
    PROVE  /\ Matches(Appended(m, Top(m)), Sh(a.height - 1, a.loops, a.scopes, Kept(a.mode)))
           /\ Appended(m, Top(m)).todo = m.todo
  <1> DEFINE x == Below(m, 1)
             node == [x EXCEPT !.kids = Append(@, Top(m))]
  <1>1. \A S : m.errors = 0 /\ Whole(S) /\ Nodes(S, m.values, a.mode) =>
                  \E T : S \subseteq T /\ Whole(T) /\ node \in T
    <2> SUFFICES ASSUME NEW S, Whole(S), Nodes(S, m.values, a.mode)
                 PROVE  \E T : S \subseteq T /\ Whole(T) /\ node \in T
      OBVIOUS
    <2>1. x \in S /\ Top(m) \in S
      <3>1. 1 \in 0 .. a.height - 1 /\ a.height >= 1
        BY DEF Shape
      <3>2. Top(m) \in S /\ \A n \in 0 .. a.height - 1 : Below(m, n) \in S
        BY <3>1, TopIsLast
      <3> QED
        BY <3>1, <3>2
    <2> HIDE DEF x
    <2>2. /\ x = Node(x.kind, x.kids) /\ x.kind # "null" /\ x.kids \in Seq(S)
          /\ x.kind \in {"index", "parameters"} => Len(x.kids) >= 1
          /\ x.kind = "designator" => Len(x.kids) >= 2
      BY <2>1 DEF Whole
    <2> DEFINE kids == Append(x.kids, Top(m))
    <2>3. kids \in Seq(S) /\ Len(kids) = Len(x.kids) + 1 /\ Len(x.kids) \in Nat
      BY <2>1, <2>2
    <2>4. node = Node(x.kind, kids)
      <3>1. \A p, q, k : [Node(p, q) EXCEPT !.kids = k] = Node(p, k)
        BY DEF Node
      <3>2. [Node(x.kind, x.kids) EXCEPT !.kids = kids] = Node(x.kind, kids)
        BY <3>1
      <3>3. node = [x EXCEPT !.kids = kids]
        OBVIOUS
      <3> HIDE DEF node, kids
      <3> QED
        BY <2>2, <3>2, <3>3
    <2> HIDE DEF kids, node
    <2>5. Whole(S \cup {Node(x.kind, kids)})
      BY <2>2, <2>3, WholeGrows
    <2>6. Whole(S \cup {node})
      BY <2>4, <2>5
    <2> QED
      BY <2>6
  <1>2. Appended(m, Top(m)) = Push(Pop(m, 2), node)
    BY DEF Appended
  <1> HIDE DEF node
  <1>3. a.height - 2 + 1 = a.height - 1 /\ 2 <= a.height
    BY DEF Shape
  <1>4. /\ Matches(Push(Pop(m, 2), node), Sh(a.height - 2 + 1, a.loops, a.scopes, Kept(a.mode)))
        /\ Push(Pop(m, 2), node).todo = m.todo
    BY <1>1, <1>3, MadeMatches
  <1> QED
    BY <1>2, <1>3, <1>4

\* A stack whose top is no null is no loose one.
LEMMA FirmMatches ==
    ASSUME NEW m, NEW a \in Shape, Matches(m, a), Top(m).kind # "null"
    PROVE  Matches(m, Sh(a.height, a.loops, a.scopes, Kept(a.mode)))
  <1> DEFINE b == Sh(a.height, a.loops, a.scopes, Kept(a.mode))
  <1>1. b.height = a.height /\ b.loops = a.loops /\ b.scopes = a.scopes /\ b.mode = Kept(a.mode)
    BY ShParts
  <1> HIDE DEF b
  <1>2. b.mode = Failed => m.errors > 0
    BY <1>1 DEF Matches, Kept, Sound, Failed
  <1>3. ASSUME m.errors = 0 PROVE ~m.dangling /\ \E S : Whole(S) /\ Nodes(S, m.values, b.mode)
    <2>1. PICK S : Whole(S) /\ Nodes(S, m.values, a.mode)
      BY <1>3 DEF Matches
    <2>2. b.mode = Sound
      BY <1>1, <1>3 DEF Matches, Kept
    <2>3. m.values[Len(m.values)] # Leaf("null")
      BY DEF Top, Last, Leaf, Node
    <2>4. Nodes(S, m.values, b.mode)
      BY <2>1, <2>2, <2>3 DEF Nodes, Sound, Designates
    <2> QED
      BY <1>3, <2>1, <2>4 DEF Matches
  <1>4. Matches(m, b)
    BY <1>1, <1>2, <1>3 DEF Matches
  <1> QED
    BY <1>4 DEF b

\* A statement is appended to the sequence below it, or dropped.
LEMMA AddMatches ==
    ASSUME NEW m, NEW a \in Shape, Matches(m, a), a.height >= 2
    PROVE  /\ Matches(addStatement(m, Top(m)), Sh(a.height - 1, a.loops, a.scopes, Kept(a.mode)))
           /\ addStatement(m, Top(m)).todo = m.todo
  <1>1. CASE Top(m).kind = "null"
    <2>1. addStatement(m, Top(m)) = Pop(m, 1)
      BY <1>1 DEF addStatement
    <2>2. 1 <= a.height
      BY DEF Shape
    <2> QED
      BY <2>1, <2>2, PopMatches
  <1>2. CASE Top(m).kind # "null"
    <2>1. addStatement(m, Top(m)) = Appended(m, Top(m))
      BY <1>2 DEF addStatement
    <2> DEFINE b == Sh(a.height, a.loops, a.scopes, Kept(a.mode))
    <2>2. /\ b.height = a.height /\ b.loops = a.loops /\ b.scopes = a.scopes /\ b.mode = Kept(a.mode)
      BY ShParts
    <2>3. Kept(a.mode) <= Sound /\ Kept(a.mode) \in 0 .. 3 /\ Kept(Kept(a.mode)) = Kept(a.mode)
      BY DEF Kept, Failed, Sound
    <2>4. a.height \in Nat /\ a.loops \in Int /\ a.scopes \in Int
      BY DEF Shape
    <2>5. b \in Shape
      BY <2>3, <2>4, ShapesAre
    <2>6. Matches(m, b)
      BY <1>2, FirmMatches
    <2> HIDE DEF b
    <2>7. /\ Matches(Appended(m, Top(m)), Sh(b.height - 1, b.loops, b.scopes, Kept(b.mode)))
          /\ Appended(m, Top(m)).todo = m.todo
      BY <2>2, <2>3, <2>5, <2>6, AppendedMatches
    <2> QED
      BY <2>1, <2>2, <2>3, <2>7
  <1> QED
    BY <1>1, <1>2

\* Loops and scopes are counted.
LEMMA CountMatches ==
    ASSUME NEW m, NEW a \in Shape, Matches(m, a), NEW d \in Int
    PROVE  /\ Matches([m EXCEPT !.loops = @ + d], Sh(a.height, a.loops + d, a.scopes, a.mode))
           /\ Matches([m EXCEPT !.scopes = @ + d], Sh(a.height, a.loops, a.scopes + d, a.mode))
           /\ [m EXCEPT !.loops = @ + d].todo = m.todo /\ [m EXCEPT !.scopes = @ + d].todo = m.todo
  <1>1. IsMachine(m)
    BY DEF Matches
  <1> DEFINE n == [m EXCEPT !.loops = m.loops + d]
             p == [m EXCEPT !.scopes = m.scopes + d]
             b == Sh(a.height, a.loops + d, a.scopes, a.mode)
             c == Sh(a.height, a.loops, a.scopes + d, a.mode)
  <1>2. IsMachine(n) /\ n.loops = m.loops + d /\ \A g \in Fields : g # "loops" => n[g] = m[g]
    BY <1>1, FieldSet DEF Fields
  <1>3. IsMachine(p) /\ p.scopes = m.scopes + d /\ \A g \in Fields : g # "scopes" => p[g] = m[g]
    BY <1>1, FieldSet DEF Fields
  <1>4. b.height = a.height /\ b.loops = a.loops + d /\ b.scopes = a.scopes /\ b.mode = a.mode
    BY ShParts
  <1>5. c.height = a.height /\ c.loops = a.loops /\ c.scopes = a.scopes + d /\ c.mode = a.mode
    BY ShParts
  <1> HIDE DEF n, p, b, c
  <1>6. /\ n.member = m.member /\ n.values = m.values /\ n.errors = m.errors /\ n.crashed = m.crashed
        /\ n.scopes = m.scopes /\ n.dangling = m.dangling /\ n.todo = m.todo
    BY <1>2 DEF Fields
  <1>7. /\ p.member = m.member /\ p.values = m.values /\ p.errors = m.errors /\ p.crashed = m.crashed
        /\ p.loops = m.loops /\ p.dangling = m.dangling /\ p.todo = m.todo
    BY <1>3 DEF Fields
  <1>8. Matches(n, b)
    BY <1>2, <1>4, <1>6 DEF Matches
  <1>9. Matches(p, c)
    BY <1>3, <1>5, <1>7 DEF Matches
  <1> QED
    BY <1>6, <1>7, <1>8, <1>9 DEF n, p, b, c

\* A stale token is read after an error.
LEMMA StaleMatches ==
    ASSUME NEW m, NEW a \in Shape, Matches(m, a), a.mode = Failed, NEW d
    PROVE  Matches([m EXCEPT !.dangling = d], a) /\ [m EXCEPT !.dangling = d].todo = m.todo
  <1>1. IsMachine(m) /\ m.errors > 0 /\ m.errors \in Nat
    BY DEF Matches
  <1> DEFINE n == [m EXCEPT !.dangling = d]
  <1>2. IsMachine(n) /\ \A g \in Fields : g # "dangling" => n[g] = m[g]
    BY <1>1, FieldSet DEF Fields
  <1> HIDE DEF n
  <1>3. /\ n.member = m.member /\ n.values = m.values /\ n.errors = m.errors /\ n.crashed = m.crashed
        /\ n.loops = m.loops /\ n.scopes = m.scopes /\ n.todo = m.todo
    BY <1>2 DEF Fields
  <1>4. Matches(n, a)
    BY <1>1, <1>2, <1>3 DEF Matches
  <1> QED
    BY <1>3, <1>4 DEF n

\* The local copy of a token does not concern the stack.
LEMMA LookMatches ==
    ASSUME NEW m, NEW a \in Shape, Matches(m, a), NEW v
    PROVE  Matches([m EXCEPT !.local = v], a) /\ [m EXCEPT !.local = v].todo = m.todo
  <1>1. IsMachine(m)
    BY DEF Matches
  <1> DEFINE n == [m EXCEPT !.local = v]
  <1>2. IsMachine(n) /\ \A g \in Fields : g # "local" => n[g] = m[g]
    BY <1>1, FieldSet DEF Fields
  <1> HIDE DEF n
  <1>3. n.todo = m.todo /\ \A g \in {"member", "values", "errors", "crashed", "loops", "scopes", "dangling"} : n[g] = m[g]
    BY <1>2 DEF Fields
  <1>4. Matches(n, a)
    BY <1>2, <1>3, MatchesSame
  <1> QED
    BY <1>3, <1>4 DEF n

\* A null pointer is followed only after an error: without one no null is there.
LEMMA DerefMatches ==
    ASSUME NEW m, NEW a \in Shape, Matches(m, a), a.mode <= Sound, NEW d \in 1 .. a.height, NEW reports
    PROVE  LET r == IF Below(m, d - 1).kind # "null" THEN m ELSE Crash(IF reports THEN Report(m) ELSE m)
           IN  Fell(r) \/ (Matches(r, a) /\ r.todo = m.todo)
  <1>1. CASE Below(m, d - 1).kind # "null"
    BY <1>1
  <1>2. CASE Below(m, d - 1).kind = "null"
    <2>1. d - 1 \in 0 .. a.height - 1
      BY DEF Shape
    <2>2. IsMachine(m) /\ m.errors \in Nat \ {0}
      BY <1>2, <2>1, NullIsReported DEF Matches
    <2>3. IsMachine(Report(m)) /\ Report(m).errors \in Nat \ {0}
      BY <2>2, ReportFields
    <2>4. Fell(Crash(m)) /\ Fell(Crash(Report(m)))
      BY <2>2, <2>3, CrashFalls
    <2> QED
      BY <1>2, <2>4
  <1> QED
    BY <1>1, <1>2

\* Lists of nodes without null have no null.
LEMMA NoNullIn ==
    ASSUME NEW S, Whole(S), NEW nodes \in Seq(S)
    PROVE  ~HasNull(nodes)
  <1>1. \A n \in Range(nodes) : n \in S
    BY DEF Range
  <1> QED
    BY <1>1 DEF HasNull, Whole

\* No selector of a designator without null is null.
LEMMA NoNullSelected ==
    ASSUME NEW S, Whole(S), NEW n \in S, n.kind = "designator"
    PROVE  ~SelectsNull(n)
  <1>1. n.kids \in Seq(S) /\ Len(n.kids) >= 2
    BY DEF Whole
  <1>2. n.kids[2] \in S
    BY <1>1
  <1> DEFINE selectors == n.kids[2].kids
  <1>3. selectors \in Seq(S)
    BY <1>2 DEF Whole
  <1> HIDE DEF selectors
  <1>4. ASSUME NEW s \in Range(selectors), s.kind \in {"index", "parameters"} PROVE ~HasNull(s.kids[1].kids)
    <2>1. s \in S
      BY <1>3, <1>4 DEF Range
    <2>2. s.kids \in Seq(S) /\ Len(s.kids) >= 1
      BY <1>4, <2>1 DEF Whole
    <2>3. s.kids[1] \in S
      BY <2>2
    <2>4. s.kids[1].kids \in Seq(S)
      BY <2>3 DEF Whole
    <2> QED
      BY <2>4, NoNullIn
  <1>5. \A s \in Range(n.kids[2].kids) : s.kind \in {"index", "parameters"} => ~HasNull(s.kids[1].kids)
    BY <1>4 DEF selectors
  <1> QED
    BY <1>5 DEF SelectsNull

\* Where a semantic action meets a null, an error was reported before.
LEMMA MetNullIsReported ==
    ASSUME NEW m, NEW a \in Shape, Matches(m, a), a.mode <= Sound, a.height >= 1,
           NEW k, k = Operands(m, 1),
           HasNull(k[1].kids) \/ (a.mode <= Designates /\ SelectsNull(k[1]))
    PROVE  m.errors \in Nat \ {0}
  <1>1. m.errors \in Nat
    BY DEF Matches
  <1>2. ASSUME m.errors = 0 PROVE FALSE
    <2>1. PICK S : Whole(S) /\ Nodes(S, m.values, a.mode)
      BY <1>2 DEF Matches
    <2>2. a.mode # Failed /\ a.mode \in 0 .. 3
      BY <1>2 DEF Matches, Shape
    <2>3. k \in Seq(S) /\ Len(k) = 1 /\ k[1] = m.values[a.height - 1 + 1]
      <3>1. /\ Operands(m, 1) \in Seq(S) /\ Len(Operands(m, 1)) = 1
            /\ \A j \in 1 .. 1 : Operands(m, 1)[j] = m.values[a.height - 1 + j]
        <4>1. 1 \in Nat /\ 1 <= a.height
          BY DEF Shape
        <4> QED
          BY <2>1, <4>1, OperandsWhole, ZenonT(60)
      <3> QED
        BY <3>1
    <2>4. k[1] \in S /\ k[1] = m.values[Len(m.values)]
      BY <2>3 DEF Matches, Shape
    <2>5. ~HasNull(k[1].kids)
      BY <2>1, <2>4, NoNullIn DEF Whole
    <2>6. a.mode = Designates /\ SelectsNull(k[1])
      BY <2>2, <2>5 DEF Designates, Failed
    <2>7. k[1].kind = "designator"
      BY <2>1, <2>4, <2>6 DEF Nodes
    <2> QED
      BY <2>1, <2>4, <2>6, <2>7, NoNullSelected
  <1> QED
    BY <1>1, <1>2

\* A semantic action that reports a missing operand, and returns null
LEMMA RejectedMatches ==
    ASSUME NEW m, NEW a \in Shape, Matches(m, a), NEW n \in Nat, n <= a.height, NEW mode \in 0 .. 3
    PROVE  LET r == Push(Pop(Report(m), n), Leaf("null")) IN
           Matches(r, Sh(a.height - n + 1, a.loops, a.scopes, mode)) /\ r.todo = m.todo
  <1> DEFINE r0 == Report(m)
             r1 == Pop(r0, n)
             r == Push(r1, Leaf("null"))
             h == a.height
             l == a.loops
             s == a.scopes
  <1>1. h \in Nat /\ l \in Int /\ s \in Int /\ Fail(a) = Sh(h, l, s, 0) /\ Fail(a) \in Shape
    BY FitsPreorder DEF Shape, Fail, Failed
  <1>2. Matches(r0, Sh(h, l, s, 0)) /\ r0.todo = m.todo
    BY <1>1, ReportMatches
  <1> HIDE DEF r0, h, l, s
  <1>3. n <= h
    BY DEF h
  <1>4. Kept(0) = 0 /\ 0 <= Sound /\ Failed = 0
    BY DEF Kept, Failed, Sound
  <1> DEFINE b == Sh(h, l, s, 0)
             c == Sh(h - n, l, s, 0)
             d == Sh(h - n + 1, l, s, 0)
             e == Sh(h - n + 1, l, s, mode)
  <1>5. h - n \in Nat /\ h - n + 1 \in Nat
    BY <1>1, <1>3
  <1>6. b \in Shape /\ c \in Shape /\ d \in Shape /\ e \in Shape
    BY <1>1, <1>5, ShapesAre
  <1>7. b.height = h /\ b.loops = l /\ b.scopes = s /\ b.mode = 0
    BY ShParts
  <1>8. c.height = h - n /\ c.loops = l /\ c.scopes = s /\ c.mode = 0
    BY ShParts
  <1>9. Fits(d, e)
    BY ShParts DEF Fits
  <1> HIDE DEF b
  <1>10. Matches(r1, Sh(b.height - n, b.loops, b.scopes, Kept(b.mode))) /\ r1.todo = r0.todo
    BY <1>2, <1>3, <1>4, <1>6, <1>7, PopMatches DEF b
  <1>11. Matches(r1, c)
    BY <1>4, <1>7, <1>10
  <1> HIDE DEF c, r1
  <1>12. /\ Matches(r, Sh(c.height + 1, c.loops, c.scopes, IF c.mode = Failed THEN Failed ELSE Loose))
         /\ r.todo = r1.todo
    BY <1>4, <1>6, <1>8, <1>11, NullMatches
  <1>13. Matches(r, d)
    BY <1>4, <1>8, <1>12
  <1> HIDE DEF d, e, r
  <1>14. Matches(r, e)
    BY <1>6, <1>9, <1>13, MatchesFits
  <1> QED
    BY <1>2, <1>10, <1>12, <1>14 DEF r, r1, r0, e, h, l, s

\* What semantic actions can do
LEMMA SemaResults ==
    ASSUME NEW m, NEW kind \in SemaKinds, NEW n
    PROVE  LET k == Operands(m, n)
               done == Push(Pop(m, n), Node(kind, k))
               r == Sema(m, kind, n)
           IN  \/ r = done \/ r = Report(done)
               \/ r = Push(Pop(Report(m), n), Leaf("null"))
               \/ kind = "labels" /\ r = m
               \/ r = Lapse(m)
               \/ r = Crash(m) /\ kind \in {"labels", "set"} /\ HasNull(k[1].kids)
               \/ r = Crash(m) /\ kind \in {"qualified", "call"} /\ SelectsNull(k[1])
               \/ kind = "call" /\ r = Push(Pop(Report(m), 1), Leaf("null"))
  <1> DEFINE k == Operands(m, n)
             done == Push(Pop(m, n), Node(kind, k))
             r == Sema(m, kind, n)
  <1>1. DOMAIN Needed = {"negation", "not", "range", "if"}
    BY DEF Needed
  <1>2. CASE kind \in DOMAIN Needed
    <2>1. r = onOperands(m, k, done, n, Needed[kind])
      BY <1>1, <1>2 DEF Sema
    <2> HIDE DEF r, done, k
    <2> QED
      BY <2>1 DEF onOperands, r, done, k
  <1>3. CASE kind = "labels"
    <2>1. r = onCaseLabel(m, k[1])
      BY <1>1, <1>3 DEF Sema
    <2> HIDE DEF r, done, k
    <2>2. r = m \/ (r = Crash(m) /\ HasNull(k[1].kids))
      BY <2>1 DEF onCaseLabel
    <2> QED
      BY <1>3, <2>2 DEF r, done, k
  <1>4. CASE kind = "set"
    <2>1. r = onSetExpression(m, k[1], done)
      BY <1>1, <1>4 DEF Sema
    <2> HIDE DEF r, done, k
    <2>2. r = done \/ (r = Crash(m) /\ HasNull(k[1].kids))
      BY <2>1 DEF onSetExpression
    <2> QED
      BY <1>4, <2>2 DEF r, done, k
  <1>5. CASE kind = "qualified"
    <2>1. r = onQualifiedExpression(m, k[1], done)
      BY <1>1, <1>5 DEF Sema
    <2> HIDE DEF r, done, k
    <2>2. r = done \/ r = Lapse(m) \/ (r = Crash(m) /\ SelectsNull(k[1]))
      BY <2>1 DEF onQualifiedExpression
    <2> QED
      BY <1>5, <2>2 DEF r, done, k
  <1>6. CASE kind = "call"
    <2>1. r = onQualifiedStatement(m, k[1], done)
      BY <1>1, <1>6 DEF Sema
    <2> HIDE DEF r, done, k
    <2>2. \/ r = done \/ (r = Crash(m) /\ SelectsNull(k[1]))
          \/ r = Push(Pop(Report(m), 1), Leaf("null"))
      BY <2>1 DEF onQualifiedStatement
    <2> QED
      BY <1>6, <2>2 DEF r, done, k
  <1>7. CASE kind \in {"exit", "for", "array", "module", "procedure"}
    <2>1. \/ r = onExit(m, done) \/ r = onForLoop(k[2], k[3], done) \/ r = onArrayType(k[1], k[2], done)
          \/ r = onModuleEnd(k[1], k[5], done) \/ r = onProcedureDefinitionEnd(k[1], k[5], done)
      BY <1>1, <1>7 DEF Sema
    <2> HIDE DEF r, done, k
    <2>2. r = done \/ r = Report(done)
      BY <2>1 DEF onExit, onForLoop, onArrayType, onModuleEnd, onProcedureDefinitionEnd
    <2> QED
      BY <2>2 DEF r, done, k
  <1>8. CASE kind = "binary"
    <2>1. r = onOperands(m, k, onBinaryExpression(m, k, done), n, {1, 3})
      BY <1>1, <1>8 DEF Sema
    <2> HIDE DEF r, done, k
    <2>2. r = Push(Pop(Report(m), n), Leaf("null")) \/ r = onBinaryExpression(m, k, done)
      BY <2>1 DEF onOperands
    <2>3. onBinaryExpression(m, k, done) \in {Lapse(m), done}
      BY DEF onBinaryExpression
    <2> QED
      BY <2>2, <2>3 DEF r, done, k
  <1>9. CASE kind = "case"
    <2>1. r = onCaseOfEnd(m, k[2].kids, done)
      BY <1>1, <1>9 DEF Sema
    <2> HIDE DEF r, done, k
    <2>2. r \in {Lapse(m), done}
      BY <2>1 DEF onCaseOfEnd
    <2> QED
      BY <2>2 DEF r, done, k
  <1> QED
    BY <1>1, <1>2, <1>3, <1>4, <1>5, <1>6, <1>7, <1>8, <1>9 DEF SemaKinds

\* A semantic action makes its node, reports an error, or falls over a null,
\* after an error or by a lapse.
LEMMA SemaMatches ==
    ASSUME NEW m, NEW a \in Shape, Matches(m, a), a.mode <= Sound, NEW n \in Nat, n <= a.height,
           NEW kind \in SemaKinds, kind \in LookingInto => n = 1,
           kind \in {"qualified", "call"} => a.mode <= Designates
    PROVE  LET r == Sema(m, kind, n) IN
           Fell(r) \/ (Matches(r, Sh(a.height - n + 1, a.loops, a.scopes, Kept(a.mode))) /\ r.todo = m.todo)
  <1> DEFINE k == Operands(m, n)
             done == Push(Pop(m, n), Node(kind, k))
             r == Sema(m, kind, n)
             rejected == Push(Pop(Report(m), n), Leaf("null"))
             c == Sh(a.height - n + 1, a.loops, a.scopes, Kept(a.mode))
  <1>1. kind \notin {"null", "index", "parameters", "designator"}
    BY DEF SemaKinds
  <1>2. Matches(done, c) /\ done.todo = m.todo
    BY <1>1, NodeMatches
  <1>3. Kept(a.mode) \in 0 .. 3
    BY DEF Kept, Failed, Sound
  <1>4. a.height - n + 1 \in Nat /\ a.loops \in Int /\ a.scopes \in Int /\ a.height \in Nat
    BY DEF Shape
  <1>5. c \in Shape
    BY <1>3, <1>4, ShapesAre
  <1>6. Matches(rejected, c) /\ rejected.todo = m.todo
    BY <1>3, RejectedMatches
  <1>7. kind = "labels" => Matches(m, c)
    <2>1. SUFFICES ASSUME kind = "labels" PROVE Fits(a, c)
      BY <1>5, MatchesFits
    <2>2. c.height = a.height - n + 1 /\ c.loops = a.loops /\ c.scopes = a.scopes /\ c.mode = Kept(a.mode)
      BY ShParts
    <2>3. n = 1
      BY <2>1 DEF LookingInto
    <2>4. c.height = a.height
      BY <1>4, <2>2, <2>3
    <2>5. a.mode <= Kept(a.mode)
      BY DEF Shape, Kept, Sound, Failed
    <2> HIDE DEF c
    <2> QED
      BY <2>2, <2>4, <2>5 DEF Fits
  <1> HIDE DEF c, done, rejected
  <1>8. Matches(Report(done), c) /\ Report(done).todo = done.todo
    BY <1>2, <1>5, ReportMatches
  <1>9. ASSUME kind \in {"labels", "set"} /\ HasNull(k[1].kids)
        PROVE  Fell(Crash(m))
    <2>1. n = 1 /\ a.height >= 1
      BY <1>4, <1>9 DEF LookingInto
    <2>2. m.errors \in Nat \ {0}
      BY <1>9, <2>1, MetNullIsReported
    <2> QED
      BY <2>2, CrashFalls DEF Matches
  <1>10. ASSUME kind \in {"qualified", "call"} /\ SelectsNull(k[1])
         PROVE  Fell(Crash(m))
    <2>1. n = 1 /\ a.height >= 1 /\ a.mode <= Designates
      BY <1>4, <1>10 DEF LookingInto
    <2>2. m.errors \in Nat \ {0}
      BY <1>10, <2>1, MetNullIsReported
    <2> QED
      BY <2>2, CrashFalls DEF Matches
  <1>11. kind = "call" => Push(Pop(Report(m), 1), Leaf("null")) = rejected
    BY DEF LookingInto, rejected
  <1> HIDE DEF k, r
  <1>12. \/ r = done \/ r = Report(done) \/ r = rejected
         \/ kind = "labels" /\ r = m
         \/ r = Lapse(m)
         \/ r = Crash(m) /\ kind \in {"labels", "set"} /\ HasNull(k[1].kids)
         \/ r = Crash(m) /\ kind \in {"qualified", "call"} /\ SelectsNull(k[1])
    BY <1>11, SemaResults DEF r, done, k, rejected
  <1>13. Fell(Lapse(m))
    BY LapseFalls DEF Matches
  <1>14. Fell(r) \/ (Matches(r, c) /\ r.todo = m.todo)
    BY <1>2, <1>6, <1>7, <1>8, <1>9, <1>10, <1>12, <1>13
  <1> QED
    BY <1>14 DEF r, c

TokensAreFine == input.tokens \in Seq(STRING \ NodeKinds)

\* Tokens of the file are peeked, or its end.
LEMMA PeekedIsToken ==
    ASSUME NEW m, TokensAreFine
    PROVE  Peeked(m) \notin NodeKinds
  <1>1. "eof" \notin NodeKinds
    BY DEF NodeKinds
  <1>2. ASSUME m.at \in DOMAIN input.tokens PROVE input.tokens[m.at] \notin NodeKinds
    <2>1. input.tokens[m.at] \in STRING \ NodeKinds
      BY <1>2 DEF TokensAreFine
    <2> QED
      BY <2>1
  <1> QED
    BY <1>1, <1>2 DEF Peeked

\* What an instruction is taken to do is what it does.
LEMMA DoesMatches ==
    ASSUME NEW m, NEW a \in Shape, Matches(m, a), NEW i, NEW b, Does(i, a, b), TokensAreFine
    PROVE  Fell(Effect(m, i)) \/ (Matches(Effect(m, i), b) /\ Effect(m, i).todo = m.todo)
  <1> DEFINE r == Effect(m, i)
  <1>0. a.height \in Nat /\ a.loops \in Int /\ a.scopes \in Int /\ a.mode \in 0 .. 3
    BY DEF Shape
  <1>1. CASE i.op \in {"next", "look", "resync"} /\ b = a
    <2>1. CASE i.op = "look"
      <3> DEFINE v == Peeked(m)
      <3>1. r = [m EXCEPT !.local = v]
        BY <2>1 DEF Effect
      <3> HIDE DEF r, v
      <3>2. Matches(r, a) /\ r.todo = m.todo
        BY <3>1, LookMatches
      <3> QED
        BY <1>1, <3>2 DEF r
    <2>2. CASE i.op \in {"next", "resync"}
      <3>1. r = m
        BY <2>2 DEF Effect
      <3> HIDE DEF r
      <3> QED
        BY <1>1, <3>1 DEF r
    <2> QED
      BY <1>1, <2>1, <2>2
  <1>2. CASE i.op = "report" /\ b = Fail(a)
    <2>1. r = Report(m)
      BY <1>2 DEF Effect
    <2> HIDE DEF r
    <2> QED
      BY <1>2, <2>1, ReportMatches DEF r
  <1>3. CASE i.op = "stale" /\ (i.report = TRUE \/ (i.report = FALSE /\ a.mode = Failed)) /\ b = Fail(a)
    <2> DEFINE n == IF i.report THEN Report(m) ELSE m
               d == n.dangling \/ i.report \/ m.skipped
    <2>1. r = [n EXCEPT !.dangling = d]
      BY <1>3 DEF Effect
    <2>2. Fail(a) \in Shape /\ Fail(a).mode = Failed
      BY FitsPreorder, ShParts DEF Fail
    <2>3. Matches(n, Fail(a)) /\ n.todo = m.todo
      <3>1. CASE i.report = TRUE
        BY <3>1, ReportMatches
      <3>2. CASE i.report = FALSE /\ a.mode = Failed
        <4>1. Fits(a, Fail(a))
          BY <3>2, ShParts, <1>0 DEF Fits, Fail, Failed
        <4> QED
          BY <2>2, <3>2, <4>1, MatchesFits
      <3> QED
        BY <1>3, <3>1, <3>2
    <2> HIDE DEF r, n, d
    <2>4. Matches(r, Fail(a)) /\ r.todo = n.todo
      BY <2>1, <2>2, <2>3, StaleMatches
    <2> QED
      BY <1>3, <2>3, <2>4 DEF r
  <1>4. CASE i.op \in {"leaf", "value"} /\ a.mode <= Sound
             /\ b = Sh(a.height + 1, a.loops, a.scopes, Kept(a.mode))
    <2> DEFINE kind == IF i.op = "leaf" THEN m.member ELSE Peeked(m)
    <2>1. r = Push(m, Leaf(kind))
      BY <1>4 DEF Effect
    <2>2. kind \notin NodeKinds
      BY PeekedIsToken DEF Matches
    <2> HIDE DEF r, kind
    <2> QED
      BY <1>4, <2>1, <2>2, LeafMatches DEF r
  <1>5. CASE i.op = "push" /\ a.mode <= Sound /\ i.kind \notin NodeKinds
             /\ b = Sh(a.height + 1, a.loops, a.scopes, Kept(a.mode))
    <2>1. r = Push(m, Leaf(i.kind))
      BY <1>5 DEF Effect
    <2> HIDE DEF r
    <2> QED
      BY <1>5, <2>1, LeafMatches DEF r
  <1>6. CASE i.op = "push" /\ a.mode <= Sound /\ i.kind = "null"
             /\ b = Sh(a.height + 1, a.loops, a.scopes, IF a.mode = Failed THEN Failed ELSE Loose)
    <2>1. r = Push(m, Leaf("null"))
      BY <1>6 DEF Effect
    <2> HIDE DEF r
    <2> QED
      BY <1>6, <2>1, NullMatches DEF r
  <1>7. CASE i.op = "append" /\ a.mode <= Sound /\ a.height >= 2
             /\ b = Sh(a.height - 1, a.loops, a.scopes, Kept(a.mode))
    <2>1. r = Appended(m, Top(m))
      BY <1>7 DEF Effect
    <2> HIDE DEF r
    <2> QED
      BY <1>7, <2>1, AppendedMatches DEF r
  <1>8. CASE i.op = "add" /\ a.height >= 2 /\ b = Sh(a.height - 1, a.loops, a.scopes, Kept(a.mode))
    <2>1. r = addStatement(m, Top(m))
      BY <1>8 DEF Effect
    <2> HIDE DEF r
    <2> QED
      BY <1>8, <2>1, AddMatches DEF r
  <1>9. CASE i.op = "drop" /\ a.mode <= Sound /\ i.n \in Nat /\ a.height >= i.n
             /\ b = Sh(a.height - i.n, a.loops, a.scopes, Kept(a.mode))
    <2>1. r = Pop(m, i.n) /\ i.n <= a.height
      BY <1>0, <1>9 DEF Effect
    <2> HIDE DEF r
    <2> QED
      BY <1>9, <2>1, PopMatches DEF r
  <1>10. CASE i.op = "make" /\ a.mode <= Sound /\ i.n \in Nat /\ a.height >= i.n
              /\ i.kind # "null"
              /\ (i.kind \in {"index", "parameters"} => i.n = 1)
              /\ (i.kind = "designator" => i.n = 2)
              /\ b = Sh(a.height - i.n + 1, a.loops, a.scopes,
                        IF i.kind = "designator" /\ a.mode # Failed THEN Designates ELSE Kept(a.mode))
    <2>1. r = Push(Pop(m, i.n), Node(i.kind, Operands(m, i.n))) /\ i.n <= a.height
      BY <1>0, <1>10 DEF Effect
    <2> HIDE DEF r
    <2> QED
      BY <1>10, <2>1, NodeMatches DEF r
  <1>11. CASE i.op = "sema" /\ a.mode <= Sound /\ i.n \in Nat /\ a.height >= i.n
              /\ i.kind \in SemaKinds
              /\ (i.kind \in LookingInto => i.n = 1)
              /\ (i.kind \in {"qualified", "call"} => a.mode <= Designates)
              /\ b = Sh(a.height - i.n + 1, a.loops, a.scopes, Kept(a.mode))
    <2>1. r = Sema(m, i.kind, i.n) /\ i.n <= a.height
      BY <1>0, <1>11 DEF Effect
    <2> HIDE DEF r
    <2> QED
      BY <1>11, <2>1, SemaMatches DEF r
  <1>12. CASE i.op = "count" /\ i.of \in {"loops", "scopes"} /\ i.by \in Int
              /\ b = IF i.of = "loops" THEN Sh(a.height, a.loops + i.by, a.scopes, a.mode)
                                       ELSE Sh(a.height, a.loops, a.scopes + i.by, a.mode)
    <2>1. r = IF i.of = "loops" THEN [m EXCEPT !.loops = @ + i.by] ELSE [m EXCEPT !.scopes = @ + i.by]
      BY <1>12 DEF Effect
    <2> HIDE DEF r
    <2> QED
      BY <1>12, <2>1, CountMatches DEF r
  <1>13. CASE i.op = "deref" /\ a.mode <= Sound /\ i.depth \in 1 .. a.height /\ b = a
    <2>1. r = IF Below(m, i.depth - 1).kind # "null" THEN m
              ELSE Crash(IF i.report THEN Report(m) ELSE m)
      BY <1>13 DEF Effect
    <2> HIDE DEF r
    <2> QED
      BY <1>13, <2>1, DerefMatches DEF r
  <1> QED
    BY <1>1, <1>2, <1>3, <1>4, <1>5, <1>6, <1>7, <1>8, <1>9, <1>10, <1>11, <1>12, <1>13 DEF Does

\* What is left to do has the shape of what the machine holds, or the
\* process has ended.
Doing(m, a) == a \in Shape /\ Typed(m.todo, a, End, {}) /\ Matches(m, a)
Fine(m) == Fell(m) \/ \E a : Doing(m, a)

\* Programs that follow one another
LEMMA GoesOn ==
    ASSUME NEW G, Consistent(G), NEW t, NEW u, NEW a, NEW b, NEW c, NEW kk, NEW k,
           <<t, a, b, kk>> \in G, <<u, b, c, k>> \in G, Lands(G, kk, u, c, k)
    PROVE  Typed(t \o u, a, c, k)
  <1>1. Typed(t, a, b, kk) /\ Typed(u, b, c, k)
    BY DEF Typed
  <1> QED
    BY <1>1, Compose

\* One element between two lists
LEMMA OneBetweenLists ==
    ASSUME NEW v, IsList(v), NEW i, NEW w, IsList(w)
    PROVE  (v \o <<i>>) \o w = v \o (<<i>> \o w)
  <1>1. IsList(<<i>>)
    <2>1. <<i>> \in Seq({i})
      OBVIOUS
    <2> QED
      BY <2>1 DEF IsList
  <1> DEFINE u == <<i>>
  <1>2. IsList(u)
    BY <1>1
  <1> HIDE DEF u
  <1>3. (v \o u) \o w = v \o (u \o w)
    BY <1>2, ListConcatAssociative
  <1> QED
    BY <1>3 DEF u

\* A loop before what follows it
LEMMA LoopGoesOn ==
    ASSUME NEW G, Consistent(G), NEW i, IsLoop(i), NEW rest, NEW e \in Shape, NEW b \in Shape, NEW c, NEW k,
           NEW kk \in SUBSET Shape, Works(G, i, e, b, kk), <<rest, b, c, k>> \in G, Lands(G, kk, rest, c, k),
           <<i.body, e, e, {b}>> \in G
    PROVE  Typed(i.body \o <<i>> \o rest, e, c, k)
  <1> DEFINE t == <<i>> \o rest
  <1>1. IsList(rest) /\ c \in Shape /\ k \in SUBSET Shape /\ IsList(i.body)
    BY DEF Consistent
  <1>2. IsList(t) /\ t # <<>> /\ Head(t) = i /\ Tail(t) = rest
    BY <1>1, ListCons
  <1>3. ~NoLoop(t) /\ AfterLoop(t) = rest
    BY <1>1, LoopAtHead
  <1>4. (i.body \o <<i>>) \o rest = i.body \o t
    <2> DEFINE v == i.body
    <2>1. IsList(v) /\ IsList(rest)
      BY <1>1
    <2> HIDE DEF v
    <2>2. (v \o <<i>>) \o rest = v \o (<<i>> \o rest)
      BY <2>1, OneBetweenLists
    <2> QED
      BY <2>2 DEF v
  <1> HIDE DEF t
  <1>5. Follows(G, t, e, c, k)
    <2>1. Fits(e, e)
      BY FitsPreorder
    <2> QED
      BY <1>2, <2>1 DEF Follows
  <1>6. Typed(t, e, c, k)
    BY <1>1, <1>2, <1>5, TypedBy
  <1>7. Typed(i.body, e, e, {b})
    BY DEF Typed
  <1>8. Lands(G, {b}, t, c, k)
    <2>1. Fits(b, b)
      BY FitsPreorder
    <2> QED
      BY <1>3, <2>1 DEF Lands
  <1>9. Typed(i.body \o t, e, c, k)
    BY <1>6, <1>7, <1>8, Compose
  <1> QED
    BY <1>4, <1>9

\* What a test says of the machine has nothing to do with what is left to do.
LEMMA HoldsSame ==
    ASSUME NEW m, IsMachine(m), NEW t, NEW test
    PROVE  Holds([m EXCEPT !.todo = t], test) <=> Holds(m, test)
  <1> DEFINE n == [m EXCEPT !.todo = t]
  <1>1. n.at = m.at /\ n.member = m.member /\ n.local = m.local /\ n.values = m.values
    BY TodoSet DEF Fields
  <1> HIDE DEF n
  <1>2. Peeked(n) = Peeked(m) /\ Top(n) = Top(m)
    BY <1>1 DEF Peeked, Top
  <1>3. Holds(n, test) <=> Holds(m, test)
    BY <1>1, <1>2 DEF Holds
  <1> QED
    BY <1>3 DEF n

\* An instruction that is no jump leaves the rest to do.
LEMMA NoJump ==
    ASSUME NEW m, NEW i, NEW rest, NEW a, NEW b, Does(i, a, b)
    PROVE  Continue(m, i, rest) = rest
  BY DEF Does, Continue

\* An instruction leaves a machine that is typed typed.
LEMMA PerformedIsFine ==
    ASSUME NEW m, NEW a, Doing(m, a), m.todo # <<>>, TokensAreFine
    PROVE  Fine(Performed(m))
  <1> DEFINE i == Head(m.todo)
             rest == Tail(m.todo)
             t == Continue(m, i, rest)
             n == [m EXCEPT !.todo = t]
             r == Effect(n, i)
  <1>1. Performed(m) = r
    BY DEF Performed
  <1>2. PICK G : Consistent(G) /\ Follows(G, m.todo, a, End, {})
    BY TypedSays DEF Doing
  <1>3. PICK a1 \in Shape, b \in Shape, kk \in SUBSET Shape :
                /\ Fits(a, a1)
                /\ Works(G, i, a1, b, kk)
                /\ <<rest, b, End, {}>> \in G
                /\ Lands(G, kk, rest, End, {})
    BY <1>2 DEF Follows
  <1>4. Matches(m, a1) /\ IsMachine(m)
    BY <1>3, MatchesFits DEF Doing, Matches
  <1>5. IsMachine(n) /\ n.todo = t /\ \A g \in Fields \ {"todo"} : n[g] = m[g]
    <2> HIDE DEF t
    <2> QED
      BY <1>4, TodoSet
  <1>6. Matches(n, a1)
    <2> HIDE DEF n
    <2>1. \A g \in {"member", "values", "errors", "crashed", "loops", "scopes", "dangling"} : n[g] = m[g]
      BY <1>5 DEF Fields
    <2> QED
      BY <1>4, <1>5, <2>1, MatchesSame
  <1>7. \A test : Holds(n, test) <=> Holds(m, test)
    BY <1>4, HoldsSame
  <1>8. t = Continue(m, i, rest)
    OBVIOUS
  <1>9. r = Effect(n, i)
    OBVIOUS
  <1>10. Typed(rest, b, End, {})
    BY <1>2, <1>3 DEF Typed
  <1> HIDE DEF n, t, r, i, rest
  <1>11. CASE Does(i, a1, b)
    <2>1. t = rest
      BY <1>8, <1>11, NoJump
    <2>2. Fell(r) \/ (Matches(r, b) /\ r.todo = n.todo)
      BY <1>6, <1>9, <1>11, DoesMatches
    <2> QED
      BY <1>1, <1>3, <1>5, <1>10, <2>1, <2>2 DEF Fine, Doing
  <1>12. CASE i.op = "when" /\ <<i.then, a1, b, kk>> \in G
              /\ <<i.else, IF i.report THEN Fail(a1) ELSE a1, b, kk>> \in G
    <2>1. t = (IF Holds(m, i.test) THEN i.then ELSE i.else) \o rest
      BY <1>8, <1>12 DEF Continue
    <2>2. r = IF i.report /\ ~Holds(m, i.test) THEN Report(n) ELSE n
      BY <1>7, <1>9, <1>12 DEF Effect
    <2>3. CASE Holds(m, i.test)
      <3>1. Typed(i.then \o rest, a1, End, {})
        BY <1>2, <1>3, <1>12, GoesOn
      <3> QED
        BY <1>1, <1>3, <1>5, <1>6, <2>1, <2>2, <2>3, <3>1 DEF Fine, Doing
    <2>4. CASE ~Holds(m, i.test)
      <3> DEFINE a2 == IF i.report THEN Fail(a1) ELSE a1
      <3>1. Typed(i.else \o rest, a2, End, {})
        BY <1>2, <1>3, <1>12, GoesOn
      <3>2. a2 \in Shape
        BY FitsPreorder
      <3>3. Matches(r, a2) /\ r.todo = n.todo
        BY <1>6, <2>2, <2>4, ReportMatches
      <3> QED
        BY <1>1, <1>5, <2>1, <2>4, <3>1, <3>2, <3>3 DEF Fine, Doing
    <2> QED
      BY <2>3, <2>4
  <1>13. CASE IsLoop(i) /\ \E e \in Shape : /\ Fits(a1, e)
                                            /\ <<i.body, e, e, {b}>> \in G
                                            /\ i.op = "while" => Fits(e, b)
    <2>1. PICK e \in Shape : Fits(a1, e) /\ <<i.body, e, e, {b}>> \in G /\ (i.op = "while" => Fits(e, b))
      BY <1>13
    <2>2. r = n
      BY <1>9, <1>13 DEF Effect, IsLoop
    <2>3. \/ t = i.body \o <<i>> \o rest
          \/ t = rest /\ i.op = "while"
      BY <1>8, <1>13 DEF Continue, IsLoop
    <2>4. CASE t = i.body \o <<i>> \o rest
      <3>1. Fits(e, e)
        BY FitsPreorder
      <3>2. Works(G, i, e, b, kk)
        BY <1>13, <2>1, <3>1 DEF Works
      <3>3. Typed(i.body \o <<i>> \o rest, e, End, {})
        BY <1>2, <1>3, <1>13, <2>1, <3>2, LoopGoesOn
      <3>4. Matches(n, e)
        BY <1>6, <2>1, MatchesFits
      <3> QED
        BY <1>1, <1>5, <2>2, <2>4, <3>3, <3>4 DEF Fine, Doing
    <2>5. CASE t = rest /\ i.op = "while"
      <3>1. Matches(n, b)
        BY <1>6, <2>1, <2>5, MatchesFits
      <3> QED
        BY <1>1, <1>3, <1>5, <1>10, <2>2, <2>5, <3>1 DEF Fine, Doing
    <2> QED
      BY <2>3, <2>4, <2>5
  <1>14. CASE i.op = "call" /\ Calls(i.of, a1, b)
    <2>1. t = Production[i.of] \o rest
      BY <1>8, <1>14 DEF Continue
    <2>2. r = n
      BY <1>9, <1>14 DEF Effect
    <2>3. Typed(Production[i.of], a1, b, {})
      BY <1>14, ProductionsTyped
    <2>4. Lands(G, {}, rest, End, {})
      BY DEF Lands
    <2>5. Typed(Production[i.of] \o rest, a1, End, {})
      BY <1>2, <1>10, <2>3, <2>4, Compose
    <2> QED
      BY <1>1, <1>3, <1>5, <1>6, <2>1, <2>2, <2>5 DEF Fine, Doing
  <1>15. CASE i.op = "break" /\ \E e \in kk : Fits(a1, e)
    <2>1. t = AfterLoop(rest)
      BY <1>8, <1>15 DEF Continue
    <2>2. r = n
      BY <1>9, <1>15 DEF Effect
    <2>3. PICK e \in kk : Fits(a1, e)
      BY <1>15
    <2>4. PICK e1 \in Shape : /\ Fits(e, e1)
                              /\ NoLoop(rest) => e1 \in {}
                              /\ ~NoLoop(rest) => <<AfterLoop(rest), e1, End, {}>> \in G
      BY <1>3, <2>3 DEF Lands
    <2>5. Typed(AfterLoop(rest), e1, End, {})
      BY <1>2, <2>4 DEF Typed
    <2>6. Fits(a1, e1)
      <3>1. e \in Shape
        BY <1>3, <2>3
      <3> QED
        BY <2>3, <2>4, <3>1, FitsPreorder
    <2>7. Matches(n, e1)
      BY <1>6, <2>6, MatchesFits
    <2> QED
      BY <1>1, <1>5, <2>1, <2>2, <2>5, <2>7 DEF Fine, Doing
  <1> QED
    BY <1>3, <1>11, <1>12, <1>13, <1>14, <1>15 DEF Works

-----------------------------------------------------------------------------
(* The parser                                                              *)

\* Induction over the natural numbers, for a set
LEMMA NatSet ==
    ASSUME NEW S, 0 \in S, \A n \in Nat : n \in S => n + 1 \in S
    PROVE  Nat \subseteq S
  <1> DEFINE T == {n \in Nat : n \notin S}
  <1>1. SUFFICES ASSUME T # {} PROVE FALSE
    OBVIOUS
  <1>2. PICK n \in T : \A m \in T : ~(<<m, n>> \in OpToRel(<, Nat))
    BY <1>1, NatLessThanWellFounded, WFMin
  <1>3. \A m \in T : ~(m < n)
    BY <1>2 DEF OpToRel
  <1>4. n # 0 /\ n - 1 \in Nat /\ n - 1 < n
    BY DEF T
  <1>5. n - 1 \in S
    BY <1>3, <1>4
  <1>6. (n - 1) + 1 \in S
    BY <1>4, <1>5
  <1> QED
    BY <1>4, <1>6

\* The same of a step of a burst
LEMMA SteppedIsFine ==
    ASSUME NEW m, Fine(m), TokensAreFine
    PROVE  Fine(Stepped(m))
  <1>1. CASE Stops(m)
    BY <1>1 DEF Stepped
  <1>2. CASE ~Stops(m)
    <2>1. m.todo # <<>> /\ Stepped(m) = Performed(m)
      BY <1>2 DEF Stepped, Stops
    <2>2. ~Fell(m)
      BY <2>1 DEF Fell
    <2>3. PICK a : Doing(m, a)
      BY <2>2 DEF Fine
    <2> QED
      BY <2>1, <2>3, PerformedIsFine
  <1> QED
    BY <1>1, <1>2

\* A burst is as many steps.
LEMMA AdvanceIsFine ==
    ASSUME NEW m, Fine(m), TokensAreFine
    PROVE  Fine(Advance(m))
  <1> DEFINE one(x) == CHOOSE y \in {Stepped(before) : before \in {x}} : TRUE
             Is(f, b) == f = [n \in 0 .. b |-> IF n = 0 THEN m ELSE one(f[n - 1])]
             S == {b \in Nat : \E f : Is(f, b)}
  <1>1. \A x : one(x) = Stepped(x)
    OBVIOUS
  <1>2. Burst \in Nat
    BY ParserAssumption
  <1> HIDE DEF one
  <1>3. 0 \in S
    <2> DEFINE f == [n \in 0 .. 0 |-> m]
    <2>1. Is(f, 0)
      OBVIOUS
    <2> HIDE DEF f, Is
    <2> QED
      BY <2>1
  <1>4. ASSUME NEW b \in Nat, b \in S PROVE b + 1 \in S
    <2>1. PICK f : Is(f, b)
      BY <1>4
    <2> DEFINE g == [n \in 0 .. b + 1 |-> IF n = 0 THEN m ELSE one(f[n - 1])]
    <2>2. \A n \in 0 .. b : g[n] = f[n]
      BY <2>1
    <2>3. g = [n \in 0 .. b + 1 |-> IF n = 0 THEN m ELSE one(g[n - 1])]
      <3>1. \A n \in 0 .. b + 1 : n # 0 => n - 1 \in 0 .. b
        OBVIOUS
      <3>2. \A n \in 0 .. b + 1 : n # 0 => g[n - 1] = f[n - 1]
        BY <2>2, <3>1
      <3> QED
        BY <3>2
    <2>4. Is(g, b + 1)
      BY <2>3, Zenon
    <2> HIDE DEF Is, g
    <2> QED
      BY <2>4
  <1>5. PICK g : Is(g, Burst)
    <2> HIDE DEF Is
    <2>1. Nat \subseteq S
      <3> HIDE DEF S
      <3> QED
        BY <1>3, <1>4, NatSet, Zenon
    <2>2. Burst \in S
      BY <1>2, <2>1
    <2> QED
      BY <2>2
  <1> DEFINE F == CHOOSE f : Is(f, Burst)
             P == {n \in Nat : n <= Burst => Fine(F[n])}
  <1>6. Is(F, Burst)
    BY <1>5
  <1>7. Advance(m) = F[Burst]
    BY Zenon DEF Advance, one
  <1> HIDE DEF F
  <1>8. 0 \in P
    <2>1. F[0] = m
      BY <1>2, <1>6
    <2> QED
      BY <2>1
  <1>9. ASSUME NEW n \in Nat, n \in P PROVE n + 1 \in P
    <2>1. SUFFICES ASSUME n + 1 <= Burst PROVE Fine(F[n + 1])
      OBVIOUS
    <2>2. n + 1 \in 0 .. Burst /\ n + 1 # 0 /\ n + 1 - 1 = n /\ n <= Burst
      BY <1>2, <2>1
    <2>3. Fine(F[n])
      BY <1>9, <2>2
    <2>4. F[n + 1] = Stepped(F[n])
      BY <1>1, <1>6, <2>2
    <2> QED
      BY <2>3, <2>4, SteppedIsFine
  <1>10. Nat \subseteq P
    <2> HIDE DEF P
    <2> QED
      BY <1>8, <1>9, NatSet, Zenon
  <1> QED
    BY <1>2, <1>7, <1>10

(* The invariant: the machine has left to do what fits what it holds.      *)
ParserIsFine == input \in Inputs /\ Fine(parser)

\* Every file is made of tokens.
LEMMA InputIsFine ==
    ASSUME input \in Inputs
    PROVE  TokensAreFine
  BY ParserAssumption DEF TokensAreFine

\* The parser is fine before it starts.
LEMMA InitIsFine == Init => ParserIsFine
  <1> SUFFICES ASSUME Init PROVE ParserIsFine
    OBVIOUS
  <1> DEFINE a == Sh(0, 0, 0, 2)
  <1>1. /\ IsMachine(parser) /\ parser.todo = <<call("module")>> /\ parser.member = "none"
        /\ parser.values = <<>> /\ parser.errors = 0 /\ ~parser.crashed
        /\ parser.loops = 0 /\ parser.scopes = 0 /\ ~parser.dangling
    BY DEF Init, IsMachine, Fields
  <1>2. a.height = 0 /\ a.loops = 0 /\ a.scopes = 0 /\ a.mode = 2
    BY ShParts
  <1>3. a \in Shape /\ End \in Shape
    BY ShapesAre DEF End
  <1>4. "none" \notin NodeKinds
    BY DEF NodeKinds
  <1> HIDE DEF a
  <1>5. Matches(parser, a)
    <2>1. IsList(parser.values) /\ Len(parser.values) = 0
      BY <1>1, EmptyList
    <2>2. Whole({}) /\ Nodes({}, parser.values, 2)
      BY <1>1 DEF Whole, Nodes, Designates
    <2> QED
      BY <1>1, <1>2, <1>4, <2>1, <2>2 DEF Matches, Failed
  <1>6. Typed(<<call("module")>>, a, End, {})
    <2>1. Ok(call("module"), Sh(0, 0, 0, 2), Sh(1, 0, 0, 2), {})
      <3>1. "module" \in Pushers /\ 1 = 0 + 1 /\ 0 \in Nat /\ 2 \in 0 .. 2
        BY DEF Pushers
      <3> QED
        BY <3>1, OkPushes
    <2>2. Fits(End, End)
      BY ShFits DEF End
    <2> QED
      BY <1>3, <2>1, <2>2, Block1 DEF a, End
  <1> QED
    BY <1>1, <1>3, <1>5, <1>6 DEF Init, ParserIsFine, Fine, Doing

\* What the machine is to be fine, the rest has nothing to do with.
LEMMA FineSame ==
    ASSUME NEW m, Fine(m), NEW f \in {"at", "local", "skipped", "silent"}, NEW v
    PROVE  Fine([m EXCEPT ![f] = v]) /\ [m EXCEPT ![f] = v].todo = m.todo
  <1> DEFINE n == [m EXCEPT ![f] = v]
  <1>1. IsMachine(m)
    BY DEF Fine, Fell, Doing, Matches
  <1>2. IsMachine(n) /\ \A g \in Fields : g # f => n[g] = m[g]
    BY <1>1, FieldSet DEF Fields
  <1> HIDE DEF n
  <1>3. /\ \A g \in {"member", "values", "errors", "crashed", "loops", "scopes", "dangling"} : n[g] = m[g]
        /\ n.todo = m.todo /\ n.crashed = m.crashed /\ n.errors = m.errors /\ n.lapsed = m.lapsed
    BY <1>2 DEF Fields
  <1>4. CASE Fell(m)
    BY <1>2, <1>3, <1>4 DEF Fell, Fine, n
  <1>5. CASE \E a : Doing(m, a)
    <2>1. PICK a : Doing(m, a)
      BY <1>5
    <2>2. Matches(n, a)
      BY <1>2, <1>3, <2>1, MatchesSame DEF Doing
    <2> QED
      BY <1>3, <2>1, <2>2 DEF Doing, Fine, n
  <1> QED
    BY <1>4, <1>5 DEF Fine

\* The token that is kept is set.
LEMMA MemberSet ==
    ASSUME NEW m, IsMachine(m), NEW v
    PROVE  /\ IsMachine([m EXCEPT !.member = v]) /\ [m EXCEPT !.member = v].member = v
           /\ \A g \in Fields \ {"member"} : [m EXCEPT !.member = v][g] = m[g]
  BY FieldSet, SMTT(30) DEF Fields

\* A token is kept.
LEMMA FineMember ==
    ASSUME NEW m, Fine(m), m.todo # <<>>, NEW v, v \notin NodeKinds
    PROVE  Fine([m EXCEPT !.member = v])
  <1> DEFINE n == [m EXCEPT !.member = v]
  <1>1. PICK a : Doing(m, a)
    BY DEF Fine, Fell
  <1>2. IsMachine(n) /\ n.member = v /\ \A g \in Fields \ {"member"} : n[g] = m[g]
    <2>1. IsMachine(m)
      BY <1>1 DEF Doing, Matches
    <2> QED
      BY <2>1, MemberSet
  <1> HIDE DEF n
  <1>3. /\ n.values = m.values /\ n.errors = m.errors /\ n.crashed = m.crashed
        /\ n.loops = m.loops /\ n.scopes = m.scopes /\ n.dangling = m.dangling /\ n.todo = m.todo
    BY <1>2 DEF Fields
  <1>4. Matches(n, a)
    BY <1>1, <1>2, <1>3 DEF Matches, Doing
  <1> QED
    BY <1>1, <1>3, <1>4 DEF Doing, Fine, n

\* The instruction at which a burst ends is done with its token.
LEMMA FineTail ==
    ASSUME NEW m, Fine(m), m.todo # <<>>, Head(m.todo).op \in {"next", "resync"}
    PROVE  Fine([m EXCEPT !.todo = Tail(@)])
  <1> DEFINE i == Head(m.todo)
             rest == Tail(m.todo)
             n == [m EXCEPT !.todo = rest]
  <1>1. PICK a : Doing(m, a)
    BY DEF Fine, Fell
  <1>2. PICK G : Consistent(G) /\ Follows(G, m.todo, a, End, {})
    BY <1>1, TypedSays DEF Doing
  <1>3. PICK a1 \in Shape, b \in Shape, kk \in SUBSET Shape :
                /\ Fits(a, a1) /\ Works(G, i, a1, b, kk) /\ <<rest, b, End, {}>> \in G
    BY <1>2 DEF Follows
  <1>4. b = a1
    <2> HIDE DEF i
    <2>1. i.op \in {"next", "resync"}
      BY DEF i
    <2>2. Does(i, a1, b)
      BY <1>3, <2>1 DEF Works, IsLoop
    <2> QED
      BY <2>1, <2>2 DEF Does
  <1>5. Typed(rest, a1, End, {})
    BY <1>2, <1>3, <1>4 DEF Typed
  <1>6. Matches(m, a1) /\ IsMachine(m)
    BY <1>1, <1>3, MatchesFits DEF Doing, Matches
  <1> HIDE DEF rest, i
  <1>7. IsMachine(n) /\ n.todo = rest /\ \A g \in Fields \ {"todo"} : n[g] = m[g]
    BY <1>6, TodoSet
  <1> HIDE DEF n
  <1>8. \A g \in {"member", "values", "errors", "crashed", "loops", "scopes", "dangling"} : n[g] = m[g]
    BY <1>7 DEF Fields
  <1>9. Matches(n, a1)
    BY <1>6, <1>7, <1>8, MatchesSame
  <1>10. Fine(n)
    BY <1>3, <1>5, <1>7, <1>9 DEF Fine, Doing
  <1> QED
    BY <1>10 DEF n, rest

\* A token is consumed.
LEMMA SkippedIsFine ==
    ASSUME NEW m, Fine(m)
    PROVE  Fine(Skipped(m)) /\ Skipped(m).todo = m.todo
  <1> DEFINE v == IF m.at \in DOMAIN input.tokens THEN m.at + 1 ELSE m.at
  <1>1. Skipped(m) = [m EXCEPT !.at = v]
    BY DEF Skipped
  <1> HIDE DEF v
  <1> QED
    BY <1>1, FineSame

\* No step of the parser disturbs it.
LEMMA NextIsFine == ParserIsFine /\ [Next]_vars => ParserIsFine'
  <1> SUFFICES ASSUME ParserIsFine, [Next]_vars PROVE ParserIsFine'
    OBVIOUS
  <1>1. TokensAreFine /\ Fine(parser)
    BY InputIsFine DEF ParserIsFine
  <1>2. input' = input
    BY DEF Next, Proceed, Consume, Skip, Synced, vars
  <1>3. SUFFICES Fine(parser')
    BY <1>2 DEF ParserIsFine
  <1>4. CASE Proceed
    BY <1>1, <1>4, AdvanceIsFine DEF Proceed
  <1>5. CASE Consume
    <2> DEFINE i == Head(parser.todo)
               s == Skipped(parser)
               m == [s EXCEPT !.todo = Tail(@)]
               v == Peeked(parser)
               n == CASE i.to = "member" -> [m EXCEPT !.member = v]
                      [] i.to = "local" -> [m EXCEPT !.local = v]
                      [] OTHER -> m
    <2>1. parser.todo # <<>> /\ i.op = "next" /\ parser' = Advance(n)
      BY <1>5 DEF Consume
    <2>2. Fine(s) /\ s.todo = parser.todo
      BY <1>1, SkippedIsFine
    <2>3. v \notin NodeKinds
      BY <1>1, PeekedIsToken
    <2> HIDE DEF s, v
    <2>4. Fine([s EXCEPT !.member = v]) /\ [s EXCEPT !.member = v].todo = s.todo
      <3>1. Fine([s EXCEPT !.member = v])
        BY <2>1, <2>2, <2>3, FineMember
      <3>2. IsMachine(s)
        BY <2>2 DEF Fine, Fell, Doing, Matches
      <3>3. [s EXCEPT !.member = v].todo = s.todo
        BY <3>2, FieldSet DEF Fields
      <3> QED
        BY <3>1, <3>3
    <2>5. Fine(m)
      BY <2>1, <2>2, FineTail
    <2>6. Fine([m EXCEPT !.local = v])
      <3> HIDE DEF m
      <3> QED
        BY <2>5, FineSame
    <2>7. Fine([m EXCEPT !.member = v])
      <3> DEFINE p == [s EXCEPT !.member = v]
                 t == Tail(s.todo)
      <3>1. Fine([p EXCEPT !.todo = Tail(@)])
        <4> HIDE DEF p
        <4>1. p.todo = s.todo /\ Fine(p)
          BY <2>4 DEF p
        <4> QED
          BY <2>1, <2>2, <4>1, FineTail
      <3>2. [m EXCEPT !.member = v] = [p EXCEPT !.todo = Tail(@)]
        <4>1. m = [s EXCEPT !.todo = t] /\ p.todo = s.todo
          BY <2>4
        <4>2. [[s EXCEPT !.todo = t] EXCEPT !.member = v] = [[s EXCEPT !.member = v] EXCEPT !.todo = t]
          <5> HIDE DEF t
          <5> QED
            OBVIOUS
        <4> QED
          BY <4>1, <4>2
      <3> QED
        BY <3>1, <3>2
    <2>8. Fine(n)
      <3> HIDE DEF m, i
      <3>1. n \in {[m EXCEPT !.member = v], [m EXCEPT !.local = v], m}
        OBVIOUS
      <3> HIDE DEF n
      <3> QED
        BY <2>5, <2>6, <2>7, <3>1
    <2> HIDE DEF n
    <2> QED
      BY <1>1, <2>1, <2>8, AdvanceIsFine
  <1>6. CASE Skip
    <2> DEFINE s == Skipped(parser)
               v == s.silent \/ parser.errors = 0
               n == [s EXCEPT !.skipped = TRUE]
    <2>1. parser' = [n EXCEPT !.silent = v]
      <3>1. n.silent = s.silent
        <4>1. IsMachine(s)
          BY <1>1, SkippedIsFine DEF Fine, Fell, Doing, Matches
        <4> HIDE DEF s
        <4> QED
          BY <4>1, FieldSet DEF Fields
      <3>2. parser' = [n EXCEPT !.silent = n.silent \/ parser.errors = 0]
        BY <1>6 DEF Skip
      <3> HIDE DEF n
      <3> QED
        BY <3>1, <3>2
    <2>2. Fine(s)
      BY <1>1, SkippedIsFine
    <2> HIDE DEF s, v
    <2>3. Fine(n)
      BY <2>2, FineSame
    <2> HIDE DEF n
    <2> QED
      BY <2>1, <2>3, FineSame
  <1>7. CASE Synced
    <2> DEFINE m == [parser EXCEPT !.todo = Tail(@)]
               n == Advance(m)
    <2>1. parser.todo # <<>> /\ Head(parser.todo).op = "resync" /\ parser' = [n EXCEPT !.skipped = FALSE]
      BY <1>7 DEF Synced
    <2>2. Fine(m)
      BY <1>1, <2>1, FineTail
    <2> HIDE DEF m
    <2>3. Fine(n)
      BY <1>1, <2>2, AdvanceIsFine
    <2> HIDE DEF n
    <2> QED
      BY <2>1, <2>3, FineSame
  <1>8. CASE UNCHANGED vars
    BY <1>1, <1>8 DEF vars
  <1> QED
    BY <1>4, <1>5, <1>6, <1>7, <1>8 DEF Next

\* Whatever the file, the parser is fine: what is left to do fits the counts
\* and the values it holds, or it fell over a null, after an error or by one
\* of the lapses of semantic analysis.
THEOREM ParserStaysFine == Spec => []ParserIsFine
  BY InitIsFine, NextIsFine, PTL DEF Spec

\* For every file of tokens: a null pointer or a token that is gone is used
\* after an error was reported only, but for the left operand of IN before a
\* constant set that is no constant itself, the label of a CASE on a pointer
\* or record that names no type, and a procedure's own name in an array
\* length of its result, which semantic analysis falls over in silence.
THEOREM UndefinedAfterErrorOnly == Spec => []UndefinedOnlyAfterError
  <1>1. ParserIsFine => UndefinedOnlyAfterError
    <2> SUFFICES ASSUME Fine(parser), parser.crashed \/ parser.dangling
                 PROVE  parser.errors > 0 \/ parser.lapsed
      BY DEF ParserIsFine, UndefinedOnlyAfterError
    <2>1. CASE Fell(parser)
      BY <2>1 DEF Fell
    <2>2. CASE \E a : Doing(parser, a)
      <3>1. /\ parser.errors \in Nat /\ ~parser.crashed
            /\ parser.errors = 0 => ~parser.dangling
        BY <2>2 DEF Doing, Matches
      <3> QED
        BY <3>1
    <2> QED
      BY <2>1, <2>2 DEF Fine
  <1> QED
    BY <1>1, ParserStaysFine, PTL

\* For every file of tokens: at the end no loop or scope is open, and one
\* value is left, the module.
THEOREM CountsEndBalanced == Spec => []CountsAreBalanced
  <1>1. ParserIsFine => CountsAreBalanced
    <2> SUFFICES ASSUME Fine(parser), parser.todo = <<>>, ~parser.crashed
                 PROVE  parser.loops = 0 /\ parser.scopes = 0 /\ Len(parser.values) = 1
      BY DEF ParserIsFine, CountsAreBalanced, Ended
    <2>1. PICK a : Doing(parser, a)
      BY DEF Fine, Fell
    <2>2. PICK G : Follows(G, parser.todo, a, End, {})
      BY <2>1, TypedSays DEF Doing
    <2>3. Fits(a, End)
      BY <2>2 DEF Follows
    <2>4. a.height = 1 /\ a.loops = 0 /\ a.scopes = 0
      BY <2>3, ShParts DEF Fits, End
    <2> QED
      BY <2>1, <2>4 DEF Doing, Matches
  <1> QED
    BY <1>1, ParserStaysFine, PTL
=============================================================================
