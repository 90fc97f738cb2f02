------------------------- MODULE LambdaLifterProofs -------------------------
(***************************************************************************)
(* Proofs about the lambda lifter, for every module that the semantic      *)
(* analysis accepts, however deep its procedures are nested: what is       *)
(* lifted mentions nothing that is gone, and calls pass the environment    *)
(* that the callee was compiled for.                                       *)
(***************************************************************************)
EXTENDS LambdaLifter, SequenceTheorems, WellFoundedInduction, TLAPS

-----------------------------------------------------------------------------
(* Numbers and sequences                                                   *)

\* A set of numbers with an element has a least one.
LEMMA Least ==
    ASSUME NEW S \in SUBSET Nat, S # {}
    PROVE  \E x \in S : \A y \in S : x <= y
  <1>1. PICK x \in S : \A y \in S : ~(<<y, x>> \in OpToRel(<, Nat))
    BY NatLessThanWellFounded, WFMin
  <1>2. \A y \in S : ~(y < x)
    BY <1>1 DEF OpToRel
  <1> QED
    BY <1>2

\* Induction over the numbers up to m, for a set of them
LEMMA UpTo ==
    ASSUME NEW m \in Nat, NEW S, 0 \in S, \A n \in 1 .. m : n - 1 \in S => n \in S
    PROVE  0 .. m \subseteq S
  <1> DEFINE T == (0 .. m) \ S
  <1>1. SUFFICES ASSUME T # {} PROVE FALSE
    OBVIOUS
  <1>2. T \in SUBSET Nat
    OBVIOUS
  <1>3. PICK x \in T : \A y \in T : x <= y
    BY <1>1, <1>2, Least
  <1>4. x \in 1 .. m /\ x - 1 \in 0 .. m /\ ~(x <= x - 1)
    BY <1>3
  <1> QED
    BY <1>3, <1>4

\* Two sequences one after the other
LEMMA Concat ==
    ASSUME NEW s, IsSequence(s), NEW t, IsSequence(t)
    PROVE  /\ IsSequence(s \o t) /\ ToSet(s \o t) = ToSet(s) \cup ToSet(t)
           /\ Len(s \o t) = Len(s) + Len(t) /\ DOMAIN (s \o t) = 1 .. Len(s) + Len(t)
           /\ \A i \in 1 .. Len(s) + Len(t) : (s \o t)[i] = IF i <= Len(s) THEN s[i] ELSE t[i - Len(s)]
           /\ (s = <<>> => s \o t = t) /\ (t = <<>> => s \o t = s)
  <1> DEFINE X == ToSet(s) \cup ToSet(t)
  <1>1. s \in Seq(X) /\ t \in Seq(X)
    <2>1. s \in Seq(ToSet(s)) /\ t \in Seq(ToSet(t)) /\ ToSet(s) \subseteq X /\ ToSet(t) \subseteq X
      BY DEF IsSequence
    <2> HIDE DEF X
    <2> QED
      BY <2>1, SeqMonotonic
  <1>2. /\ Len(s \o t) = Len(s) + Len(t) /\ DOMAIN (s \o t) = 1 .. Len(s) + Len(t)
        /\ s \o t \in Seq(X) /\ Len(s) \in Nat /\ Len(t) \in Nat
        /\ DOMAIN s = 1 .. Len(s) /\ DOMAIN t = 1 .. Len(t)
        /\ \A i \in 1 .. Len(s) + Len(t) : (s \o t)[i] = IF i <= Len(s) THEN s[i] ELSE t[i - Len(s)]
    <2> HIDE DEF X
    <2> QED
      BY <1>1, ConcatProperties
  <1>3. ToSet(s \o t) \subseteq X
    BY <1>2 DEF ToSet
  <1>4. ASSUME NEW x \in ToSet(s) PROVE x \in ToSet(s \o t)
    <2>1. PICK i \in 1 .. Len(s) : x = s[i]
      BY <1>2, <1>4 DEF ToSet
    <2>2. i \in 1 .. Len(s) + Len(t) /\ (s \o t)[i] = x
      BY <1>2, <2>1
    <2> QED
      BY <1>2, <2>2 DEF ToSet
  <1>5. ASSUME NEW x \in ToSet(t) PROVE x \in ToSet(s \o t)
    <2>1. PICK i \in 1 .. Len(t) : x = t[i]
      BY <1>2, <1>5 DEF ToSet
    <2>2. Len(s) + i \in 1 .. Len(s) + Len(t) /\ (s \o t)[Len(s) + i] = x
      BY <1>2, <2>1
    <2> QED
      BY <1>2, <2>2 DEF ToSet
  <1>6. ToSet(s \o t) = X
    BY <1>3, <1>4, <1>5
  <1>7. IsSequence(s \o t)
    BY <1>2, <1>6 DEF IsSequence
  <1>8. (s = <<>> => s \o t = t) /\ (t = <<>> => s \o t = s)
    <2> HIDE DEF X
    <2> QED
      BY <1>1
  <1> QED
    BY <1>2, <1>6, <1>7, <1>8

\* Sequences of one and of no elements
LEMMA Single ==
    ASSUME NEW x
    PROVE  /\ IsSequence(<<x>>) /\ ToSet(<<x>>) = {x} /\ Len(<<x>>) = 1
           /\ IsSequence(<<>>) /\ ToSet(<<>>) = {} /\ Len(<<>>) = 0
  BY DEF IsSequence, ToSet

\* A sequence has its elements at 1 to its length.
LEMMA Sequences ==
    ASSUME NEW s, IsSequence(s)
    PROVE  Len(s) \in Nat /\ DOMAIN s = 1 .. Len(s) /\ \A i \in DOMAIN s : s[i] \in ToSet(s)
  BY DEF IsSequence, ToSet

\* Appending is adding a sequence of one element.
LEMMA Appending ==
    ASSUME NEW s, IsSequence(s), NEW x
    PROVE  Append(s, x) = s \o <<x>>
  <1>1. s \in Seq(ToSet(s) \cup {x})
    <2>1. s \in Seq(ToSet(s)) /\ ToSet(s) \subseteq ToSet(s) \cup {x}
      BY DEF IsSequence
    <2> QED
      BY <2>1, SeqMonotonic
  <1> QED
    BY <1>1, AppendIsConcat

\* A function on the numbers up to n is a sequence.
LEMMA Tuples ==
    ASSUME NEW n \in Nat, NEW s, s = [i \in 1 .. n |-> s[i]]
    PROVE  IsSequence(s) /\ Len(s) = n
  <1>1. s \in [1 .. n -> ToSet(s)]
    BY DEF ToSet
  <1>2. s \in Seq(ToSet(s))
    BY <1>1
  <1> QED
    BY <1>1, <1>2 DEF IsSequence

-----------------------------------------------------------------------------
(* Nesting                                                                 *)

Children(prog, p) == ToSet(prog.procs[p].nested)

\* A procedure is declared in one other at most.
LEMMA ParentIsOne ==
    ASSUME NEW prog, NestingOK(prog.procs), NEW p \in DOMAIN prog.procs, NEW q \in DOMAIN prog.procs,
           NEW c \in Children(prog, p), c \in Children(prog, q)
    PROVE  p = q
  <1>1. c \in ToSet(prog.procs[p].nested) \cap ToSet(prog.procs[q].nested)
    BY DEF Children
  <1> QED
    BY <1>1 DEF NestingOK

\* Nothing is around a procedure of the module.
LEMMA AroundRoot ==
    ASSUME NEW prog, NestingOK(prog.procs), NEW c \in DOMAIN prog.procs, prog.procs[c].scope = 1
    PROVE  Around(prog.procs, c) = {}
  <1> DEFINE P == prog.procs
             S == (DOMAIN P) \ {c}
  <1>1. SUFFICES ASSUME NEW r \in Around(P, c) PROVE FALSE
    OBVIOUS
  <1>2. r \in DOMAIN P /\ c \in Inside(P, r)
    BY <1>1 DEF Around
  <1>3. ASSUME NEW u \in S \cup {r} PROVE ToSet(P[u].nested) \subseteq S
    <2>1. u \in DOMAIN P /\ P[u].scope \in Nat \ {0} /\ ToSet(P[u].nested) \subseteq DOMAIN P
      BY <1>2 DEF NestingOK
    <2>2. \A q \in ToSet(P[u].nested) : P[q].scope = P[u].scope + 1
      BY <2>1 DEF NestingOK
    <2>3. c \notin ToSet(P[u].nested)
      BY <2>1, <2>2
    <2> QED
      BY <2>1, <2>3
  <1>4. S \in SUBSET DOMAIN P
    OBVIOUS
  <1>5. c \in S
    <2> HIDE DEF S
    <2> QED
      BY <1>2, <1>3, <1>4 DEF Inside
  <1> QED
    BY <1>5

\* What is around a procedure is the one that it is in or is around that.
LEMMA AroundChild ==
    ASSUME NEW prog, NestingOK(prog.procs), NEW p \in DOMAIN prog.procs, NEW c \in Children(prog, p),
           NEW r \in Around(prog.procs, c), r # p
    PROVE  r \in Around(prog.procs, p)
  <1> DEFINE P == prog.procs
  <1>1. r \in DOMAIN P /\ c \in Inside(P, r)
    BY DEF Around
  <1>2. SUFFICES ASSUME p \notin Inside(P, r) PROVE FALSE
    BY <1>1 DEF Around
  <1>3. PICK S \in SUBSET DOMAIN P : (\A u \in S \cup {r} : ToSet(P[u].nested) \subseteq S) /\ p \notin S
    BY <1>2 DEF Inside
  <1> DEFINE T == S \ {c}
  <1>4. ASSUME NEW u \in T \cup {r} PROVE ToSet(P[u].nested) \subseteq T
    <2>1. u \in DOMAIN P /\ u # p /\ ToSet(P[u].nested) \subseteq S
      BY <1>1, <1>3
    <2>2. c \notin ToSet(P[u].nested)
      BY <2>1, ParentIsOne DEF Children
    <2> QED
      BY <2>1, <2>2
  <1>5. T \in SUBSET DOMAIN P
    BY <1>3
  <1>6. c \in T
    <2> HIDE DEF T
    <2> QED
      BY <1>1, <1>4, <1>5 DEF Inside
  <1> QED
    BY <1>6

\* A procedure around another has nested ones.
LEMMA AroundIsNotEmpty ==
    ASSUME NEW prog, NEW c, NEW r \in Around(prog.procs, c)
    PROVE  r \in DOMAIN prog.procs /\ Children(prog, r) # {}
  <1>1. r \in DOMAIN prog.procs /\ c \in Inside(prog.procs, r)
    BY DEF Around
  <1>2. ASSUME Children(prog, r) = {} PROVE FALSE
    <2>1. \A u \in {} \cup {r} : ToSet(prog.procs[u].nested) \subseteq {}
      BY <1>2 DEF Children
    <2>2. {} \in SUBSET DOMAIN prog.procs
      OBVIOUS
    <2>3. c \in {}
      BY <1>1, <2>1, <2>2 DEF Inside
    <2> QED
      BY <2>3
  <1> QED
    BY <1>1, <1>2

-----------------------------------------------------------------------------
(* Selectors                                                               *)

\* The names of a list of fields are distinct.
Unambiguous(fields) ==
    \A i, j \in DOMAIN fields : fields[i].name = fields[j].name => i = j

\* The selectors of path lead from a value of type from to one of type to.
Leads(records, from, path, to) ==
    \E types \in [0 .. Len(path) -> {Integer} \cup DOMAIN records] :
        /\ types[0] = from /\ types[Len(path)] = to
        /\ \A i \in 1 .. Len(path) :
              /\ types[i - 1] \in DOMAIN records
              /\ Variable(path[i], types[i]) \in ToSet(records[types[i - 1]])

\* The field of a name is the one that has it.
LEMMA FieldIs ==
    ASSUME NEW fields, Unambiguous(fields), NEW x, NEW t, Variable(x, t) \in ToSet(fields)
    PROVE  x \in Names(fields) /\ FieldOf(fields, x) = Variable(x, t)
  <1>1. PICK i \in DOMAIN fields : fields[i] = Variable(x, t)
    BY DEF ToSet
  <1>2. fields[i].name = x
    BY <1>1 DEF Variable
  <1>3. \A j \in DOMAIN fields : fields[j].name = x => j = i
    BY <1>2 DEF Unambiguous
  <1>4. (CHOOSE j \in DOMAIN fields : fields[j].name = x) = i
    BY <1>2, <1>3
  <1> QED
    BY <1>1, <1>2, <1>4 DEF Names, FieldOf

\* Following the selectors gives the type that they lead to.
LEMMA TypeOfIs ==
    ASSUME NEW prog, NEW e, e.decl # Literal, NEW t, Len(e.path) \in Nat,
           \A r \in DOMAIN prog.records : Unambiguous(prog.records[r]),
           Leads(prog.records, DeclType(prog.procs, e.decl), e.path, t)
    PROVE  TypeOf(prog, e) = t
  <1> DEFINE n == Len(e.path)
             d == DeclType(prog.procs, e.decl)
             Next1(f, i) == FieldOf(prog.records[f[i - 1]], e.path[i]).type
             Types(f) == f = [i \in 0 .. n |-> IF i = 0 THEN d ELSE Next1(f, i)]
             type == CHOOSE f : Types(f)
  <1>1. PICK types \in [0 .. n -> {Integer} \cup DOMAIN prog.records] :
           /\ types[0] = d /\ types[n] = t
           /\ \A i \in 1 .. n :
                 /\ types[i - 1] \in DOMAIN prog.records
                 /\ Variable(e.path[i], types[i]) \in ToSet(prog.records[types[i - 1]])
    BY DEF Leads
  <1>2. \A i \in 1 .. n : Next1(types, i) = types[i]
    <2> TAKE i \in 1 .. n
    <2>1. /\ Unambiguous(prog.records[types[i - 1]])
          /\ Variable(e.path[i], types[i]) \in ToSet(prog.records[types[i - 1]])
      BY <1>1
    <2>2. FieldOf(prog.records[types[i - 1]], e.path[i]) = Variable(e.path[i], types[i])
      BY <2>1, FieldIs
    <2> QED
      BY <2>2 DEF Variable
  <1>3. \E f : Types(f)
    <2>1. Types(types)
      BY <1>1, <1>2
    <2> QED
      BY <2>1
  <1>4. Types(type)
    <2> HIDE DEF Types
    <2> QED
      BY <1>3
  <1>5. TypeOf(prog, e) = type[n]
    BY DEF TypeOf
  <1> HIDE DEF type
  <1> DEFINE S == {i \in 0 .. n : type[i] = types[i]}
  <1>6. 0 \in S
    BY <1>1, <1>4
  <1>7. ASSUME NEW i \in 1 .. n, i - 1 \in S PROVE i \in S
    <2>1. type[i - 1] = types[i - 1] /\ i \in 0 .. n /\ i # 0
      BY <1>7
    <2>2. type[i] = Next1(type, i)
      BY <1>4, <2>1
    <2>3. Next1(type, i) = Next1(types, i)
      BY <2>1
    <2> QED
      BY <2>1, <2>2, <2>3, <1>2, SMTT(40)
  <1>8. n \in S
    <2> HIDE DEF S
    <2>1. 0 .. n \subseteq S
      BY <1>6, <1>7, UpTo
    <2> QED
      BY <2>1
  <1> QED
    BY <1>1, <1>5, <1>8

\* The path over n outer environments to the field x
Outwards(n, x) == [i \in 1 .. n + 1 |-> IF i <= n THEN Super ELSE x]

\* The selectors that the lifter finds lead to a field of the type, if any do.
LEMMA FieldPathLeads ==
    ASSUME NEW prog, NEW env, NEW d, ScopeOf(prog, env) \in Nat, NEW n \in 0 .. ScopeOf(prog, env),
           \A r \in DOMAIN prog.records : Unambiguous(prog.records[r]),
           Leads(prog.records, DeclType(prog.procs, env), Outwards(n, d.name), DeclType(prog.procs, d))
    PROVE  \E m \in 0 .. n :
             /\ FieldPath(prog, env, d) = Outwards(m, d.name)
             /\ Leads(prog.records, DeclType(prog.procs, env), Outwards(m, d.name), DeclType(prog.procs, d))
  <1> DEFINE K == ScopeOf(prog, env)
             R == prog.records
             from == DeclType(prog.procs, env)
             to == DeclType(prog.procs, d)
             Further(f, i) == IF Super \in Names(R[f[i - 1]]) THEN FieldOf(R[f[i - 1]], Super).type ELSE f[i - 1]
             Climbs(f, k) == f = [i \in 0 .. k |-> IF i = 0 THEN from ELSE Further(f, i)]
             outer == CHOOSE f : Climbs(f, K)
             Found(i) == \E j \in DOMAIN R[outer[i]] : R[outer[i]][j] = Variable(d.name, to)
             Stops(i) == Found(i) \/ Super \notin Names(R[outer[i]])
             First(i) == Stops(i) /\ \A j \in 0 .. i - 1 : ~Stops(j)
             last == CHOOSE i \in 0 .. K : First(i)
  <1>1. FieldPath(prog, env, d) = [i \in 1 .. last |-> Super] \o IF Found(last) THEN <<d.name>> ELSE <<>>
    BY DEF FieldPath
  <1>2. Climbs(outer, K)
    <2> DEFINE S == {k \in 0 .. K : \E f : Climbs(f, k)}
    <2>1. 0 \in S
      <3> DEFINE zero == [i \in 0 .. 0 |-> from]
      <3>1. Climbs(zero, 0)
        OBVIOUS
      <3> HIDE DEF zero, Climbs
      <3> QED
        BY <3>1
    <2>2. ASSUME NEW k \in 1 .. K, k - 1 \in S PROVE k \in S
      <3>1. PICK f : Climbs(f, k - 1)
        BY <2>2
      <3> DEFINE g == [i \in 0 .. k |-> IF i < k THEN f[i] ELSE Further(f, k)]
      <3>2. \A i \in 1 .. k : g[i - 1] = f[i - 1]
        OBVIOUS
      <3>3. \A i \in 1 .. k : Further(g, i) = Further(f, i)
        <4> HIDE DEF g
        <4> TAKE i \in 1 .. k
        <4>1. g[i - 1] = f[i - 1]
          BY <3>2
        <4> QED
          BY <4>1
      <3>4. \A i \in 0 .. k : g[i] = IF i = 0 THEN from ELSE Further(g, i)
        <4> TAKE i \in 0 .. k
        <4> HIDE DEF Further
        <4>1. f[0] = from /\ (i \in 1 .. k - 1 => f[i] = Further(f, i))
          BY <3>1
        <4>2. CASE i = 0
          BY <4>1, <4>2
        <4>3. CASE i \in 1 .. k - 1
          BY <4>1, <4>3, <3>3
        <4>4. CASE i = k
          BY <4>4, <3>3
        <4> QED
          BY <4>2, <4>3, <4>4, SMTT(40)
      <3>5. Climbs(g, k)
        <4> HIDE DEF Further
        <4> QED
          BY <3>4
      <3> HIDE DEF g, Climbs
      <3> QED
        BY <3>5
    <2>3. K \in S
      <3> HIDE DEF S, K
      <3>1. K \in Nat
        BY DEF K
      <3>2. 0 .. K \subseteq S
        BY <2>1, <2>2, <3>1, UpTo
      <3> QED
        BY <3>1, <3>2
    <2> HIDE DEF Climbs
    <2> QED
      BY <2>3
  <1>3. PICK types \in [0 .. n + 1 -> {Integer} \cup DOMAIN R] :
           /\ types[0] = from /\ types[n + 1] = to
           /\ \A i \in 1 .. n + 1 :
                 /\ types[i - 1] \in DOMAIN R
                 /\ Variable(Outwards(n, d.name)[i], types[i]) \in ToSet(R[types[i - 1]])
    <2>1. Len(Outwards(n, d.name)) = n + 1
      BY DEF Outwards
    <2> QED
      BY <2>1 DEF Leads
  <1>4. ASSUME NEW i \in 1 .. n
        PROVE  /\ Super \in Names(R[types[i - 1]]) /\ FieldOf(R[types[i - 1]], Super).type = types[i]
    <2>1. Outwards(n, d.name)[i] = Super
      BY DEF Outwards
    <2>2. Unambiguous(R[types[i - 1]]) /\ Variable(Super, types[i]) \in ToSet(R[types[i - 1]])
      BY <1>3, <2>1
    <2>3. Super \in Names(R[types[i - 1]]) /\ FieldOf(R[types[i - 1]], Super) = Variable(Super, types[i])
      BY <2>2, FieldIs
    <2> QED
      BY <2>3 DEF Variable
  <1> HIDE DEF outer
  <1>5. ASSUME NEW i \in 0 .. n PROVE outer[i] = types[i]
    <2> DEFINE S == {j \in 0 .. n : outer[j] = types[j]}
    <2>1. 0 \in S
      BY <1>2, <1>3
    <2>2. ASSUME NEW j \in 1 .. n, j - 1 \in S PROVE j \in S
      <3>1. outer[j - 1] = types[j - 1] /\ j \in 0 .. K /\ j # 0
        BY <2>2
      <3>2. outer[j] = Further(outer, j)
        <4> HIDE DEF Further
        <4> QED
          BY <1>2, <3>1
      <3> QED
        BY <3>1, <3>2, <1>4
    <2> HIDE DEF S
    <2>3. 0 .. n \subseteq S
      BY <2>1, <2>2, UpTo, SMTT(40)
    <2>4. i \in S
      BY <2>3
    <2> QED
      BY <2>4 DEF S
  <1>6. Found(n)
    <2>1. Outwards(n, d.name)[n + 1] = d.name
      BY DEF Outwards
    <2>2. Variable(d.name, to) \in ToSet(R[types[n]])
      BY <1>3, <2>1
    <2>3. outer[n] = types[n]
      BY <1>5
    <2> QED
      BY <2>2, <2>3 DEF ToSet
  <1> HIDE DEF Found
  <1>7. \E i \in 0 .. K : First(i)
    <2> DEFINE X == {i \in 0 .. K : Stops(i)}
    <2>1. n \in X /\ X \in SUBSET Nat
      BY <1>6
    <2>2. PICK i \in X : \A j \in X : i <= j
      <3> HIDE DEF X
      <3> QED
        BY <2>1, Least
    <2>3. \A j \in 0 .. i - 1 : j \notin X
      BY <2>2
    <2>4. \A j \in 0 .. i - 1 : ~Stops(j)
      BY <2>2, <2>3
    <2> QED
      BY <2>2, <2>4
  <1>8. last \in 0 .. K /\ First(last)
    <2> HIDE DEF First
    <2> QED
      BY <1>7
  <1> HIDE DEF last
  <1>9. last <= n
    BY <1>6, <1>8
  <1>10. Found(last)
    <2>1. CASE last = n
      BY <2>1, <1>6
    <2>2. CASE last < n
      <3>1. last + 1 \in 1 .. n /\ last \in 0 .. n /\ (last + 1) - 1 = last
        BY <1>8, <2>2
      <3>2. Super \in Names(R[types[last]])
        BY <3>1, <1>4
      <3>3. Super \in Names(R[outer[last]])
        BY <3>1, <3>2, <1>5
      <3> QED
        BY <1>8, <3>3
    <2> QED
      BY <2>1, <2>2, <1>8, <1>9
  <1>11. FieldPath(prog, env, d) = Outwards(last, d.name)
    <2> DEFINE supers == [i \in 1 .. last |-> Super]
    <2>1. FieldPath(prog, env, d) = supers \o <<d.name>>
      BY <1>1, <1>10
    <2>2. supers \in Seq({Super, d.name}) /\ <<d.name>> \in Seq({Super, d.name}) /\ Len(supers) = last
      BY <1>8
    <2> HIDE DEF supers
    <2>3. /\ supers \o <<d.name>> \in Seq({Super, d.name})
          /\ Len(supers \o <<d.name>>) = last + 1
          /\ \A i \in 1 .. last + 1 : (supers \o <<d.name>>)[i] = IF i <= last THEN supers[i] ELSE <<d.name>>[i - last]
      BY <2>2, ConcatProperties
    <2>4. \A i \in 1 .. last + 1 : (supers \o <<d.name>>)[i] = Outwards(last, d.name)[i]
      <3> TAKE i \in 1 .. last + 1
      <3>1. i <= last => supers[i] = Super
        BY <1>8 DEF supers
      <3>2. ~(i <= last) => i - last = 1
        BY <1>8
      <3> QED
        BY <1>8, <2>3, <3>1, <3>2 DEF Outwards
    <2>5. Outwards(last, d.name) \in Seq({Super, d.name}) /\ Len(Outwards(last, d.name)) = last + 1
      BY <1>8 DEF Outwards
    <2> QED
      BY <2>1, <2>3, <2>4, <2>5, SeqEqual
  <1>12. Leads(R, from, Outwards(last, d.name), to)
    <2> DEFINE new == [i \in 0 .. last + 1 |-> IF i <= last THEN types[i] ELSE to]
    <2>1. Len(Outwards(last, d.name)) = last + 1
      BY <1>8 DEF Outwards
    <2>2. new \in [0 .. last + 1 -> {Integer} \cup DOMAIN R]
      BY <1>3, <1>8, <1>9
    <2>3. new[0] = from /\ new[last + 1] = to
      BY <1>3, <1>8
    <2>4. ASSUME NEW i \in 1 .. last + 1
          PROVE  new[i - 1] \in DOMAIN R /\ Variable(Outwards(last, d.name)[i], new[i]) \in ToSet(R[new[i - 1]])
      <3>1. i \in 1 .. n + 1 /\ i - 1 \in 0 .. n /\ new[i - 1] = types[i - 1]
        BY <1>8, <1>9
      <3>2. types[i - 1] \in DOMAIN R
        BY <1>3, <3>1
      <3>3. CASE i <= last
        <4>1. Outwards(last, d.name)[i] = Super /\ Outwards(n, d.name)[i] = Super /\ new[i] = types[i]
          BY <1>8, <1>9, <3>3 DEF Outwards
        <4>2. Variable(Outwards(n, d.name)[i], types[i]) \in ToSet(R[types[i - 1]])
          BY <1>3, <3>1
        <4> QED
          BY <3>1, <3>2, <4>1, <4>2
      <3>4. CASE i = last + 1
        <4>1. Outwards(last, d.name)[i] = d.name /\ new[i] = to /\ i - 1 = last
          BY <1>8, <3>4 DEF Outwards
        <4>2. outer[last] = types[last]
          BY <1>5, <1>8, <1>9
        <4>3. Variable(d.name, to) \in ToSet(R[types[last]])
          BY <1>10, <4>2 DEF Found, ToSet
        <4> QED
          BY <3>1, <3>2, <4>1, <4>3
      <3> QED
        BY <3>3, <3>4, <1>8
    <2> HIDE DEF new
    <2> QED
      BY <2>1, <2>2, <2>3, <2>4 DEF Leads
  <1> QED
    BY <1>8, <1>9, <1>11, <1>12

-----------------------------------------------------------------------------
(* The invariant                                                           *)

Seen == {program.order[i] : i \in 1 .. next - 1}
\* p has a record of its environment.
Shares(p) == program.records[p] # <<>>
\* The procedure that p is declared in has one: p gets it as a parameter.
Parent(p) == CHOOSE q \in ProcNames : p \in Children(source, q)
Given(p) == \E q \in ProcNames : p \in Children(source, q) /\ Shares(q)
Params(p) == source.procs[p].params \o IF Given(p) THEN <<Formal(Super, TRUE, Parent(p))>> ELSE <<>>
Vars(p) == (IF Shares(p) THEN <<Variable(This, p)>> ELSE <<>>) \o source.procs[p].vars

IsProgram(prog) == prog = Program(prog.procs, prog.order, prog.globals, prog.records, prog.body)
IsNode(node) == node = Procedure(node.scope, node.params, node.vars, node.nested, node.body)

(* The list of procedures grows: what is declared in one that was visited. *)
OrderInv ==
    /\ source \in Programs /\ next \in Nat \ {0} /\ crashed \in BOOLEAN
    /\ IsProgram(program) /\ program.globals = source.globals
    /\ DOMAIN program.procs = ProcNames /\ DOMAIN program.records = ProcNames
    /\ IsSequence(program.order) /\ ToSet(program.order) \subseteq ProcNames /\ Distinct(program.order)
    /\ next <= Len(program.order) + 1
    /\ \A p \in ProcNames :
          p \in ToSet(program.order) <=>
             source.procs[p].scope = 1 \/ \E q \in Seen : p \in ToSet(Moved(source.procs[q].nested))

NodesInv ==
    \A p \in ProcNames :
        LET node == program.procs[p] IN
        /\ IsNode(node)
        /\ node.params = Params(p) /\ node.vars = Vars(p)
        /\ p \in Seen => node.scope = 1 /\ node.nested = Stays(source.procs[p].nested)
        /\ p \notin Seen => /\ node.scope = source.procs[p].scope
                          /\ node.nested = source.procs[p].nested
                          /\ node.body = source.procs[p].body

RecordsInv ==
    \A p \in ProcNames :
        program.records[p] =
            IF p \in Seen /\ source.procs[p].nested # <<>> /\ (Params(p) # <<>> \/ source.procs[p].vars # <<>>)
            THEN Fields([params |-> Params(p), vars |-> source.procs[p].vars])
            ELSE <<>>

(* What is around a procedure was visited before it is on the list, and if *)
(* any of them shares something, the innermost does.                       *)
ChainInv ==
    \A p \in ToSet(program.order) : \A r \in Around(source.procs, p) :
        r \in Seen /\ (Shares(r) => Given(p))

(* What a procedure sees is in its environment or further out.             *)
ReachInv ==
    \A p \in Seen : Shares(p) =>
        \A r \in Sees(source.procs, p) : \A d \in Own(source.procs, r) :
            \E n \in 0 .. source.procs[p].scope - 1 :
                Leads(program.records, p, Outwards(n, d.name), Integer)

Typed(p, e, t) ==
    IF e.decl = Literal THEN t = Integer
    ELSE /\ e.decl.proc = Module \/ e.decl \in Own(program.procs, p)
         /\ Len(e.path) \in Nat
         /\ Leads(program.records, DeclType(program.procs, e.decl), e.path, t)

\* It is decided whether q gets an environment.
Settled(q) == \A r \in ProcNames : q \in Children(source, r) => r \in Seen
Environment(p) == IF Shares(p) THEN Decl(p, This) ELSE Decl(p, Super)

CallTyped(p, s) ==
    LET n == Len(source.procs[s.proc].params) IN
    /\ s.proc \in ProcNames /\ Settled(s.proc)
    /\ s.to = None \/ Typed(p, s.to, Integer)
    /\ DOMAIN s.args = 1 .. Len(s.args)
    /\ \A i \in 1 .. n : Typed(p, s.args[i], Integer)
    /\ IF Given(s.proc)
       THEN /\ Shares(p) \/ (source.procs[p].nested = <<>> /\ Given(p))
            /\ Len(s.args) = n + 1 /\ s.args[n + 1] = Plain(Environment(p))
       ELSE Len(s.args) = n

StatementTyped(p, s) ==
    \/ /\ s.op = "assign"
       /\ \E t \in {Integer} \cup ProcNames : Typed(p, s.lhs, t) /\ Typed(p, s.rhs, t)
    \/ s.op = "if" /\ Typed(p, s.cond, Integer)
    \/ s.op = "return" /\ (s.value = None \/ Typed(p, s.value, Integer))
    \/ s.op = "call" /\ CallTyped(p, s)

BodiesInv == \A p \in Seen : \A s \in ToSet(program.procs[p].body) : StatementTyped(p, s)

Inv == OrderInv /\ NodesInv /\ RecordsInv /\ ChainInv /\ ReachInv /\ BodiesInv

-----------------------------------------------------------------------------
(* What the semantic analysis has accepted                                 *)

\* The procedures in a procedure are one level further in.
LEMMA Nested ==
    ASSUME NEW prog, NestingOK(prog.procs), NEW p \in DOMAIN prog.procs
    PROVE  /\ prog.procs[p].scope \in Nat \ {0}
           /\ IsSequence(prog.procs[p].nested) /\ Distinct(prog.procs[p].nested)
           /\ Children(prog, p) \subseteq DOMAIN prog.procs
           /\ \A c \in Children(prog, p) : prog.procs[c].scope = prog.procs[p].scope + 1
           /\ prog.procs[p].scope > 1 => \E q \in DOMAIN prog.procs : p \in Children(prog, q)
  BY DEF NestingOK, Children

\* What the parser accepted of a procedure
LEMMA Declared ==
    ASSUME NEW prog \in Programs, NEW p \in DOMAIN prog.procs
    PROVE  /\ NestingOK(prog.procs)
           /\ IsProgram(prog) /\ IsNode(prog.procs[p])
           /\ IsSequence(prog.procs[p].params) /\ IsSequence(prog.procs[p].vars) /\ IsSequence(prog.procs[p].body)
           /\ \A i \in DOMAIN prog.procs[p].params :
                 prog.procs[p].params[i] = Formal(prog.procs[p].params[i].name, prog.procs[p].params[i].var, Integer)
           /\ \A i \in DOMAIN prog.procs[p].vars : prog.procs[p].vars[i] = Variable(prog.procs[p].vars[i].name, Integer)
           /\ Unambiguous(prog.procs[p].params \o prog.procs[p].vars)
           /\ \A i \in DOMAIN prog.procs[p].params : prog.procs[p].params[i].name \notin {This, Super}
           /\ \A i \in DOMAIN prog.procs[p].vars : prog.procs[p].vars[i].name \notin {This, Super}
           /\ \A s \in ToSet(prog.procs[p].body) : StatementOK(prog, p, s)
           /\ Decl(p, This) # Literal /\ Decl(p, Super) # Literal
           /\ p # Module /\ p # Integer
           /\ Module \notin DOMAIN prog.procs /\ Integer \notin DOMAIN prog.procs
  <1>1. /\ Accepted(prog)
        /\ {This, Super} \cap (Names(prog.procs[p].params) \cup Names(prog.procs[p].vars)) = {}
        /\ Literal \notin {Decl(p, This), Decl(p, Super)}
    BY ProgramsAssumption
  <1>2. DeclarationsOK(prog.procs[p])
    BY <1>1 DEF Accepted
  <1>3. /\ IsSequence(prog.procs[p].params) /\ IsSequence(prog.procs[p].vars)
        /\ \A i \in DOMAIN prog.procs[p].params :
              prog.procs[p].params[i] = Formal(prog.procs[p].params[i].name, prog.procs[p].params[i].var, Integer)
        /\ \A i \in DOMAIN prog.procs[p].vars : prog.procs[p].vars[i] = Variable(prog.procs[p].vars[i].name, Integer)
    BY <1>2, Sequences, SMTT(40) DEF DeclarationsOK
  <1>4. Unambiguous(prog.procs[p].params \o prog.procs[p].vars)
    BY <1>2 DEF DeclarationsOK, Unambiguous
  <1>5. /\ \A i \in DOMAIN prog.procs[p].params : prog.procs[p].params[i].name \notin {This, Super}
        /\ \A i \in DOMAIN prog.procs[p].vars : prog.procs[p].vars[i].name \notin {This, Super}
    BY <1>1 DEF Names
  <1> QED
    BY <1>1, <1>3, <1>4, <1>5 DEF Accepted, IsProgram, IsNode

\* What the parser accepted of a module
LEMMA Beginning ==
    ASSUME NEW prog \in Programs
    PROVE  /\ NestingOK(prog.procs) /\ IsSequence(prog.order) /\ Distinct(prog.order)
           /\ IsProgram(prog)
           /\ ToSet(prog.order) = {p \in DOMAIN prog.procs : prog.procs[p].scope = 1}
           /\ prog.records = [p \in DOMAIN prog.procs |-> <<>>]
  BY ProgramsAssumption DEF Accepted, IsProgram

\* Half of a list moves, the other half stays.
LEMMA Halves ==
    ASSUME NEW s, IsSequence(s), Distinct(s)
    PROVE  /\ IsSequence(Moved(s)) /\ Distinct(Moved(s)) /\ ToSet(Moved(s)) \subseteq ToSet(s)
           /\ IsSequence(Stays(s)) /\ ToSet(Stays(s)) \subseteq ToSet(s)
           /\ s = <<>> => Moved(s) = <<>> /\ Stays(s) = <<>>
           /\ Stays(s) = <<>> => ToSet(Moved(s)) = ToSet(s)
  <1> DEFINE n == Len(s)
             m == (n + 1) \div 2
             k == n \div 2
  <1>1. n \in Nat /\ DOMAIN s = 1 .. n /\ \A i \in 1 .. n : s[i] \in ToSet(s)
    BY Sequences
  <1>2. m \in Nat /\ 2 * m <= n + 1 /\ k \in Nat /\ 2 * k <= n /\ (k = 0 => n <= 1) /\ (n = 1 => m = 1)
        /\ (n = 0 => m = 0 /\ k = 0)
    BY <1>1
  <1>3. Moved(s) = [i \in 1 .. m |-> s[2 * i - 1]] /\ Stays(s) = [i \in 1 .. k |-> s[2 * i]]
    BY DEF Moved, Stays
  <1> HIDE DEF m, k
  <1>4. /\ IsSequence(Moved(s)) /\ DOMAIN Moved(s) = 1 .. m /\ \A i \in 1 .. m : Moved(s)[i] = s[2 * i - 1]
        /\ IsSequence(Stays(s)) /\ Len(Stays(s)) = k /\ DOMAIN Stays(s) = 1 .. k /\ \A i \in 1 .. k : Stays(s)[i] = s[2 * i]
    BY <1>2, <1>3, Tuples
  <1>5. \A i \in 1 .. m : 2 * i - 1 \in 1 .. n
    BY <1>1, <1>2
  <1>6. \A i \in 1 .. k : 2 * i \in 1 .. n
    BY <1>1, <1>2
  <1>7. ToSet(Moved(s)) \subseteq ToSet(s) /\ ToSet(Stays(s)) \subseteq ToSet(s)
    <2>1. \A i \in 1 .. m : Moved(s)[i] \in ToSet(s)
      BY <1>1, <1>4, <1>5
    <2>2. \A i \in 1 .. k : Stays(s)[i] \in ToSet(s)
      BY <1>1, <1>4, <1>6
    <2>3. ToSet(Moved(s)) = {Moved(s)[i] : i \in 1 .. m} /\ ToSet(Stays(s)) = {Stays(s)[i] : i \in 1 .. k}
      BY <1>4 DEF ToSet
    <2> QED
      BY <2>1, <2>2, <2>3
  <1>8. Distinct(Moved(s))
    <2>1. SUFFICES ASSUME NEW i \in 1 .. m, NEW j \in 1 .. m, Moved(s)[i] = Moved(s)[j] PROVE i = j
      BY <1>4 DEF Distinct
    <2>2. s[2 * i - 1] = s[2 * j - 1] /\ 2 * i - 1 \in DOMAIN s /\ 2 * j - 1 \in DOMAIN s
      BY <1>1, <1>4, <1>5, <2>1
    <2>3. 2 * i - 1 = 2 * j - 1
      BY <2>2 DEF Distinct
    <2> QED
      BY <2>3, <1>2
  <1>9. s = <<>> => Moved(s) = <<>> /\ Stays(s) = <<>>
    BY <1>1, <1>2, <1>3
  <1>10. ASSUME Stays(s) = <<>> PROVE ToSet(s) \subseteq ToSet(Moved(s))
    <2>1. k = 0 /\ n <= 1
      BY <1>2, <1>4, <1>10
    <2>2. \A i \in 1 .. n : i = 1 /\ 1 \in 1 .. m /\ 2 * 1 - 1 = 1
      BY <1>1, <1>2, <2>1
    <2>3. \A i \in 1 .. n : s[i] \in ToSet(Moved(s))
      BY <1>4, <2>2 DEF ToSet
    <2> QED
      BY <1>1, <2>3 DEF ToSet
  <1> QED
    BY <1>4, <1>7, <1>8, <1>9, <1>10

-----------------------------------------------------------------------------
(* What a visit changes                                                    *)

SameModule(prog, new) ==
    /\ IsProgram(new) /\ new.globals = prog.globals /\ new.body = prog.body
    /\ DOMAIN new.procs = DOMAIN prog.procs /\ DOMAIN new.records = DOMAIN prog.records

\* What only the body, the list, or the scope of p changes
Reworked(prog, new, p) ==
    /\ SameModule(prog, new) /\ new.records = prog.records /\ IsNode(new.procs[p])
    /\ \A q \in DOMAIN prog.procs : q # p => new.procs[q] = prog.procs[q]

Longer(order, more) == order \o more

\* With a new body a procedure is a procedure, and nothing else changes.
LEMMA BodySet ==
    ASSUME NEW prog, IsProgram(prog), NEW p \in DOMAIN prog.procs, IsNode(prog.procs[p]), NEW b,
           NEW new, new = [prog EXCEPT !.procs[p].body = b]
    PROVE  /\ Reworked(prog, new, p)
           /\ new.order = prog.order /\ new.procs[p] = [prog.procs[p] EXCEPT !.body = b]
  <1>1. new.procs = [prog.procs EXCEPT ![p].body = b] /\ new.order = prog.order /\ new.records = prog.records
        /\ new.globals = prog.globals /\ new.body = prog.body /\ IsProgram(new)
    BY DEF Program, IsProgram
  <1>2. IsNode([prog.procs[p] EXCEPT !.body = b])
    BY DEF Procedure, IsNode
  <1> QED
    BY <1>1, <1>2 DEF SameModule, Reworked

\* The same of moving nested procedures to the module
LEMMA Hoisted ==
    ASSUME NEW prog, IsProgram(prog), NEW p \in DOMAIN prog.procs, IsNode(prog.procs[p]),
           NEW new, new = Hoist(prog, p)
    PROVE  /\ Reworked(prog, new, p)
           /\ new.order = Longer(prog.order, Moved(prog.procs[p].nested))
           /\ new.procs[p] = [prog.procs[p] EXCEPT !.nested = Stays(@)]
  <1> DEFINE list == prog.order \o Moved(prog.procs[p].nested)
             left == Stays(prog.procs[p].nested)
  <1>1. new = [prog EXCEPT !.procs[p].nested = left, !.order = list]
    BY DEF Hoist, IsProgram, Program
  <1> HIDE DEF list, left
  <1>2. new.procs = [prog.procs EXCEPT ![p].nested = left] /\ new.order = list /\ new.records = prog.records
        /\ new.globals = prog.globals /\ new.body = prog.body /\ IsProgram(new)
    BY <1>1 DEF Program, IsProgram
  <1>3. IsNode([prog.procs[p] EXCEPT !.nested = left])
    BY DEF Procedure, IsNode
  <1>4. new.order = Longer(prog.order, Moved(prog.procs[p].nested))
    BY <1>2 DEF list, Longer
  <1>5. new.procs[p] = [prog.procs[p] EXCEPT !.nested = left]
    BY <1>2
  <1>6. new.procs[p] = [prog.procs[p] EXCEPT !.nested = Stays(@)]
    BY <1>5 DEF left
  <1>7. \A q \in DOMAIN prog.procs : q # p => new.procs[q] = prog.procs[q]
    BY <1>2
  <1>8. SameModule(prog, new)
    BY <1>2 DEF SameModule
  <1> QED
    BY <1>2, <1>3, <1>4, <1>5, <1>6, <1>7, <1>8 DEF Reworked

\* The same of the level that it is declared at
LEMMA ScopeSet ==
    ASSUME NEW prog, IsProgram(prog), NEW p \in DOMAIN prog.procs, IsNode(prog.procs[p]),
           NEW new, new = Settle(prog, p)
    PROVE  /\ Reworked(prog, new, p)
           /\ new.order = prog.order /\ new.procs[p] = [prog.procs[p] EXCEPT !.scope = 1]
  <1>1. new.procs = [prog.procs EXCEPT ![p].scope = 1] /\ new.order = prog.order /\ new.records = prog.records
        /\ new.globals = prog.globals /\ new.body = prog.body /\ IsProgram(new)
    BY DEF Program, IsProgram, Settle, ModuleScope
  <1>2. IsNode([prog.procs[p] EXCEPT !.scope = 1])
    BY DEF Procedure, IsNode
  <1> QED
    BY <1>1, <1>2 DEF SameModule, Reworked

\* With an environment, p has a record and its procedures a parameter more.
LEMMA EnvironmentAdded ==
    ASSUME NEW prog, IsProgram(prog), NEW p \in DOMAIN prog.procs, IsNode(prog.procs[p]),
           p \notin Children(prog, p), p \in DOMAIN prog.records
    PROVE  LET new == AddEnvironment(prog, p) IN
           /\ SameModule(prog, new) /\ new.order = prog.order
           /\ new.records = [prog.records EXCEPT ![p] = Fields(prog.procs[p])]
           /\ new.procs[p] = [prog.procs[p] EXCEPT !.vars = <<Variable(This, p)>> \o @] /\ IsNode(new.procs[p])
           /\ \A q \in DOMAIN prog.procs : q # p =>
                 new.procs[q] = IF q \in Children(prog, p) THEN [prog.procs[q] EXCEPT !.params = Append(@, Formal(Super, TRUE, p))]
                                ELSE prog.procs[q]
  <1> DEFINE new == AddEnvironment(prog, p)
             child(q) == [prog.procs[q] EXCEPT !.params = Append(@, Formal(Super, TRUE, p))]
             self == [prog.procs[p] EXCEPT !.vars = <<Variable(This, p)>> \o @]
             procs == [q \in DOMAIN prog.procs |->
                        CASE q \in ToSet(prog.procs[p].nested) -> child(q)
                          [] q = p -> [prog.procs[q] EXCEPT !.vars = <<Variable(This, p)>> \o @]
                          [] OTHER -> prog.procs[q]]
  <1>1. new = [prog EXCEPT !.records[p] = Fields(prog.procs[p]), !.procs = procs]
    BY DEF AddEnvironment
  <1>2. procs[p] = self /\ \A q \in DOMAIN prog.procs : q # p => procs[q] = IF q \in Children(prog, p) THEN child(q) ELSE prog.procs[q]
    BY DEF Children
  <1>3. DOMAIN procs = DOMAIN prog.procs
    OBVIOUS
  <1> HIDE DEF procs
  <1>4. new.procs = procs /\ new.order = prog.order /\ new.records = [prog.records EXCEPT ![p] = Fields(prog.procs[p])]
        /\ new.globals = prog.globals /\ new.body = prog.body /\ IsProgram(new)
    BY <1>1 DEF Program, IsProgram
  <1>5. IsNode(self)
    <2> DEFINE w == <<Variable(This, p)>> \o prog.procs[p].vars
    <2>1. self = [prog.procs[p] EXCEPT !.vars = w]
      OBVIOUS
    <2> HIDE DEF w
    <2>2. IsNode([prog.procs[p] EXCEPT !.vars = w])
      BY DEF Procedure, IsNode
    <2> QED
      BY <2>1, <2>2
  <1> HIDE DEF self, child, new
  <1>6. DOMAIN new.records = DOMAIN prog.records
    BY <1>4
  <1>7. SameModule(prog, new)
    BY <1>3, <1>4, <1>6 DEF SameModule
  <1> QED
    BY <1>2, <1>4, <1>5, <1>7 DEF self, child, new

Sharing(p) == source.procs[p].nested # <<>> /\ (Params(p) # <<>> \/ source.procs[p].vars # <<>>)
Environments(p) == Fields([params |-> Params(p), vars |-> source.procs[p].vars])

\* A visit of p that leaves it the body.
Visits(p, body) ==
    /\ source' = source /\ next' = next + 1 /\ crashed' \in BOOLEAN
    /\ SameModule(program, program') /\ program'.order = program.order \o Moved(source.procs[p].nested)
    /\ program'.records[p] = IF Sharing(p) THEN Environments(p) ELSE <<>>
    /\ LET node == program'.procs[p] IN
       /\ IsNode(node) /\ node.scope = 1 /\ node.params = Params(p)
       /\ node.vars = IF Sharing(p) THEN <<Variable(This, p)>> \o source.procs[p].vars ELSE source.procs[p].vars
       /\ node.nested = Stays(source.procs[p].nested) /\ node.body = body
    /\ \A q \in ProcNames : q # p =>
          /\ program'.records[q] = program.records[q]
          /\ program'.procs[q] = IF Sharing(p) /\ q \in Children(source, p)
                                 THEN [program.procs[q] EXCEPT !.params = Append(@, Formal(Super, TRUE, p))]
                                 ELSE program.procs[q]

\* Adding nothing to the list of procedures leaves it alone.
LEMMA ListOnly ==
    ASSUME OrderInv
    PROVE  program.order \o <<>> = program.order
  BY Single, Concat DEF OrderInv

\* The procedure that is visited is as it was declared, but for _super.
LEMMA Visiting ==
    ASSUME OrderInv, NodesInv, RecordsInv, ~Done
    PROVE  LET n == source.procs[Name] IN
           /\ Name \in ProcNames /\ Name \in ToSet(program.order) /\ Name \notin Seen
           /\ program.records[Name] = <<>>
           /\ IsNode(Node) /\ Node.scope = n.scope /\ Node.params = Params(Name) /\ Node.vars = n.vars
           /\ Node.nested = n.nested /\ Node.body = n.body
           /\ Name \notin Children(source, Name)
           /\ Node = program.procs[Name] /\ Name \in DOMAIN program.procs /\ Name \in DOMAIN program.records
           /\ IsProgram(program)
  <1>1. next \in 1 .. Len(program.order) /\ IsSequence(program.order)
    BY DEF OrderInv, Done, IsSequence
  <1>2. Name \in ToSet(program.order) /\ next \in DOMAIN program.order
    BY <1>1, Sequences DEF Name
  <1>3. NestingOK(source.procs)
    BY Beginning DEF OrderInv, ProcNames
  <1>4. Name \in ProcNames
    BY <1>2 DEF OrderInv
  <1>5. Name \notin Seen
    <2>1. SUFFICES ASSUME NEW i \in 1 .. next - 1, Name = program.order[i] PROVE FALSE
      BY DEF Seen
    <2>2. i \in DOMAIN program.order /\ i # next
      BY <1>1, Sequences
    <2> QED
      BY <1>2, <2>1, <2>2 DEF Name, OrderInv, Distinct
  <1>6. program.records[Name] = <<>>
    BY <1>4, <1>5 DEF RecordsInv
  <1>7. Vars(Name) = source.procs[Name].vars
    BY <1>4, <1>6, Declared, Single, Concat DEF OrderInv, ProcNames, Vars, Shares
  <1>8. LET n == source.procs[Name] IN
        /\ IsNode(Node) /\ Node.scope = n.scope /\ Node.params = Params(Name) /\ Node.vars = n.vars
        /\ Node.nested = n.nested /\ Node.body = n.body
    BY <1>4, <1>5, <1>7 DEF NodesInv, Node
  <1>9. Name \notin Children(source, Name)
    BY <1>3, <1>4, Nested DEF ProcNames
  <1> QED
    BY <1>2, <1>4, <1>5, <1>6, <1>8, <1>9 DEF OrderInv, Node

\* Procedures of the module get nothing.
LEMMA RootIsNotGiven ==
    ASSUME OrderInv, NEW p \in ProcNames, source.procs[p].scope = 1
    PROVE  ~Given(p)
  <1>1. NestingOK(source.procs) /\ p \in DOMAIN source.procs
    BY Beginning DEF OrderInv, ProcNames
  <1>2. ASSUME NEW q \in ProcNames, p \in Children(source, q) PROVE FALSE
    <2>1. source.procs[q].scope \in Nat \ {0} /\ source.procs[p].scope = source.procs[q].scope + 1
      BY <1>1, <1>2, Nested DEF ProcNames
    <2> QED
      BY <2>1
  <1> QED
    BY <1>2 DEF Given

\* Only what is given has _super.
LEMMA GivenIsNamed ==
    ASSUME OrderInv, NEW p \in ProcNames
    PROVE  /\ Given(p) <=> Super \in Names(Params(p))
           /\ Given(p) => Params(p) # <<>>
           /\ ~Given(p) => Params(p) = source.procs[p].params
           /\ Given(p) => Params(p) = source.procs[p].params \o <<Formal(Super, TRUE, Parent(p))>>
           /\ IsSequence(Params(p)) /\ IsSequence(source.procs[p].params)
           /\ Len(Params(p)) = Len(source.procs[p].params) + IF Given(p) THEN 1 ELSE 0
           /\ DOMAIN Params(p) = 1 .. Len(Params(p))
           /\ \A i \in 1 .. Len(source.procs[p].params) : Params(p)[i] = source.procs[p].params[i]
           /\ Given(p) => Params(p)[Len(source.procs[p].params) + 1] = Formal(Super, TRUE, Parent(p))
  <1> DEFINE s == source.procs[p].params
             t == IF Given(p) THEN <<Formal(Super, TRUE, Parent(p))>> ELSE <<>>
             u == s \o t
  <1>1. IsSequence(s) /\ Len(s) \in Nat /\ DOMAIN s = 1 .. Len(s) /\ \A i \in DOMAIN s : s[i].name \notin {This, Super}
    BY Declared, Sequences DEF OrderInv, ProcNames
  <1>2. IsSequence(t) /\ Len(t) = (IF Given(p) THEN 1 ELSE 0) /\ (Given(p) => t[1] = Formal(Super, TRUE, Parent(p)))
        /\ (~Given(p) => t = <<>>)
    BY Single
  <1>3. Params(p) = u
    BY DEF Params
  <1> HIDE DEF s, t
  <1>4. /\ IsSequence(u) /\ Len(u) = Len(s) + Len(t) /\ DOMAIN u = 1 .. Len(s) + Len(t)
        /\ \A i \in 1 .. Len(s) + Len(t) : u[i] = IF i <= Len(s) THEN s[i] ELSE t[i - Len(s)]
        /\ (t = <<>> => u = s)
    BY <1>1, <1>2, Concat
  <1> HIDE DEF u
  <1>5. \A i \in 1 .. Len(s) : Params(p)[i] = s[i]
    BY <1>1, <1>2, <1>3, <1>4
  <1>6. ASSUME Given(p) PROVE Params(p)[Len(s) + 1] = Formal(Super, TRUE, Parent(p))
    <2>1. Len(t) = 1 /\ t[1] = Formal(Super, TRUE, Parent(p))
      BY <1>2, <1>6
    <2>2. Len(s) + 1 \in 1 .. Len(s) + Len(t) /\ ~(Len(s) + 1 <= Len(s)) /\ (Len(s) + 1) - Len(s) = 1
      BY <1>1, <2>1
    <2> QED
      BY <1>3, <1>4, <2>1, <2>2
  <1>7. Given(p) => Super \in Names(Params(p))
    <2>1. Formal(Super, TRUE, Parent(p)).name = Super
      BY DEF Formal
    <2>2. Given(p) => Len(s) + 1 \in DOMAIN Params(p)
      BY <1>1, <1>2, <1>3, <1>4
    <2> QED
      BY <1>6, <2>1, <2>2 DEF Names
  <1>8. ~Given(p) => Super \notin Names(Params(p))
    BY <1>1, <1>2, <1>3, <1>4 DEF Names
  <1>9. Given(p) => Params(p) # <<>>
    BY <1>7, Single DEF Names
  <1>10. Given(p) => Params(p) = s \o <<Formal(Super, TRUE, Parent(p))>>
    BY <1>3 DEF t, u
  <1> QED
    BY <1>1, <1>2, <1>3, <1>4, <1>5, <1>6, <1>7, <1>8, <1>9, <1>10 DEF s

\* Each action visits the next procedure.
LEMMA PlainVisit ==
    ASSUME OrderInv, NodesInv, RecordsInv, VisitPlainProcedure
    PROVE  /\ ~Done /\ ~Given(Name) /\ source.procs[Name].nested = <<>>
           /\ Visits(Name, source.procs[Name].body)
  <1> DEFINE p == Name
             n == source.procs[p]
  <1>1. ~Done /\ Node.nested = <<>> /\ program' = Settle(program, p) /\ next' = next + 1
        /\ UNCHANGED <<source, crashed>> /\ Node.scope = 1
    BY DEF VisitPlainProcedure, Visited, ModuleScope
  <1>2. /\ p \in ProcNames /\ p \notin Seen /\ program.records[p] = <<>>
        /\ IsNode(Node) /\ Node.scope = n.scope /\ Node.params = Params(p) /\ Node.vars = n.vars
        /\ Node.nested = n.nested /\ Node.body = n.body
        /\ Node = program.procs[p] /\ p \in DOMAIN program.procs
        /\ IsProgram(program)
    BY <1>1, Visiting
  <1>3. n.nested = <<>> /\ n.scope = 1
    BY <1>1, <1>2
  <1>4. /\ SameModule(program, program') /\ program'.order = program.order /\ program'.records = program.records
        /\ program'.procs[p] = [program.procs[p] EXCEPT !.scope = 1] /\ IsNode(program'.procs[p])
        /\ \A q \in DOMAIN program.procs : q # p => program'.procs[q] = program.procs[q]
    BY <1>1, <1>2, ScopeSet DEF Reworked
  <1>5. ~Sharing(p)
    BY <1>3 DEF Sharing
  <1>6. Moved(n.nested) = <<>> /\ Stays(n.nested) = <<>>
    BY <1>3, Single DEF Moved, Stays
  <1>7. program'.order = program.order \o Moved(n.nested)
    BY <1>4, <1>6, ListOnly
  <1>8. LET node == program'.procs[p] IN
        /\ node.scope = 1 /\ node.params = Params(p) /\ node.vars = n.vars /\ node.nested = Stays(n.nested)
        /\ node.body = n.body
    <2>1. n.nested = Stays(n.nested)
      BY <1>3, <1>6
    <2>2. Node = Procedure(Node.scope, Node.params, Node.vars, Node.nested, Node.body)
      BY <1>2, SMTT(40) DEF IsNode
    <2> QED
      BY <1>2, <1>4, <2>1, <2>2 DEF Procedure
  <1>9. Visits(p, n.body)
    <2>1. crashed' \in BOOLEAN /\ source' = source /\ next' = next + 1 /\ DOMAIN program.procs = ProcNames
      BY <1>1 DEF OrderInv
    <2> QED
      BY <1>2, <1>4, <1>5, <1>7, <1>8, <2>1 DEF Visits
  <1> QED
    BY <1>1, <1>2, <1>3, <1>9, RootIsNotGiven

\* A procedure with nothing to share: what is nested moves, nothing else changes.
LEMMA WithoutVisit ==
    ASSUME OrderInv, NodesInv, RecordsInv, LiftSuperWithoutEnvironment
    PROVE  /\ ~Done /\ ~Given(Name) /\ ~Sharing(Name) /\ source.procs[Name].nested # <<>>
           /\ Visits(Name, source.procs[Name].body)
  <1> DEFINE p == Name
             n == source.procs[p]
             mid == Hoist(program, p)
  <1>1. ~Done /\ Node.nested # <<>> /\ Node.params = <<>> /\ Node.vars = <<>> /\ program' = Settle(mid, p)
        /\ next' = next + 1 /\ UNCHANGED <<source, crashed>>
    BY DEF LiftSuperWithoutEnvironment, Visited
  <1>2. /\ p \in ProcNames /\ p \notin Seen /\ program.records[p] = <<>>
        /\ IsNode(Node) /\ Node.scope = n.scope /\ Node.params = Params(p) /\ Node.vars = n.vars
        /\ Node.nested = n.nested /\ Node.body = n.body
        /\ Node = program.procs[p] /\ p \in DOMAIN program.procs
        /\ IsProgram(program)
    BY <1>1, Visiting
  <1>3. n.nested # <<>> /\ n.vars = <<>> /\ Params(p) = <<>>
    BY <1>1, <1>2
  <1>4. /\ SameModule(program, mid) /\ mid.order = program.order \o Moved(program.procs[p].nested)
        /\ mid.records = program.records
        /\ mid.procs[p] = [program.procs[p] EXCEPT !.nested = Stays(@)] /\ IsNode(mid.procs[p])
        /\ \A q \in DOMAIN program.procs : q # p => mid.procs[q] = program.procs[q]
    <2>1. IsProgram(program) /\ p \in DOMAIN program.procs /\ IsNode(program.procs[p]) /\ mid = Hoist(program, p)
      BY <1>2
    <2>2. Reworked(program, mid, p) /\ mid.order = Longer(program.order, Moved(program.procs[p].nested)) /\ mid.procs[p] = [program.procs[p] EXCEPT !.nested = Stays(@)]
      BY ONLY <2>1, Hoisted
    <2> QED
      BY <2>2 DEF Reworked, Longer
  <1> HIDE DEF mid
  <1>5. IsProgram(mid) /\ p \in DOMAIN mid.procs /\ DOMAIN mid.procs = DOMAIN program.procs
    BY <1>2, <1>4 DEF SameModule
  <1>6. /\ SameModule(mid, program') /\ program'.order = mid.order /\ program'.records = mid.records
        /\ program'.procs[p] = [mid.procs[p] EXCEPT !.scope = 1] /\ IsNode(program'.procs[p])
        /\ \A q \in DOMAIN mid.procs : q # p => program'.procs[q] = mid.procs[q]
    <2>1. IsProgram(mid) /\ p \in DOMAIN mid.procs /\ IsNode(mid.procs[p]) /\ program' = Settle(mid, p)
      BY <1>1, <1>4, <1>5
    <2>2. Reworked(mid, program', p) /\ program'.order = mid.order /\ program'.procs[p] = [mid.procs[p] EXCEPT !.scope = 1]
      BY ONLY <2>1, ScopeSet
    <2> QED
      BY <2>2 DEF Reworked
  <1>7. ~Sharing(p)
    BY <1>3 DEF Sharing
  <1>8. program'.order = program.order \o Moved(n.nested) /\ program'.records = program.records
        /\ SameModule(program, program')
    <2>1. program.procs[p].nested = n.nested
      BY <1>2
    <2> QED
      BY <1>4, <1>6, <2>1 DEF SameModule
  <1>9. LET node == program'.procs[p] IN
        /\ node.scope = 1 /\ node.params = Params(p) /\ node.vars = n.vars /\ node.nested = Stays(n.nested)
        /\ node.body = n.body
    <2>1. Node = Procedure(Node.scope, Node.params, Node.vars, Node.nested, Node.body)
      BY <1>2 DEF IsNode
    <2>2. program.procs[p] = Procedure(n.scope, Params(p), n.vars, n.nested, n.body)
      BY <1>2, <2>1
    <2> QED
      BY <1>4, <1>6, <2>2 DEF Procedure
  <1>10. \A q \in ProcNames : q # p => program'.procs[q] = program.procs[q]
    BY <1>4, <1>5, <1>6 DEF OrderInv
  <1>11. Visits(p, n.body)
    <2>1. crashed' \in BOOLEAN /\ source' = source /\ next' = next + 1
      BY <1>1 DEF OrderInv
    <2> QED
      BY <1>2, <1>6, <1>7, <1>8, <1>9, <1>10, <2>1 DEF Visits
  <1>12. ~Given(p)
    BY <1>2, <1>3, GivenIsNamed
  <1> QED
    BY <1>1, <1>3, <1>7, <1>11, <1>12

\* A leaf is rewritten if it is given an environment.
LEMMA LeafVisit ==
    ASSUME OrderInv, NodesInv, RecordsInv, LiftLeaf
    PROVE  LET b == source.procs[Name].body IN
           /\ ~Done /\ source.procs[Name].nested = <<>> /\ source.procs[Name].scope > 1
           /\ Visits(Name, IF Given(Name) THEN Rewrite(program, Decl(Name, Super), b) ELSE b)
           /\ program'.records = program.records
  <1> DEFINE p == Name
             n == source.procs[p]
             b == IF Given(p) THEN Rewrite(program, Decl(p, Super), n.body) ELSE n.body
             mid == IF Given(p) THEN [program EXCEPT !.procs[p].body = b] ELSE program
  <1>1. ~Done /\ Node.nested = <<>> /\ next' = next + 1 /\ Node.scope > 1 /\ source' = source
    BY DEF LiftLeaf, Visited, ModuleScope
  <1>2. /\ p \in ProcNames /\ p \notin Seen /\ program.records[p] = <<>>
        /\ IsNode(Node) /\ Node.scope = n.scope /\ Node.params = Params(p) /\ Node.vars = n.vars
        /\ Node.nested = n.nested /\ Node.body = n.body
        /\ Node = program.procs[p] /\ p \in DOMAIN program.procs
        /\ IsProgram(program)
    BY <1>1, Visiting
  <1>3. n.nested = <<>> /\ n.scope > 1
    BY <1>1, <1>2
  <1>4. program' = Settle(mid, p) /\ crashed' \in BOOLEAN
    <2>1. Given(p) <=> Super \in Names(Node.params)
      BY <1>2, GivenIsNamed
    <2>2. CASE Given(p)
      <3>1. /\ program' = Settle([program EXCEPT !.procs[p].body = Rewrite(program, Decl(p, Super), @)], p)
            /\ crashed' = BareReturn(Node.body)
        BY <2>1, <2>2 DEF LiftLeaf, Visited
      <3>2. program.procs[p].body = n.body
        BY <1>2
      <3>3. [program EXCEPT !.procs[p].body = Rewrite(program, Decl(p, Super), @)] = mid
        BY <2>2, <3>2 DEF IsProgram, Program
      <3> QED
        BY <3>1, <3>3 DEF BareReturn
    <2>3. CASE ~Given(p)
      BY <2>1, <2>3 DEF LiftLeaf, Visited, OrderInv
    <2> QED
      BY <2>2, <2>3
  <1> HIDE DEF b
  <1>5. /\ SameModule(program, mid) /\ mid.order = program.order
        /\ mid.records = program.records
        /\ mid.procs[p] = [program.procs[p] EXCEPT !.body = b] /\ IsNode(mid.procs[p])
        /\ \A q \in DOMAIN program.procs : q # p => mid.procs[q] = program.procs[q]
    <2>1. CASE Given(p)
      <3>1. IsProgram(program) /\ p \in DOMAIN program.procs /\ IsNode(program.procs[p]) /\ mid = [program EXCEPT !.procs[p].body = b]
        BY <1>2, <2>1
      <3>2. Reworked(program, mid, p) /\ mid.order = program.order /\ mid.procs[p] = [program.procs[p] EXCEPT !.body = b]
        BY ONLY <3>1, BodySet
      <3> QED
        BY <3>2 DEF Reworked
    <2>2. CASE ~Given(p)
      <3>1. Node = Procedure(Node.scope, Node.params, Node.vars, Node.nested, Node.body) /\ Node.body = b
        BY <1>2, <2>2 DEF IsNode, b
      <3>2. Node = [Node EXCEPT !.body = b]
        BY <3>1 DEF Procedure
      <3> QED
        BY <1>2, <2>2, <3>2 DEF SameModule
    <2> QED
      BY <2>1, <2>2
  <1> HIDE DEF mid
  <1>6. IsProgram(mid) /\ p \in DOMAIN mid.procs /\ DOMAIN mid.procs = DOMAIN program.procs
    BY <1>2, <1>5 DEF SameModule
  <1>7. /\ SameModule(mid, program') /\ program'.order = mid.order /\ program'.records = mid.records
        /\ program'.procs[p] = [mid.procs[p] EXCEPT !.scope = 1] /\ IsNode(program'.procs[p])
        /\ \A q \in DOMAIN mid.procs : q # p => program'.procs[q] = mid.procs[q]
    <2>1. IsProgram(mid) /\ p \in DOMAIN mid.procs /\ IsNode(mid.procs[p]) /\ program' = Settle(mid, p)
      BY <1>4, <1>5, <1>6
    <2>2. Reworked(mid, program', p) /\ program'.order = mid.order /\ program'.procs[p] = [mid.procs[p] EXCEPT !.scope = 1]
      BY ONLY <2>1, ScopeSet
    <2> QED
      BY <2>2 DEF Reworked
  <1>8. ~Sharing(p)
    BY <1>3 DEF Sharing
  <1>9. Moved(n.nested) = <<>> /\ Stays(n.nested) = <<>>
    BY <1>3, Single DEF Moved, Stays
  <1>10. program'.order = program.order \o Moved(n.nested) /\ program'.records = program.records
         /\ SameModule(program, program')
    <2>1. program.order = program.order \o Moved(n.nested)
      BY <1>9, ListOnly
    <2> QED
      BY <1>5, <1>7, <2>1 DEF SameModule
  <1>11. LET node == program'.procs[p] IN
        /\ node.scope = 1 /\ node.params = Params(p) /\ node.vars = n.vars /\ node.nested = Stays(n.nested)
        /\ node.body = b
    <2>1. Node = Procedure(Node.scope, Node.params, Node.vars, Node.nested, Node.body)
      BY <1>2 DEF IsNode
    <2>2. program.procs[p] = Procedure(n.scope, Params(p), n.vars, Stays(n.nested), n.body)
      BY <1>2, <1>3, <1>9, <2>1
    <2> QED
      BY <1>5, <1>7, <2>2 DEF Procedure
  <1>12. \A q \in ProcNames : q # p => program'.procs[q] = program.procs[q]
    BY <1>5, <1>6, <1>7 DEF OrderInv
  <1>13. Visits(p, b)
    BY <1>1, <1>2, <1>4, <1>7, <1>8, <1>10, <1>11, <1>12 DEF Visits
  <1> QED
    BY <1>1, <1>3, <1>10, <1>13 DEF b

\* A procedure with an environment: it is added before the body is rewritten.
LEMMA SuperVisit ==
    ASSUME OrderInv, NodesInv, RecordsInv, LiftSuper
    PROVE  LET prog == AddEnvironment(program, Name) IN
           /\ ~Done /\ source.procs[Name].nested # <<>> /\ Sharing(Name)
           /\ Visits(Name, LiftBody(prog, Name, Node)) /\ program'.records = prog.records
  <1> DEFINE p == Name
             n == source.procs[p]
             prog == AddEnvironment(program, p)
             b == LiftBody(prog, p, Node)
             mid == [prog EXCEPT !.procs[p].body = b]
             moved == Hoist(mid, p)
  <1>1. ~Done /\ Node.nested # <<>> /\ next' = next + 1 /\ (Node.params # <<>> \/ Node.vars # <<>>) /\ source' = source
        /\ program' = Settle(moved, p) /\ crashed' \in BOOLEAN
    BY DEF LiftSuper, Visited, BareReturn
  <1>2. /\ p \in ProcNames /\ p \notin Seen /\ program.records[p] = <<>>
        /\ IsNode(Node) /\ Node.scope = n.scope /\ Node.params = Params(p) /\ Node.vars = n.vars
        /\ Node.nested = n.nested /\ Node.body = n.body /\ p \notin Children(source, p)
        /\ Node = program.procs[p] /\ p \in DOMAIN program.procs /\ p \in DOMAIN program.records
        /\ IsProgram(program)
    BY <1>1, Visiting
  <1>3. n.nested # <<>> /\ Sharing(p)
    BY <1>1, <1>2 DEF Sharing
  <1>4. Children(program, p) = Children(source, p)
    BY <1>2 DEF Children
  <1>5. /\ SameModule(program, prog) /\ prog.order = program.order
        /\ prog.records = [program.records EXCEPT ![p] = Fields(program.procs[p])]
        /\ prog.procs[p] = [program.procs[p] EXCEPT !.vars = <<Variable(This, p)>> \o @] /\ IsNode(prog.procs[p])
        /\ \A q \in DOMAIN program.procs : q # p =>
              prog.procs[q] = IF q \in Children(program, p) THEN [program.procs[q] EXCEPT !.params = Append(@, Formal(Super, TRUE, p))]
                              ELSE program.procs[q]
    BY <1>2, <1>4, EnvironmentAdded
  <1> HIDE DEF b, prog
  <1>6. IsProgram(prog) /\ p \in DOMAIN prog.procs /\ DOMAIN prog.procs = DOMAIN program.procs
    BY <1>2, <1>5 DEF SameModule
  <1>7. /\ SameModule(prog, mid) /\ mid.order = prog.order /\ mid.records = prog.records
        /\ mid.procs[p] = [prog.procs[p] EXCEPT !.body = b] /\ IsNode(mid.procs[p])
        /\ \A q \in DOMAIN prog.procs : q # p => mid.procs[q] = prog.procs[q]
    <2>1. IsProgram(prog) /\ p \in DOMAIN prog.procs /\ IsNode(prog.procs[p]) /\ mid = [prog EXCEPT !.procs[p].body = b]
      BY <1>5, <1>6
    <2>2. Reworked(prog, mid, p) /\ mid.order = prog.order /\ mid.procs[p] = [prog.procs[p] EXCEPT !.body = b]
      BY ONLY <2>1, BodySet
    <2> QED
      BY <2>2 DEF Reworked
  <1> HIDE DEF mid
  <1>8. IsProgram(mid) /\ p \in DOMAIN mid.procs /\ DOMAIN mid.procs = DOMAIN prog.procs
    BY <1>6, <1>7 DEF SameModule
  <1>9. /\ SameModule(mid, moved) /\ moved.order = mid.order \o Moved(mid.procs[p].nested)
        /\ moved.records = mid.records
        /\ moved.procs[p] = [mid.procs[p] EXCEPT !.nested = Stays(@)] /\ IsNode(moved.procs[p])
        /\ \A q \in DOMAIN mid.procs : q # p => moved.procs[q] = mid.procs[q]
    <2>1. IsProgram(mid) /\ p \in DOMAIN mid.procs /\ IsNode(mid.procs[p]) /\ moved = Hoist(mid, p)
      BY <1>7, <1>8
    <2>2. Reworked(mid, moved, p) /\ moved.order = Longer(mid.order, Moved(mid.procs[p].nested)) /\ moved.procs[p] = [mid.procs[p] EXCEPT !.nested = Stays(@)]
      BY ONLY <2>1, Hoisted
    <2> QED
      BY <2>2 DEF Reworked, Longer
  <1> HIDE DEF moved
  <1>10. IsProgram(moved) /\ p \in DOMAIN moved.procs /\ DOMAIN moved.procs = DOMAIN mid.procs
    BY <1>8, <1>9 DEF SameModule
  <1>11. /\ SameModule(moved, program') /\ program'.order = moved.order /\ program'.records = moved.records
        /\ program'.procs[p] = [moved.procs[p] EXCEPT !.scope = 1] /\ IsNode(program'.procs[p])
        /\ \A q \in DOMAIN moved.procs : q # p => program'.procs[q] = moved.procs[q]
    <2>1. IsProgram(moved) /\ p \in DOMAIN moved.procs /\ IsNode(moved.procs[p]) /\ program' = Settle(moved, p)
      BY <1>1, <1>9, <1>10
    <2>2. Reworked(moved, program', p) /\ program'.order = moved.order /\ program'.procs[p] = [moved.procs[p] EXCEPT !.scope = 1]
      BY ONLY <2>1, ScopeSet
    <2> QED
      BY <2>2 DEF Reworked
  <1>12. mid.procs[p].nested = n.nested
    <2>1. Node = Procedure(Node.scope, Node.params, Node.vars, Node.nested, Node.body)
      BY <1>2 DEF IsNode
    <2>2. prog.procs[p].nested = n.nested
      BY <1>2, <1>5, <2>1, SMTT(40) DEF Procedure
    <2>3. prog.procs[p] = Procedure(prog.procs[p].scope, prog.procs[p].params, prog.procs[p].vars, prog.procs[p].nested, prog.procs[p].body)
      BY <1>5, SMTT(40) DEF IsNode
    <2> QED
      BY <1>7, <2>2, <2>3 DEF Procedure
  <1>13. program'.order = program.order \o Moved(n.nested) /\ SameModule(program, program')
    <2>1. program'.order = program.order \o Moved(n.nested)
      BY <1>5, <1>7, <1>9, <1>11, <1>12
    <2> QED
      BY <2>1, <1>5, <1>7, <1>9, <1>11, SMTT(40) DEF SameModule
  <1>14. LET node == program'.procs[p] IN
        /\ node.scope = 1 /\ node.params = Params(p) /\ node.vars = <<Variable(This, p)>> \o n.vars
        /\ node.nested = Stays(n.nested) /\ node.body = b
    <2> DEFINE w == <<Variable(This, p)>> \o n.vars
    <2>1. Node = Procedure(Node.scope, Node.params, Node.vars, Node.nested, Node.body)
      BY <1>2 DEF IsNode
    <2>2. prog.procs[p] = [program.procs[p] EXCEPT !.vars = w]
      BY <1>2, <1>5
    <2> HIDE DEF w
    <2>3. prog.procs[p] = Procedure(Node.scope, Params(p), w, n.nested, Node.body)
      BY <1>2, <2>1, <2>2 DEF Procedure
    <2>4. mid.procs[p] = Procedure(Node.scope, Params(p), w, n.nested, b)
      BY <1>7, <2>3 DEF Procedure
    <2>5. moved.procs[p] = Procedure(Node.scope, Params(p), w, Stays(n.nested), b)
      BY <1>9, <2>4 DEF Procedure
    <2>6. program'.procs[p] = Procedure(1, Params(p), w, Stays(n.nested), b)
      BY <1>11, <2>5 DEF Procedure
    <2>7. LET node == program'.procs[p] IN
          node.scope = 1 /\ node.params = Params(p) /\ node.vars = w /\ node.nested = Stays(n.nested) /\ node.body = b
      BY <2>6 DEF Procedure
    <2> QED
      BY <2>7 DEF w
  <1>15. \A q \in ProcNames : q # p =>
           program'.procs[q] = IF Sharing(p) /\ q \in Children(source, p)
                               THEN [program.procs[q] EXCEPT !.params = Append(@, Formal(Super, TRUE, p))]
                               ELSE program.procs[q]
    <2> TAKE q \in ProcNames
    <2> HAVE q # p
    <2>1. q \in DOMAIN program.procs /\ q \in DOMAIN prog.procs /\ q \in DOMAIN mid.procs /\ q \in DOMAIN moved.procs
      BY <1>6, <1>8, <1>10 DEF OrderInv
    <2>2. program'.procs[q] = prog.procs[q]
      BY <1>7, <1>9, <1>11, <2>1
    <2>3. prog.procs[q] = IF q \in Children(program, p) THEN [program.procs[q] EXCEPT !.params = Append(@, Formal(Super, TRUE, p))]
                          ELSE program.procs[q]
      BY <1>5, <2>1
    <2> QED
      BY <1>3, <1>4, <2>2, <2>3
  <1>16. \A q \in ProcNames : program'.records[q] = IF q = p THEN Environments(p) ELSE program.records[q]
    <2>1. program'.records = [program.records EXCEPT ![p] = Fields(program.procs[p])]
      BY <1>5, <1>7, <1>9, <1>11
    <2>2. Fields(program.procs[p]) = Environments(p)
      BY <1>2, ZenonT(60) DEF Fields, Environments
    <2> QED
      BY <1>2, <2>1, <2>2 DEF OrderInv
  <1>17. Visits(p, b)
    BY <1>1, <1>2, <1>3, <1>11, <1>13, <1>14, <1>15, <1>16 DEF Visits
  <1>18. program'.records = prog.records
    BY <1>7, <1>9, <1>11
  <1> QED
    BY <1>1, <1>3, <1>17, <1>18 DEF b, prog

-----------------------------------------------------------------------------
(* The list                                                                *)

\* A visit adds to the list what is declared in what was visited.
LEMMA OrderStep ==
    ASSUME OrderInv, NodesInv, RecordsInv, ~Done, NEW b, Visits(Name, b)
    PROVE  OrderInv' /\ Seen' = Seen \cup {Name}
  <1> DEFINE p == Name
             s == program.order
             t == Moved(source.procs[p].nested)
             u == s \o t
  <1>1. /\ source \in Programs /\ IsProgram(program) /\ program.globals = source.globals
        /\ IsSequence(s) /\ ToSet(s) \subseteq ProcNames /\ Distinct(s) /\ Len(s) \in Nat /\ DOMAIN s = 1 .. Len(s)
        /\ next \in 1 .. Len(s) /\ ProcNames = DOMAIN source.procs
        /\ DOMAIN program.procs = ProcNames /\ DOMAIN program.records = ProcNames
    BY Sequences DEF OrderInv, Done, ProcNames
  <1>2. p \in ProcNames /\ p \in ToSet(s) /\ p \notin Seen /\ p = s[next]
    BY Visiting DEF Name
  <1>3. NestingOK(source.procs)
    BY <1>1, Beginning
  <1>4. IsSequence(t) /\ Distinct(t) /\ ToSet(t) \subseteq Children(source, p) /\ Len(t) \in Nat /\ DOMAIN t = 1 .. Len(t)
    BY <1>1, <1>2, <1>3, Nested, Halves, Sequences, SMTT(40) DEF Children
  <1>5. ToSet(t) \subseteq ProcNames /\ \A c \in ToSet(t) : source.procs[c].scope # 1
    BY <1>1, <1>2, <1>3, <1>4, Nested
  <1>6. /\ source' = source /\ next' = next + 1 /\ crashed' \in BOOLEAN /\ program'.order = u
        /\ SameModule(program, program')
    BY DEF Visits
  <1> HIDE DEF s, t
  <1>7. /\ IsSequence(u) /\ ToSet(u) = ToSet(s) \cup ToSet(t)
        /\ Len(u) = Len(s) + Len(t) /\ DOMAIN u = 1 .. Len(s) + Len(t)
        /\ \A i \in 1 .. Len(s) + Len(t) : u[i] = IF i <= Len(s) THEN s[i] ELSE t[i - Len(s)]
    BY <1>1, <1>4, Concat
  <1> HIDE DEF u
  <1>8. Seen = {s[i] : i \in 1 .. next - 1} /\ Seen' = {u[i] : i \in 1 .. next}
    <2>1. Seen' = {program'.order[i] : i \in 1 .. next' - 1} /\ next' - 1 = next
      BY <1>1, <1>6 DEF Seen
    <2> QED
      BY <2>1, <1>6 DEF Seen, s
  <1>9. Seen' = Seen \cup {p}
    <2>1. \A i \in 1 .. next : u[i] = s[i]
      BY <1>1, <1>4, <1>7
    <2>2. \A i \in 1 .. next : i \in 1 .. next - 1 \/ i = next
      BY <1>1
    <2> QED
      BY <1>1, <1>2, <1>8, <2>1, <2>2
  <1>10. Seen' \subseteq ToSet(u)
    <2>1. \A i \in 1 .. next : i \in DOMAIN u
      BY <1>1, <1>4, <1>7
    <2> QED
      BY <1>8, <2>1 DEF ToSet
  <1>11. ASSUME NEW c \in ToSet(t) PROVE c \notin ToSet(s)
    <2>1. SUFFICES ASSUME c \in ToSet(s) PROVE FALSE
      OBVIOUS
    <2>2. PICK q \in Seen : c \in ToSet(Moved(source.procs[q].nested))
      BY <2>1, <1>5, <1>11 DEF OrderInv, s
    <2>3. Seen \subseteq ToSet(s)
      <3>1. \A i \in 1 .. next - 1 : i \in DOMAIN s
        BY <1>1
      <3> QED
        BY <3>1, <1>8 DEF ToSet
    <2>4. q \in ProcNames
      BY <1>1, <2>2, <2>3
    <2>5. c \in Children(source, q)
      BY <1>1, <1>3, <2>2, <2>4, Nested, Halves DEF Children
    <2>6. q = p
      BY <1>1, <1>2, <1>3, <1>4, <1>11, <2>4, <2>5, ParentIsOne
    <2> QED
      BY <1>2, <2>2, <2>6
  <1>12. Distinct(u)
    <2>1. SUFFICES ASSUME NEW i \in DOMAIN u, NEW j \in DOMAIN u, u[i] = u[j], i <= j PROVE i = j
      <3>1. \A i \in DOMAIN u : i \in Int
        BY <1>7
      <3> QED
        BY <3>1 DEF Distinct
    <2>2. CASE j <= Len(s)
      <3>1. i \in DOMAIN s /\ j \in DOMAIN s /\ s[i] = s[j]
        BY <1>1, <1>4, <1>7, <2>1, <2>2
      <3> QED
        BY <1>1, <3>1 DEF Distinct
    <2>3. CASE i > Len(s)
      <3>1. i - Len(s) \in DOMAIN t /\ j - Len(s) \in DOMAIN t /\ t[i - Len(s)] = t[j - Len(s)]
        BY <1>1, <1>4, <1>7, <2>1, <2>3
      <3>2. i - Len(s) = j - Len(s)
        BY <1>4, <3>1 DEF Distinct
      <3> QED
        BY <1>1, <1>7, <3>2
    <2>4. CASE i <= Len(s) /\ j > Len(s)
      <3>1. i \in DOMAIN s /\ j - Len(s) \in DOMAIN t /\ s[i] = t[j - Len(s)]
        BY <1>1, <1>4, <1>7, <2>1, <2>4
      <3>2. s[i] \in ToSet(s) /\ t[j - Len(s)] \in ToSet(t)
        BY <3>1 DEF ToSet
      <3> QED
        BY <1>11, <3>1, <3>2
    <2> QED
      BY <1>1, <1>7, <2>2, <2>3, <2>4
  <1>13. ASSUME NEW q \in ProcNames
         PROVE  q \in ToSet(u) <=> source.procs[q].scope = 1 \/ \E r \in Seen' : q \in ToSet(Moved(source.procs[r].nested))
    <2>1. q \in ToSet(s) <=> source.procs[q].scope = 1 \/ \E r \in Seen : q \in ToSet(Moved(source.procs[r].nested))
      BY DEF OrderInv, s
    <2>2. q \in ToSet(t) <=> q \in ToSet(Moved(source.procs[p].nested))
      BY DEF t
    <2> QED
      BY <1>7, <1>9, <2>1, <2>2
  <1>14. OrderInv'
    <2>1. IsProgram(program') /\ program'.globals = source'.globals
          /\ DOMAIN program'.procs = ProcNames' /\ DOMAIN program'.records = ProcNames'
      BY <1>1, <1>6 DEF SameModule, ProcNames
    <2>2. source' \in Programs /\ next' \in Nat \ {0} /\ crashed' \in BOOLEAN
      BY <1>1, <1>6
    <2>3. ProcNames' = ProcNames
      BY <1>6 DEF ProcNames
    <2>4. IsSequence(u) /\ ToSet(u) \subseteq ProcNames /\ Distinct(u) /\ next + 1 <= Len(u) + 1
      BY <1>1, <1>4, <1>5, <1>7, <1>12
    <2> QED
      BY <1>6, <1>13, <2>1, <2>2, <2>3, <2>4 DEF OrderInv
  <1> QED
    BY <1>9, <1>14

\* Names and types of parameters and variables
LEMMA Members ==
    \A x, var, t : /\ Formal(x, var, t).name = x /\ Formal(x, var, t).type = t
                   /\ Variable(x, t).name = x /\ Variable(x, t).type = t
  BY DEF Formal, Variable

\* The parameters in the text are INTEGERs.
LEMMA FormalsAre ==
    ASSUME OrderInv, NEW p \in ProcNames
    PROVE  LET s == source.procs[p].params IN
           /\ IsSequence(s) /\ Len(s) \in Nat /\ DOMAIN s = 1 .. Len(s)
           /\ \A i \in 1 .. Len(s) : s[i].type = Integer /\ s[i].name \notin {This, Super}
  <1> DEFINE s == source.procs[p].params
  <1>1. /\ IsSequence(s)
        /\ \A i \in DOMAIN s : s[i] = Formal(s[i].name, s[i].var, Integer) /\ s[i].name \notin {This, Super}
    BY Declared DEF OrderInv, ProcNames
  <1>2. Len(s) \in Nat /\ DOMAIN s = 1 .. Len(s)
    BY <1>1, Sequences
  <1> HIDE DEF s
  <1>3. \A i \in DOMAIN s : s[i].type = Integer
    BY <1>1, Members
  <1> QED
    BY <1>1, <1>2, <1>3 DEF s

\* What is declared in p has p as its parent.
LEMMA Tree ==
    ASSUME OrderInv, NEW p \in ProcNames, NEW c \in Children(source, p)
    PROVE  /\ c \in ProcNames /\ c # p /\ Parent(c) = p /\ (Given(c) <=> Shares(p))
           /\ source.procs[c].scope = source.procs[p].scope + 1 /\ source.procs[p].scope \in Nat \ {0}
  <1>1. NestingOK(source.procs) /\ ProcNames = DOMAIN source.procs
    BY Beginning DEF OrderInv, ProcNames
  <1>2. /\ source.procs[p].scope \in Nat \ {0} /\ c \in ProcNames
        /\ source.procs[c].scope = source.procs[p].scope + 1
    BY <1>1, Nested
  <1>3. \A q \in ProcNames : c \in Children(source, q) => q = p
    BY <1>1, ParentIsOne
  <1>4. Parent(c) = p
    BY <1>3 DEF Parent
  <1>5. Given(c) <=> Shares(p)
    BY <1>3 DEF Given
  <1>6. c # p
    BY <1>2
  <1> QED
    BY <1>2, <1>4, <1>5, <1>6

\* What is on the list is declared in something that was visited.
LEMMA Listed ==
    ASSUME OrderInv, NEW q \in ToSet(program.order)
    PROVE  q \in ProcNames /\ \A r \in ProcNames : q \in Children(source, r) => r \in Seen
  <1>1. NestingOK(source.procs) /\ ProcNames = DOMAIN source.procs /\ q \in ProcNames
    BY Beginning DEF OrderInv, ProcNames
  <1>2. ASSUME NEW r \in ProcNames, q \in Children(source, r) PROVE r \in Seen
    <2>1. source.procs[q].scope = source.procs[r].scope + 1 /\ source.procs[r].scope \in Nat \ {0}
      BY <1>2, Tree
    <2>2. PICK s \in Seen : q \in ToSet(Moved(source.procs[s].nested))
      BY <1>1, <2>1 DEF OrderInv
    <2>3. s \in ProcNames
      <3>1. PICK i \in 1 .. next - 1 : s = program.order[i]
        BY <2>2 DEF Seen
      <3>2. i \in DOMAIN program.order /\ IsSequence(program.order)
        BY <3>1, Sequences DEF OrderInv
      <3> QED
        BY <3>1, <3>2, Sequences DEF OrderInv
    <2>4. q \in Children(source, s)
      BY <1>1, <2>2, <2>3, Nested, Halves DEF Children
    <2> QED
      BY <1>1, <1>2, <2>2, <2>3, <2>4, ParentIsOne
  <1> QED
    BY <1>1, <1>2

\* What was visited is on the list.
LEMMA SeenListed ==
    ASSUME OrderInv
    PROVE  Seen \subseteq ToSet(program.order) /\ Seen \subseteq ProcNames
  <1>1. IsSequence(program.order) /\ DOMAIN program.order = 1 .. Len(program.order)
    BY Sequences DEF OrderInv
  <1>2. \A i \in 1 .. next - 1 : i \in DOMAIN program.order
    BY <1>1 DEF OrderInv
  <1>3. Seen \subseteq ToSet(program.order)
    BY <1>2 DEF Seen, ToSet
  <1> QED
    BY <1>3 DEF OrderInv

\* The fields of an environment are the parameters and variables.
LEMMA EnvironmentFields ==
    ASSUME OrderInv, NEW p \in ProcNames
    PROVE  LET E == Environments(p)
               v == source.procs[p].vars
           IN /\ Unambiguous(E)
              /\ Params(p) # <<>> \/ v # <<>> => E # <<>>
              /\ \A i \in DOMAIN Params(p) : Variable(Params(p)[i].name, Params(p)[i].type) \in ToSet(E)
              /\ \A i \in DOMAIN v : v[i] \in ToSet(E)
  <1> DEFINE s == source.procs[p].params
             v == source.procs[p].vars
             F == [i \in DOMAIN Params(p) |-> Variable(Params(p)[i].name, Params(p)[i].type)]
             E == F \o v
             k == Len(s)
             m == Len(Params(p))
             l == Len(v)
  <1>1. /\ IsSequence(s) /\ IsSequence(v) /\ k \in Nat /\ l \in Nat
        /\ DOMAIN s = 1 .. k /\ DOMAIN v = 1 .. l /\ Unambiguous(s \o v)
        /\ \A i \in DOMAIN s : s[i].name \notin {This, Super}
        /\ \A i \in DOMAIN v : v[i].name \notin {This, Super}
    BY Declared, Sequences DEF OrderInv, ProcNames
  <1>2. /\ m = k + (IF Given(p) THEN 1 ELSE 0) /\ DOMAIN Params(p) = 1 .. m
        /\ \A i \in 1 .. k : Params(p)[i] = s[i]
        /\ Given(p) => Params(p)[k + 1].name = Super
    <2>1. /\ m = k + (IF Given(p) THEN 1 ELSE 0) /\ DOMAIN Params(p) = 1 .. m
          /\ \A i \in 1 .. k : Params(p)[i] = s[i]
          /\ Given(p) => Params(p)[k + 1] = Formal(Super, TRUE, Parent(p))
      BY GivenIsNamed
    <2>2. Formal(Super, TRUE, Parent(p)).name = Super
      BY DEF Formal
    <2> HIDE DEF s, k, m, F, E, v, l
    <2> QED
      BY <2>1, <2>2
  <1>3. Environments(p) = E
    BY DEF Environments, Fields
  <1>4. /\ IsSequence(F) /\ Len(F) = m /\ DOMAIN F = 1 .. m
        /\ \A i \in 1 .. m : F[i].name = Params(p)[i].name
        /\ \A i \in 1 .. m : F[i] = Variable(Params(p)[i].name, Params(p)[i].type)
    <2>1. m \in Nat /\ DOMAIN F = 1 .. m /\ \A i \in 1 .. m : F[i] = Variable(Params(p)[i].name, Params(p)[i].type)
      <3>1. m \in Nat /\ DOMAIN Params(p) = 1 .. m
        <4> HIDE DEF s, k, m, F, E, v, l
        <4> QED
          BY <1>1, <1>2
      <3>2. DOMAIN F = DOMAIN Params(p) /\ \A i \in DOMAIN Params(p) : F[i] = Variable(Params(p)[i].name, Params(p)[i].type)
        OBVIOUS
      <3> HIDE DEF F, m
      <3> QED
        BY <3>1, <3>2
    <2>2. F = [i \in 1 .. m |-> F[i]]
      BY <2>1
    <2> HIDE DEF F, m
    <2>3. IsSequence(F) /\ Len(F) = m
      BY <2>1, <2>2, Tuples
    <2> QED
      BY <2>1, <2>3, Members
  <1> HIDE DEF F, s, v, m, k, l
  <1>5. /\ ToSet(E) = ToSet(F) \cup ToSet(v) /\ Len(E) = m + l /\ DOMAIN E = 1 .. m + l
        /\ \A i \in 1 .. m + l : E[i] = IF i <= m THEN F[i] ELSE v[i - m]
    BY <1>1, <1>4, Concat, ZenonT(60) DEF l
  <1> DEFINE w == s \o v
  <1>6. /\ DOMAIN w = 1 .. k + l /\ Unambiguous(w)
        /\ \A i \in 1 .. k + l : w[i] = IF i <= k THEN s[i] ELSE v[i - k]
    BY <1>1, Concat DEF k, l
  <1> HIDE DEF E, w
  <1> DEFINE own(i) == i <= k
             super(i) == i = k + 1 /\ Given(p)
             place(i) == IF i <= k THEN i ELSE (i - m) + k
  <1>7. ASSUME NEW i \in 1 .. m + l
        PROVE  IF super(i) THEN E[i].name = Super
               ELSE place(i) \in DOMAIN w /\ E[i].name = w[place(i)].name /\ E[i].name # Super
    <2>1. CASE own(i)
      <3>1. i <= m /\ i \in 1 .. k /\ ~super(i) /\ place(i) = i /\ i \in 1 .. k + l
        BY <1>1, <1>2, <2>1
      <3>2. E[i] = F[i] /\ w[i] = s[i]
        <4> HIDE DEF super, place
        <4> QED
          BY <1>5, <1>6, <1>7, <3>1
      <3>3. F[i].name = s[i].name
        <4> HIDE DEF super, place
        <4>1. i \in 1 .. m
          BY <1>1, <1>2, <3>1
        <4> QED
          BY <1>2, <1>4, <3>1, <4>1
      <3> QED
        BY <1>1, <1>6, <3>1, <3>2, <3>3
    <2>2. CASE super(i)
      <3>1. i <= m
        BY <1>1, <1>2, <2>2
      <3> QED
        BY <1>2, <1>4, <1>5, <1>7, <2>2, <3>1
    <2>3. CASE ~own(i) /\ ~super(i)
      <3>1. i > m /\ i - m \in 1 .. l /\ place(i) = (i - m) + k /\ place(i) \in 1 .. k + l /\ ~(place(i) <= k)
            /\ place(i) - k = i - m
        BY <1>1, <1>2, <1>7, <2>3
      <3>2. E[i] = v[i - m] /\ w[place(i)] = v[i - m]
        <4> HIDE DEF place, super
        <4>1. E[i] = v[i - m]
          BY <1>1, <1>2, <1>5, <1>7, <3>1
        <4>2. w[place(i)] = v[place(i) - k]
          BY <1>6, <3>1
        <4> QED
          BY <3>1, <4>1, <4>2
      <3> QED
        BY <1>1, <1>6, <2>3, <3>1, <3>2
    <2> QED
      BY <2>1, <2>2, <2>3
  <1>8. Unambiguous(E)
    <2>1. SUFFICES ASSUME NEW i \in 1 .. m + l, NEW j \in 1 .. m + l, E[i].name = E[j].name PROVE i = j
      BY <1>5 DEF Unambiguous
    <2>2. super(i) <=> super(j)
      BY <1>7, <2>1
    <2>3. CASE super(i)
      BY <2>2, <2>3
    <2>4. CASE ~super(i)
      <3>1. place(i) = place(j)
        <4> HIDE DEF place, super
        <4> QED
          BY <1>6, <1>7, <2>1, <2>2, <2>4 DEF Unambiguous
      <3> QED
        BY <1>1, <1>2, <2>1, <2>2, <2>4, <3>1
    <2> QED
      BY <2>3, <2>4
  <1>9. \A i \in 1 .. m : F[i] \in ToSet(E)
    BY <1>4, <1>5, Sequences
  <1>10. \A i \in 1 .. l : v[i] \in ToSet(E)
    BY <1>1, <1>5, Sequences
  <1>11. Params(p) # <<>> \/ v # <<>> => E # <<>>
    <2>1. Params(p) # <<>> => m # 0
      <3>1. IsSequence(Params(p))
        BY GivenIsNamed
      <3>2. Params(p) \in Seq(ToSet(Params(p)))
        BY <3>1 DEF IsSequence
      <3> QED
        BY <3>2 DEF m
    <2>2. v # <<>> => l # 0
      BY <1>1 DEF IsSequence, l
    <2> QED
      BY <1>1, <1>2, <1>5, <2>1, <2>2
  <1> QED
    BY <1>1, <1>2, <1>3, <1>4, <1>8, <1>9, <1>10, <1>11 DEF v

-----------------------------------------------------------------------------
(* What a visit leaves                                                     *)

\* An environment for p is one for p's own procedures and for no others.
LEMMA Changes ==
    ASSUME OrderInv, NodesInv, RecordsInv, ~Done, NEW b, Visits(Name, b)
    PROVE  /\ ProcNames' = ProcNames
           /\ \A q \in ProcNames : Shares(q)' <=> IF q = Name THEN Sharing(Name) ELSE Shares(q)
           /\ \A q \in ProcNames : Given(q)' <=> Given(q) \/ (q \in Children(source, Name) /\ Sharing(Name))
           /\ \A q \in ProcNames : Parent(q)' = Parent(q)
           /\ \A q \in Children(source, Name) : q \notin ToSet(program.order) /\ ~Given(q) /\ Parent(q) = Name
           /\ ~Shares(Name) /\ Name \in ProcNames
  <1> DEFINE p == Name
  <1>1. p \in ProcNames /\ p \notin Seen /\ program.records[p] = <<>>
    BY Visiting
  <1>2. /\ source' = source
        /\ program'.records[p] = IF Sharing(p) THEN Environments(p) ELSE <<>>
        /\ \A q \in ProcNames : q # p => program'.records[q] = program.records[q]
    <2>1. source' = source
      BY DEF Visits
    <2>2. program'.records[p] = IF Sharing(p) THEN Environments(p) ELSE <<>>
      BY DEF Visits
    <2>3. \A q \in ProcNames : q # p => program'.records[q] = program.records[q]
      BY DEF Visits
    <2> QED
      BY <2>1, <2>2, <2>3
  <1>3. ProcNames' = ProcNames
    BY <1>2 DEF ProcNames
  <1>4. Sharing(p) => Environments(p) # <<>>
    BY <1>1, EnvironmentFields DEF Sharing
  <1>5. \A q \in ProcNames : Shares(q)' <=> IF q = p THEN Sharing(p) ELSE Shares(q)
    <2>1. Sharing(p) => program'.records[p] # <<>>
      BY <1>2, <1>4
    <2>2. ~Sharing(p) => program'.records[p] = <<>>
      BY <1>2
    <2>3. ASSUME NEW q \in ProcNames, q = p PROVE Shares(q)' <=> Sharing(p)
      BY <2>1, <2>2, <2>3 DEF Shares
    <2>4. ASSUME NEW q \in ProcNames, q # p PROVE Shares(q)' <=> Shares(q)
      BY <1>2, <2>4 DEF Shares
    <2> QED
      BY <2>3, <2>4
  <1>6. ~Shares(p)
    BY <1>1 DEF Shares
  <1>7. \A q : Children(source, q)' = Children(source, q)
    BY <1>2 DEF Children
  <1>8. \A q \in ProcNames : Given(q)' <=> \E r \in ProcNames : q \in Children(source, r) /\ Shares(r)'
    BY <1>3, <1>7 DEF Given
  <1>9. \A q \in ProcNames : Given(q)' <=> Given(q) \/ (q \in Children(source, p) /\ Sharing(p))
    BY <1>1, <1>5, <1>6, <1>8 DEF Given
  <1>10. \A q \in ProcNames : Parent(q)' = Parent(q)
    BY <1>3, <1>7 DEF Parent
  <1>11. ASSUME NEW q \in Children(source, p) PROVE q \notin ToSet(program.order) /\ ~Given(q) /\ Parent(q) = p
    <2>1. q \notin ToSet(program.order)
      BY <1>1, Listed
    <2> QED
      BY <1>1, <1>6, <2>1, Tree
  <1> QED
    BY <1>1, <1>3, <1>5, <1>6, <1>9, <1>10, <1>11

\* The parameters change for p's own procedures, the variables for p.
LEMMA NewParams ==
    ASSUME OrderInv, NodesInv, RecordsInv, ~Done, NEW b, Visits(Name, b), NEW q \in ProcNames
    PROVE  /\ Params(q)' = IF Sharing(Name) /\ q \in Children(source, Name)
                           THEN Append(Params(q), Formal(Super, TRUE, Name)) ELSE Params(q)
           /\ Vars(q)' = IF q = Name /\ Sharing(Name) THEN <<Variable(This, Name)>> \o source.procs[q].vars ELSE Vars(q)
           /\ Vars(Name) = source.procs[Name].vars
  <1> DEFINE s == source.procs[q].params
             v == source.procs[q].vars
  <1>1. /\ Given(q)' <=> Given(q) \/ (q \in Children(source, Name) /\ Sharing(Name))
        /\ Parent(q)' = Parent(q) /\ (q \in Children(source, Name) => ~Given(q) /\ Parent(q) = Name)
        /\ Shares(q)' <=> IF q = Name THEN Sharing(Name) ELSE Shares(q)
        /\ ~Shares(Name) /\ Name \in ProcNames
    BY Changes
  <1>2. source' = source
    BY DEF Visits
  <1>3. Params(q)' = s \o (IF Given(q)' THEN <<Formal(Super, TRUE, Parent(q)')>> ELSE <<>>)
    BY <1>2 DEF Params
  <1>4. Params(q) = s \o IF Given(q) THEN <<Formal(Super, TRUE, Parent(q))>> ELSE <<>>
    BY DEF Params
  <1>5. CASE Sharing(Name) /\ q \in Children(source, Name)
    <2>1. Params(q) = s /\ IsSequence(s)
      BY <1>1, <1>5, GivenIsNamed
    <2>2. Append(Params(q), Formal(Super, TRUE, Name)) = s \o <<Formal(Super, TRUE, Name)>>
      BY <2>1, Appending
    <2>3. Params(q)' = s \o <<Formal(Super, TRUE, Name)>>
      BY <1>1, <1>3, <1>5
    <2>4. q # Name
      BY <1>1, <1>5, Tree
    <2> HIDE DEF s
    <2>5. Vars(q)' = Vars(q)
      BY <1>1, <1>2, <2>4 DEF Vars
    <2>6. Vars(Name) = source.procs[Name].vars
      BY <1>1, Declared, Single, Concat DEF OrderInv, ProcNames, Vars
    <2> QED
      BY <1>5, <2>2, <2>3, <2>4, <2>5, <2>6
  <1>6. CASE ~(Sharing(Name) /\ q \in Children(source, Name))
    <2>1. Given(q)' <=> Given(q)
      BY <1>1, <1>6
    <2>2. Params(q)' = Params(q)
      BY <1>1, <1>3, <1>4, <2>1
    <2>3. Vars(q)' = IF q = Name /\ Sharing(Name) THEN <<Variable(This, Name)>> \o source.procs[q].vars ELSE Vars(q)
      BY <1>1, <1>2 DEF Vars
    <2>4. Vars(Name) = source.procs[Name].vars
      BY <1>1, Declared, Single, Concat DEF OrderInv, ProcNames, Vars
    <2> QED
      BY <1>6, <2>2, <2>3, <2>4
  <1> QED
    BY <1>5, <1>6

\* A visit leaves the procedures as they should be.
LEMMA NodesStep ==
    ASSUME OrderInv, NodesInv, RecordsInv, ~Done, NEW b, Visits(Name, b)
    PROVE  NodesInv'
  <1> DEFINE p == Name
  <1>1. ProcNames' = ProcNames /\ source' = source /\ Seen' = Seen \cup {p}
    BY Changes, OrderStep DEF Visits
  <1>2. p \in ProcNames /\ p \notin Seen
    BY Visiting
  <1>3. SUFFICES ASSUME NEW q \in ProcNames
                 PROVE  LET node == program'.procs[q] IN
                        /\ IsNode(node)
                        /\ node.params = Params(q)' /\ node.vars = Vars(q)'
                        /\ q \in Seen' => node.scope = 1 /\ node.nested = Stays(source.procs[q].nested)
                        /\ q \notin Seen' => /\ node.scope = source.procs[q].scope
                                             /\ node.nested = source.procs[q].nested
                                             /\ node.body = source.procs[q].body
    BY <1>1 DEF NodesInv
  <1>4. CASE q = p
    <2>1. p \notin Children(source, p)
      BY <1>2, Tree
    <2>2. /\ Params(q)' = Params(q)
          /\ Vars(q)' = IF Sharing(p) THEN <<Variable(This, p)>> \o source.procs[q].vars ELSE source.procs[q].vars
      BY <1>2, <1>4, <2>1, NewParams
    <2>3. LET node == program'.procs[q] IN
          /\ IsNode(node) /\ node.scope = 1 /\ node.params = Params(q)
          /\ node.vars = IF Sharing(p) THEN <<Variable(This, p)>> \o source.procs[p].vars ELSE source.procs[p].vars
          /\ node.nested = Stays(source.procs[q].nested)
      BY <1>4 DEF Visits
    <2>4. q \in Seen'
      BY <1>1, <1>4
    <2> QED
      BY <1>4, <2>2, <2>3, <2>4
  <1>5. CASE q # p /\ Sharing(p) /\ q \in Children(source, p)
    <2>1. Params(q)' = Append(Params(q), Formal(Super, TRUE, p)) /\ Vars(q)' = Vars(q)
      BY <1>2, <1>5, NewParams
    <2>2. program'.procs[q] = [program.procs[q] EXCEPT !.params = Append(@, Formal(Super, TRUE, p))]
      BY <1>5 DEF Visits
    <2>3. IsNode(program.procs[q]) /\ program.procs[q].params = Params(q) /\ program.procs[q].vars = Vars(q)
      BY DEF NodesInv
    <2>4. program.procs[q] = Procedure(program.procs[q].scope, program.procs[q].params, program.procs[q].vars,
                                       program.procs[q].nested, program.procs[q].body)
      BY <2>3 DEF IsNode
    <2> DEFINE new == Append(Params(q), Formal(Super, TRUE, p))
               node == program.procs[q]
    <2>5. program'.procs[q] = [node EXCEPT !.params = new]
      BY <2>2, <2>3
    <2> HIDE DEF new
    <2>6. program'.procs[q] = Procedure(node.scope, new, node.vars, node.nested, node.body)
      BY <2>4, <2>5 DEF Procedure
    <2>7. IsNode(program'.procs[q]) /\ program'.procs[q].params = new /\ program'.procs[q].vars = node.vars
          /\ program'.procs[q].scope = node.scope /\ program'.procs[q].nested = node.nested
          /\ program'.procs[q].body = node.body
      BY <2>6 DEF IsNode, Procedure
    <2>8. q \in Seen' <=> q \in Seen
      BY <1>1, <1>5
    <2>9. /\ q \in Seen => node.scope = 1 /\ node.nested = Stays(source.procs[q].nested)
          /\ q \notin Seen => /\ node.scope = source.procs[q].scope
                              /\ node.nested = source.procs[q].nested
                              /\ node.body = source.procs[q].body
      BY DEF NodesInv
    <2> QED
      BY <2>1, <2>3, <2>7, <2>8, <2>9 DEF new
  <1>6. CASE q # p /\ ~(Sharing(p) /\ q \in Children(source, p))
    <2>1. Params(q)' = Params(q) /\ Vars(q)' = Vars(q)
      BY <1>2, <1>6, NewParams
    <2>2. program'.procs[q] = program.procs[q]
      BY <1>6 DEF Visits
    <2> QED
      BY <1>1, <1>6, <2>1, <2>2 DEF NodesInv
  <1> QED
    BY <1>4, <1>5, <1>6

\* A visit leaves the records as they should be.
LEMMA RecordsStep ==
    ASSUME OrderInv, NodesInv, RecordsInv, ~Done, NEW b, Visits(Name, b)
    PROVE  RecordsInv'
  <1> DEFINE p == Name
  <1>1. ProcNames' = ProcNames /\ source' = source /\ Seen' = Seen \cup {p} /\ p \in ProcNames
    BY Changes, OrderStep, Visiting DEF Visits
  <1>2. SUFFICES ASSUME NEW q \in ProcNames
                 PROVE  program'.records[q] =
                            IF q \in Seen' /\ source.procs[q].nested # <<>> /\ (Params(q)' # <<>> \/ source.procs[q].vars # <<>>)
                            THEN Fields([params |-> Params(q)', vars |-> source.procs[q].vars])
                            ELSE <<>>
    BY <1>1 DEF RecordsInv
  <1>3. CASE q \in Seen \cup {p}
    <2>1. q \notin Children(source, p)
      <3>1. q \in ToSet(program.order)
        BY <1>3, SeenListed, Visiting
      <3> QED
        BY <3>1, Changes
    <2>2. Params(q)' = Params(q)
      BY <2>1, NewParams
    <2>3. CASE q = p
      BY <1>1, <2>2, <2>3 DEF Visits, Sharing, Environments
    <2>4. CASE q # p
      <3>1. program'.records[q] = program.records[q]
        BY <2>4 DEF Visits
      <3> QED
        BY <1>1, <1>3, <2>2, <2>4, <3>1 DEF RecordsInv
    <2> QED
      BY <2>3, <2>4
  <1>4. CASE q \notin Seen \cup {p}
    <2>1. program'.records[q] = program.records[q]
      BY <1>4 DEF Visits
    <2> QED
      BY <1>1, <1>4, <2>1 DEF RecordsInv
  <1> QED
    BY <1>3, <1>4

\* What shares something was visited and has nested procedures.
LEMMA SharingIs ==
    ASSUME OrderInv, RecordsInv, NEW p \in ProcNames, Shares(p)
    PROVE  p \in Seen /\ Sharing(p) /\ program.records[p] = Environments(p) /\ Unambiguous(Environments(p))
  BY EnvironmentFields DEF RecordsInv, Shares, Sharing, Environments

\* No record has two fields of a name.
LEMMA RecordsUnambiguous ==
    ASSUME OrderInv, RecordsInv
    PROVE  \A r \in DOMAIN program.records : Unambiguous(program.records[r])
  <1> TAKE r \in DOMAIN program.records
  <1>1. r \in ProcNames
    BY DEF OrderInv
  <1>2. CASE Shares(r)
    BY <1>1, <1>2, SharingIs
  <1>3. CASE ~Shares(r)
    BY <1>3 DEF Shares, Unambiguous
  <1> QED
    BY <1>2, <1>3

\* What a visit adds to the list is in what was visited.
LEMMA ChainStep ==
    ASSUME OrderInv, NodesInv, RecordsInv, ChainInv, ~Done, NEW b, Visits(Name, b)
    PROVE  ChainInv'
  <1> DEFINE p == Name
             t == Moved(source.procs[p].nested)
  <1>1. /\ ProcNames' = ProcNames /\ source' = source /\ Seen' = Seen \cup {p} /\ p \in ProcNames
        /\ p \in ToSet(program.order) /\ p \notin Seen
        /\ NestingOK(source.procs) /\ ProcNames = DOMAIN source.procs
    BY Changes, OrderStep, Visiting, Beginning DEF Visits, OrderInv, ProcNames
  <1>2. IsSequence(t) /\ ToSet(t) \subseteq Children(source, p)
    BY <1>1, Nested, Halves DEF Children
  <1>3. ToSet(program'.order) = ToSet(program.order) \cup ToSet(t)
    <2>1. program'.order = program.order \o t
      BY DEF Visits
    <2>2. IsSequence(program.order)
      BY DEF OrderInv
    <2> HIDE DEF t
    <2> QED
      BY <1>2, <2>1, <2>2, Concat
  <1>4. SUFFICES ASSUME NEW q \in ToSet(program.order) \cup ToSet(t), NEW r \in Around(source.procs, q)
                 PROVE  r \in Seen \cup {p} /\ (Shares(r)' => Given(q)')
    BY <1>1, <1>3 DEF ChainInv
  <1>5. r \in ProcNames /\ q \in ProcNames
    <2>1. q \in ProcNames
      BY <1>1, <1>2, Listed, Tree
    <2> QED
      BY <1>1, <2>1, AroundIsNotEmpty
  <1>6. CASE q \in ToSet(program.order)
    <2>1. r \in Seen /\ (Shares(r) => Given(q))
      BY <1>6 DEF ChainInv
    <2>2. Shares(r)' <=> Shares(r)
      BY <1>1, <1>5, <2>1, Changes
    <2>3. Given(q) => Given(q)'
      BY <1>5, Changes
    <2> QED
      BY <2>1, <2>2, <2>3
  <1>7. CASE q \in ToSet(t)
    <2>1. q \in Children(source, p) /\ (Given(q)' <=> Sharing(p))
      BY <1>2, <1>5, <1>7, Changes
    <2>2. CASE r = p
      BY <1>1, <2>1, <2>2, Changes
    <2>3. CASE r # p
      <3>1. r \in Around(source.procs, p)
        BY <1>1, <2>1, <2>3, AroundChild
      <3>2. r \in Seen /\ (Shares(r) => Given(p))
        BY <1>1, <3>1 DEF ChainInv
      <3>3. Shares(r)' <=> Shares(r)
        BY <1>5, <2>3, Changes
      <3>4. source.procs[p].nested # <<>>
        BY <2>1, Single DEF Children
      <3>5. Given(p) => Sharing(p)
        BY <1>1, <3>4, GivenIsNamed DEF Sharing
      <3> QED
        BY <2>1, <3>2, <3>3, <3>5
    <2> QED
      BY <2>2, <2>3
  <1> QED
    BY <1>4, <1>6, <1>7

-----------------------------------------------------------------------------
(* Environments reach outwards                                             *)

\* Selectors go on to lead where they led: records are only added.
LEMMA LeadsGrow ==
    ASSUME NEW records, NEW more, DOMAIN more = DOMAIN records,
           \A r \in DOMAIN records : records[r] # <<>> => more[r] = records[r],
           NEW from, NEW path, NEW to, Leads(records, from, path, to)
    PROVE  Leads(more, from, path, to)
  <1>1. PICK types \in [0 .. Len(path) -> {Integer} \cup DOMAIN records] :
           /\ types[0] = from /\ types[Len(path)] = to
           /\ \A i \in 1 .. Len(path) :
                 /\ types[i - 1] \in DOMAIN records
                 /\ Variable(path[i], types[i]) \in ToSet(records[types[i - 1]])
    BY DEF Leads
  <1>2. \A r \in DOMAIN records : ToSet(records[r]) # {} => more[r] = records[r]
    BY Single
  <1>3. \A i \in 1 .. Len(path) :
           /\ types[i - 1] \in DOMAIN more
           /\ Variable(path[i], types[i]) \in ToSet(more[types[i - 1]])
    BY <1>1, <1>2
  <1> QED
    BY <1>1, <1>3 DEF Leads

\* A field leads to its type.
LEMMA LeadsHere ==
    ASSUME NEW records, NEW p \in DOMAIN records, NEW x, NEW t \in {Integer} \cup DOMAIN records,
           Variable(x, t) \in ToSet(records[p])
    PROVE  Leads(records, p, Outwards(0, x), t)
  <1> DEFINE types == [i \in 0 .. 1 |-> IF i = 0 THEN p ELSE t]
  <1>1. Len(Outwards(0, x)) = 1 /\ Outwards(0, x)[1] = x
    BY DEF Outwards
  <1>2. types \in [0 .. 1 -> {Integer} \cup DOMAIN records] /\ types[0] = p /\ types[1] = t
    OBVIOUS
  <1> HIDE DEF types
  <1>3. \A i \in 1 .. 1 : types[i - 1] \in DOMAIN records /\ Variable(Outwards(0, x)[i], types[i]) \in ToSet(records[types[i - 1]])
    BY <1>1, <1>2
  <1> QED
    BY <1>1, <1>2, <1>3 DEF Leads

\* No selector stays where it is.
LEMMA LeadsNowhere ==
    ASSUME NEW records, NEW t \in {Integer} \cup DOMAIN records
    PROVE  Leads(records, t, <<>>, t) /\ Len(<<>>) = 0
  <1> DEFINE types == [i \in 0 .. 0 |-> t]
  <1>1. types \in [0 .. 0 -> {Integer} \cup DOMAIN records] /\ types[0] = t /\ Len(<<>>) = 0
    OBVIOUS
  <1> HIDE DEF types
  <1>2. types \in [0 .. Len(<<>>) -> {Integer} \cup DOMAIN records] /\ types[Len(<<>>)] = t
    BY <1>1
  <1>3. \A i \in 1 .. Len(<<>>) : FALSE
    BY <1>1
  <1> QED
    BY <1>1, <1>2, <1>3 DEF Leads

\* From a record, what its _super leads to is one step further away.
LEMMA LeadsOut ==
    ASSUME NEW records, NEW p \in DOMAIN records, NEW g, NEW x, NEW t, NEW n \in Nat,
           Variable(Super, g) \in ToSet(records[p]), Leads(records, g, Outwards(n, x), t)
    PROVE  Leads(records, p, Outwards(n + 1, x), t)
  <1>1. /\ Len(Outwards(n, x)) = n + 1 /\ Len(Outwards(n + 1, x)) = n + 2 /\ Outwards(n + 1, x)[1] = Super
        /\ \A i \in 2 .. n + 2 : Outwards(n + 1, x)[i] = Outwards(n, x)[i - 1]
    BY DEF Outwards
  <1>2. PICK types \in [0 .. n + 1 -> {Integer} \cup DOMAIN records] :
           /\ types[0] = g /\ types[n + 1] = t
           /\ \A i \in 1 .. n + 1 :
                 /\ types[i - 1] \in DOMAIN records
                 /\ Variable(Outwards(n, x)[i], types[i]) \in ToSet(records[types[i - 1]])
    BY <1>1 DEF Leads
  <1> DEFINE new == [i \in 0 .. n + 2 |-> IF i = 0 THEN p ELSE types[i - 1]]
  <1>3. new \in [0 .. n + 2 -> {Integer} \cup DOMAIN records]
    BY <1>2
  <1>4. new[0] = p /\ new[n + 2] = t /\ \A i \in 1 .. n + 2 : new[i] = types[i - 1]
    BY <1>2
  <1> HIDE DEF new
  <1>5. ASSUME NEW i \in 1 .. n + 2
        PROVE  new[i - 1] \in DOMAIN records /\ Variable(Outwards(n + 1, x)[i], new[i]) \in ToSet(records[new[i - 1]])
    <2>1. CASE i = 1
      BY <1>1, <1>2, <1>4, <2>1
    <2>2. CASE i # 1
      <3>1. i \in 2 .. n + 2 /\ i - 1 \in 1 .. n + 1 /\ new[i] = types[i - 1] /\ new[i - 1] = types[(i - 1) - 1]
        BY <1>4, <2>2
      <3>2. types[(i - 1) - 1] \in DOMAIN records /\ Variable(Outwards(n, x)[i - 1], types[i - 1]) \in ToSet(records[types[(i - 1) - 1]])
        BY <1>2, <3>1
      <3> QED
        BY <1>1, <3>1, <3>2
    <2> QED
      BY <2>1, <2>2
  <1> QED
    BY <1>1, <1>3, <1>4, <1>5 DEF Leads

\* What a procedure declares is INTEGER and in its environment.
LEMMA OwnIs ==
    ASSUME OrderInv, NEW p \in ProcNames, NEW d \in Own(source.procs, p)
    PROVE  /\ d.proc = p /\ d = Decl(p, d.name) /\ d.name \notin {This, Super}
           /\ Variable(d.name, Integer) \in ToSet(Environments(p))
           /\ Params(p) # <<>> \/ source.procs[p].vars # <<>>
  <1> DEFINE s == source.procs[p].params
             v == source.procs[p].vars
  <1>1. PICK x \in Names(s) \cup Names(v) : d = Decl(p, x)
    BY DEF Own
  <1>2. d.proc = p /\ d.name = x
    BY <1>1 DEF Decl
  <1>3. /\ DOMAIN s = 1 .. Len(s)
        /\ \A i \in DOMAIN s : s[i].type = Integer /\ s[i].name \notin {This, Super}
        /\ \A i \in DOMAIN v : v[i] = Variable(v[i].name, Integer) /\ v[i].name \notin {This, Super}
    <2>1. \A i \in DOMAIN v : v[i] = Variable(v[i].name, Integer) /\ v[i].name \notin {This, Super}
      BY Declared DEF OrderInv, ProcNames
    <2> QED
      BY <2>1, FormalsAre
  <1>4. CASE x \in Names(s)
    <2>1. PICK i \in DOMAIN s : s[i].name = x
      BY <1>4 DEF Names
    <2>2. s[i].type = Integer
      BY <1>3
    <2>3. Params(p)[i] = s[i] /\ i \in DOMAIN Params(p)
      <3> DEFINE k == Len(s)
                 n == Len(Params(p))
      <3>1. /\ DOMAIN Params(p) = 1 .. n /\ n = k + (IF Given(p) THEN 1 ELSE 0)
            /\ \A j \in 1 .. k : Params(p)[j] = s[j]
        BY GivenIsNamed
      <3>2. i \in 1 .. k /\ k \in Nat
        BY <1>3, FormalsAre
      <3> HIDE DEF s, k, n
      <3> QED
        BY <3>1, <3>2
    <2>4. Variable(x, Integer) \in ToSet(Environments(p))
      BY <2>1, <2>2, <2>3, EnvironmentFields
    <2>5. Params(p) # <<>>
      BY <2>3
    <2> QED
      BY <1>1, <1>2, <1>3, <2>1, <2>4, <2>5
  <1>5. CASE x \in Names(v)
    <2>1. PICK i \in DOMAIN v : v[i].name = x
      BY <1>5 DEF Names
    <2>2. v[i] = Variable(x, Integer)
      BY <1>3, <2>1
    <2>3. Variable(x, Integer) \in ToSet(Environments(p))
      BY <2>2, EnvironmentFields
    <2>4. v # <<>>
      BY <2>1
    <2> QED
      BY <1>1, <1>2, <1>3, <2>1, <2>3, <2>4
  <1> QED
    BY <1>1, <1>4, <1>5

\* What a procedure was given is in its environment.
LEMMA GivenIsField ==
    ASSUME OrderInv, NEW p \in ProcNames, Given(p)
    PROVE  Variable(Super, Parent(p)) \in ToSet(Environments(p))
  <1>1. Len(source.procs[p].params) \in Nat
    BY Declared, Sequences DEF OrderInv, ProcNames
  <1> DEFINE k == Len(source.procs[p].params) + 1
  <1>2. k \in DOMAIN Params(p) /\ Params(p)[k] = Formal(Super, TRUE, Parent(p))
    <2>1. /\ DOMAIN Params(p) = 1 .. Len(Params(p)) /\ Len(Params(p)) = k
          /\ Params(p)[k] = Formal(Super, TRUE, Parent(p))
      BY GivenIsNamed
    <2>2. k \in Nat \ {0}
      BY <1>1
    <2> HIDE DEF k
    <2> QED
      BY <2>1, <2>2
  <1>3. Params(p)[k].name = Super /\ Params(p)[k].type = Parent(p)
    <2>1. Formal(Super, TRUE, Parent(p)).name = Super /\ Formal(Super, TRUE, Parent(p)).type = Parent(p)
      BY DEF Formal
    <2> HIDE DEF k
    <2> QED
      BY <1>2, <2>1
  <1>4. Variable(Params(p)[k].name, Params(p)[k].type) \in ToSet(Environments(p))
    BY <1>2, EnvironmentFields
  <1> QED
    BY <1>3, <1>4

\* The procedure that gave p its environment
LEMMA GiverIs ==
    ASSUME OrderInv, NEW p \in ProcNames, Given(p)
    PROVE  /\ Parent(p) \in ProcNames /\ p \in Children(source, Parent(p)) /\ Shares(Parent(p))
           /\ source.procs[p].scope = source.procs[Parent(p)].scope + 1
           /\ source.procs[Parent(p)].scope \in Nat \ {0}
  <1>1. PICK q \in ProcNames : p \in Children(source, q) /\ Shares(q)
    BY DEF Given
  <1>2. Parent(p) = q
    BY <1>1, Tree
  <1> QED
    BY <1>1, <1>2, Tree

\* What p sees of the procedures around it is in the environment it is given.
LEMMA ReachAround ==
    ASSUME OrderInv, RecordsInv, ChainInv, ReachInv, NEW p \in ToSet(program.order),
           NEW r \in Around(source.procs, p), NEW d \in Own(source.procs, r)
    PROVE  /\ Given(p)
           /\ \E n \in 0 .. source.procs[Parent(p)].scope - 1 :
                 Leads(program.records, Parent(p), Outwards(n, d.name), Integer)
  <1>1. p \in ProcNames /\ NestingOK(source.procs) /\ ProcNames = DOMAIN source.procs
    BY Listed, Beginning DEF OrderInv, ProcNames
  <1>2. r \in ProcNames /\ Children(source, r) # {} /\ r \in Seen /\ (Shares(r) => Given(p))
    BY <1>1, AroundIsNotEmpty DEF ChainInv
  <1>3. Params(r) # <<>> \/ source.procs[r].vars # <<>>
    BY <1>2, OwnIs
  <1>4. source.procs[r].nested # <<>>
    BY <1>2, Single DEF Children
  <1>5. Shares(r)
    <2>1. program.records[r] = Environments(r)
      BY <1>2, <1>3, <1>4 DEF RecordsInv, Environments
    <2> QED
      BY <1>2, <1>3, <2>1, EnvironmentFields DEF Shares
  <1>6. Given(p)
    BY <1>2, <1>5
  <1> DEFINE g == Parent(p)
  <1>7. g \in ProcNames /\ p \in Children(source, g) /\ Shares(g)
    BY <1>1, <1>6, GiverIs
  <1>8. g \in Seen
    BY <1>7, SharingIs
  <1>9. r \in Sees(source.procs, g)
    BY <1>1, <1>7, AroundChild DEF Sees
  <1> QED
    BY <1>6, <1>7, <1>8, <1>9 DEF ReachInv

\* The record of a visited procedure leads to all that it sees.
LEMMA ReachStep ==
    ASSUME OrderInv, NodesInv, RecordsInv, ChainInv, ReachInv, ~Done, NEW b, Visits(Name, b)
    PROVE  ReachInv'
  <1> DEFINE p == Name
             scope(q) == source.procs[q].scope
  <1>1. /\ ProcNames' = ProcNames /\ source' = source /\ Seen' = Seen \cup {p} /\ p \in ProcNames
        /\ p \in ToSet(program.order) /\ p \notin Seen
        /\ DOMAIN program'.records = ProcNames /\ DOMAIN program.records = ProcNames
    BY Changes, OrderStep, Visiting DEF Visits, OrderInv, SameModule
  <1>2. /\ \A r \in ProcNames : program.records[r] # <<>> => program'.records[r] = program.records[r]
        /\ program'.records[p] = IF Sharing(p) THEN Environments(p) ELSE <<>>
    BY Visiting DEF Visits
  <1>3. ASSUME NEW from, NEW path, NEW to, Leads(program.records, from, path, to)
        PROVE  Leads(program'.records, from, path, to)
    BY <1>1, <1>2, <1>3, LeadsGrow
  <1>4. SUFFICES ASSUME NEW q \in Seen \cup {p}, Shares(q)', NEW r \in Sees(source.procs, q), NEW d \in Own(source.procs, r)
                 PROVE  \E n \in 0 .. scope(q) - 1 : Leads(program'.records, q, Outwards(n, d.name), Integer)
    BY <1>1 DEF ReachInv
  <1>5. CASE q \in Seen
    <2>1. q \in ProcNames /\ q # p
      BY <1>1, <1>5, SeenListed
    <2>2. Shares(q)
      BY <1>4, <2>1, Changes
    <2>3. PICK n \in 0 .. scope(q) - 1 : Leads(program.records, q, Outwards(n, d.name), Integer)
      BY <1>5, <2>2 DEF ReachInv
    <2> QED
      BY <1>3, <2>3
  <1>6. CASE q = p
    <2>1. Sharing(p) /\ program'.records[p] = Environments(p)
      BY <1>1, <1>2, <1>4, <1>6, Changes
    <2>2. scope(p) \in Nat \ {0}
      BY <1>1, Nested, Beginning DEF OrderInv, ProcNames
    <2>3. CASE r = p
      <3>1. Variable(d.name, Integer) \in ToSet(program'.records[p])
        BY <1>1, <2>1, <2>3, OwnIs
      <3>2. Leads(program'.records, p, Outwards(0, d.name), Integer)
        BY <1>1, <3>1, LeadsHere
      <3> QED
        BY <1>6, <2>2, <3>2
    <2>4. CASE r # p
      <3>1. r \in Around(source.procs, p)
        BY <1>4, <1>6, <2>4 DEF Sees
      <3> DEFINE g == Parent(p)
      <3>2. Given(p) /\ \E n \in 0 .. scope(g) - 1 : Leads(program.records, g, Outwards(n, d.name), Integer)
        BY <1>1, <3>1, ReachAround
      <3>3. PICK n \in 0 .. scope(g) - 1 : Leads(program.records, g, Outwards(n, d.name), Integer)
        BY <3>2
      <3>4. scope(g) \in Nat \ {0} /\ scope(p) = scope(g) + 1
        BY <1>1, <3>2, GiverIs
      <3>5. Leads(program'.records, g, Outwards(n, d.name), Integer)
        BY <1>3, <3>3
      <3>6. Variable(Super, g) \in ToSet(program'.records[p])
        BY <1>1, <2>1, <3>2, GivenIsField
      <3>7. n \in Nat /\ n + 1 \in 0 .. scope(p) - 1
        BY <3>3, <3>4
      <3>8. Leads(program'.records, p, Outwards(n + 1, d.name), Integer)
        BY <1>1, <3>5, <3>6, <3>7, LeadsOut
      <3> QED
        BY <1>6, <3>7, <3>8
    <2> QED
      BY <2>3, <2>4
  <1> QED
    BY <1>4, <1>5, <1>6

-----------------------------------------------------------------------------
(* What a lifted procedure declares                                        *)

\* Two lists of fields with different names are unambiguous together.
LEMMA Disjoint ==
    ASSUME NEW s, NEW t, IsSequence(s), IsSequence(t), Unambiguous(s), Unambiguous(t), Names(s) \cap Names(t) = {}
    PROVE  Unambiguous(s \o t) /\ Names(s \o t) = Names(s) \cup Names(t)
  <1> DEFINE u == s \o t
             k == Len(s)
             l == Len(t)
  <1>1. /\ k \in Nat /\ l \in Nat /\ DOMAIN s = 1 .. k /\ DOMAIN t = 1 .. l
        /\ DOMAIN u = 1 .. k + l /\ \A i \in 1 .. k + l : u[i] = IF i <= k THEN s[i] ELSE t[i - k]
    BY Sequences, Concat
  <1> HIDE DEF u, k, l
  <1>2. \A i \in 1 .. k + l : IF i <= k THEN i \in DOMAIN s /\ u[i].name = s[i].name
                              ELSE i - k \in DOMAIN t /\ u[i].name = t[i - k].name
    BY <1>1
  <1>3. Names(u) \subseteq Names(s) \cup Names(t)
    BY <1>1, <1>2 DEF Names
  <1>4. ASSUME NEW i \in DOMAIN s PROVE s[i].name \in Names(u)
    BY <1>1, <1>4 DEF Names
  <1>5. ASSUME NEW i \in DOMAIN t PROVE t[i].name \in Names(u)
    <2>1. k + i \in DOMAIN u /\ ~(k + i <= k) /\ (k + i) - k = i
      BY <1>1
    <2>2. u[k + i].name = t[i].name
      BY <1>1, <2>1
    <2> QED
      BY <2>1, <2>2 DEF Names
  <1>6. Names(u) = Names(s) \cup Names(t)
    BY <1>3, <1>4, <1>5 DEF Names
  <1>7. Unambiguous(u)
    <2>1. SUFFICES ASSUME NEW i \in 1 .. k + l, NEW j \in 1 .. k + l, u[i].name = u[j].name PROVE i = j
      BY <1>1 DEF Unambiguous
    <2>2. \A n \in DOMAIN s : s[n].name \in Names(s)
      BY DEF Names
    <2>3. \A n \in DOMAIN t : t[n].name \in Names(t)
      BY DEF Names
    <2>4. (i <= k) <=> (j <= k)
      BY <1>2, <2>1, <2>2, <2>3
    <2>5. CASE i <= k
      BY <1>2, <2>1, <2>4, <2>5 DEF Unambiguous
    <2>6. CASE ~(i <= k)
      <3>1. i - k = j - k
        BY <1>2, <2>1, <2>4, <2>6 DEF Unambiguous
      <3> QED
        BY <1>1, <3>1
    <2> QED
      BY <2>5, <2>6
  <1> QED
    BY <1>6, <1>7 DEF u

\* The names of both parts of a list are distinct.
LEMMA Parts ==
    ASSUME NEW s, NEW t, IsSequence(s), IsSequence(t), Unambiguous(s \o t)
    PROVE  Unambiguous(s) /\ Unambiguous(t) /\ Names(s) \cap Names(t) = {}
  <1> DEFINE u == s \o t
             k == Len(s)
             l == Len(t)
  <1>1. /\ k \in Nat /\ l \in Nat /\ DOMAIN s = 1 .. k /\ DOMAIN t = 1 .. l
        /\ DOMAIN u = 1 .. k + l /\ \A i \in 1 .. k + l : u[i] = IF i <= k THEN s[i] ELSE t[i - k]
    BY Sequences, Concat
  <1> HIDE DEF u, k, l
  <1>2. Unambiguous(u)
    BY DEF u
  <1>3. \A i \in DOMAIN s : i \in DOMAIN u /\ u[i] = s[i]
    BY <1>1
  <1>4. ASSUME NEW i \in DOMAIN t PROVE k + i \in DOMAIN u /\ u[k + i] = t[i]
    <2>1. k + i \in DOMAIN u /\ ~(k + i <= k) /\ (k + i) - k = i
      BY <1>1
    <2> QED
      BY <1>1, <2>1
  <1>5. Unambiguous(s)
    BY <1>2, <1>3 DEF Unambiguous
  <1>6. Unambiguous(t)
    <2>1. SUFFICES ASSUME NEW i \in DOMAIN t, NEW j \in DOMAIN t, t[i].name = t[j].name PROVE i = j
      BY DEF Unambiguous
    <2>2. k + i = k + j
      BY <1>2, <1>4, <2>1 DEF Unambiguous
    <2> QED
      BY <1>1, <2>2
  <1>7. ASSUME NEW i \in DOMAIN s, NEW j \in DOMAIN t, s[i].name = t[j].name PROVE FALSE
    <2>1. i = k + j
      BY <1>2, <1>3, <1>4, <1>7 DEF Unambiguous
    <2> QED
      BY <1>1, <2>1
  <1> QED
    BY <1>5, <1>6, <1>7 DEF Names

\* A field is the one of its name.
LEMMA FieldIn ==
    ASSUME NEW fields, Unambiguous(fields), NEW f \in ToSet(fields)
    PROVE  f.name \in Names(fields) /\ FieldOf(fields, f.name) = f
  <1>1. PICK i \in DOMAIN fields : fields[i] = f
    BY DEF ToSet
  <1>2. \A j \in DOMAIN fields : fields[j].name = f.name => j = i
    BY <1>1 DEF Unambiguous
  <1>3. (CHOOSE j \in DOMAIN fields : fields[j].name = f.name) = i
    BY <1>1, <1>2
  <1> QED
    BY <1>1, <1>3 DEF Names, FieldOf

\* The declarations of a procedure and their types, lifted or not
TypesInv ==
    \A p \in ProcNames :
        /\ Own(program.procs, p) = Own(source.procs, p)
                                       \cup (IF Given(p) THEN {Decl(p, Super)} ELSE {})
                                       \cup (IF Shares(p) THEN {Decl(p, This)} ELSE {})
        /\ \A d \in Own(source.procs, p) : DeclType(program.procs, d) = Integer
        /\ Given(p) => DeclType(program.procs, Decl(p, Super)) = Parent(p)
        /\ Shares(p) => DeclType(program.procs, Decl(p, This)) = p

\* The declarations of the procedures follow from the lists and records.
LEMMA Types ==
    OrderInv /\ NodesInv /\ RecordsInv => TypesInv
  <1> SUFFICES ASSUME OrderInv, NodesInv, RecordsInv, NEW p \in ProcNames
               PROVE  /\ Own(program.procs, p) = Own(source.procs, p)
                                       \cup (IF Given(p) THEN {Decl(p, Super)} ELSE {})
                                       \cup (IF Shares(p) THEN {Decl(p, This)} ELSE {})
                      /\ \A d \in Own(source.procs, p) : DeclType(program.procs, d) = Integer
                      /\ Given(p) => DeclType(program.procs, Decl(p, Super)) = Parent(p)
                      /\ Shares(p) => DeclType(program.procs, Decl(p, This)) = p
    BY DEF TypesInv
  <1> DEFINE s == source.procs[p].params
             v == source.procs[p].vars
             f == Formal(Super, TRUE, Parent(p))
             h == Variable(This, p)
             g == IF Given(p) THEN <<f>> ELSE <<>>
             t == IF Shares(p) THEN <<h>> ELSE <<>>
             a == s \o g
             b == t \o v
             u == a \o b
  <1>1. /\ IsSequence(s) /\ IsSequence(v) /\ Unambiguous(s \o v) /\ p # Module
        /\ \A i \in DOMAIN s : s[i].type = Integer /\ s[i].name \notin {This, Super}
        /\ \A i \in DOMAIN v : v[i].type = Integer /\ v[i].name \notin {This, Super}
    <2>1. /\ IsSequence(s) /\ IsSequence(v) /\ Unambiguous(s \o v) /\ p # Module
          /\ \A i \in DOMAIN v : v[i] = Variable(v[i].name, Integer) /\ v[i].name \notin {This, Super}
      BY Declared DEF OrderInv, ProcNames
    <2>2. DOMAIN s = 1 .. Len(s) /\ \A i \in 1 .. Len(s) : s[i].type = Integer /\ s[i].name \notin {This, Super}
      BY FormalsAre
    <2> HIDE DEF s, v
    <2>3. \A i \in DOMAIN v : v[i].type = Integer
      BY <2>1, Members
    <2> QED
      BY <2>1, <2>2, <2>3
  <1>2. program.procs[p].params = a /\ program.procs[p].vars = b
    BY DEF NodesInv, Params, Vars
  <1>3. This # Super
    BY ProgramsAssumption
  <1>4. f.name = Super /\ f.type = Parent(p) /\ h.name = This /\ h.type = p
    BY DEF Formal, Variable
  <1>5. Unambiguous(s) /\ Unambiguous(v) /\ Names(s) \cap Names(v) = {}
        /\ Names(s) \cap {This, Super} = {} /\ Names(v) \cap {This, Super} = {}
    <2>1. Names(s) \cap {This, Super} = {} /\ Names(v) \cap {This, Super} = {}
      BY <1>1 DEF Names
    <2> HIDE DEF s, v
    <2> QED
      BY <1>1, <2>1, Parts
  <1> HIDE DEF f, h
  <1>6. ASSUME NEW x
        PROVE  Unambiguous(<<x>>) /\ Names(<<x>>) = {x.name} /\ Unambiguous(<<>>) /\ Names(<<>>) = {}
    BY DEF Unambiguous, Names
  <1>7. IsSequence(g) /\ Unambiguous(g) /\ Names(g) = (IF Given(p) THEN {Super} ELSE {})
        /\ (Given(p) => f \in ToSet(g))
    BY <1>4, <1>6, Single
  <1>8. IsSequence(t) /\ Unambiguous(t) /\ Names(t) = (IF Shares(p) THEN {This} ELSE {})
        /\ (Shares(p) => h \in ToSet(t))
    BY <1>4, <1>6, Single
  <1> HIDE DEF g, t
  <1>9. IsSequence(a) /\ Unambiguous(a) /\ Names(a) = Names(s) \cup Names(g) /\ ToSet(a) = ToSet(s) \cup ToSet(g)
    <2>1. Names(s) \cap Names(g) = {}
      BY <1>5, <1>7
    <2> HIDE DEF s
    <2> QED
      BY <1>1, <1>5, <1>7, <2>1, Disjoint, Concat
  <1>10. IsSequence(b) /\ Unambiguous(b) /\ Names(b) = Names(t) \cup Names(v) /\ ToSet(b) = ToSet(t) \cup ToSet(v)
    <2>1. Names(t) \cap Names(v) = {}
      BY <1>5, <1>8
    <2> HIDE DEF v
    <2> QED
      BY <1>1, <1>5, <1>8, <2>1, Disjoint, Concat
  <1> HIDE DEF a, b
  <1>11. Unambiguous(u) /\ ToSet(u) = ToSet(a) \cup ToSet(b)
    <2>1. Names(a) \cap Names(b) = {}
      BY <1>3, <1>5, <1>7, <1>8, <1>9, <1>10
    <2> QED
      BY <1>9, <1>10, <2>1, Disjoint, Concat
  <1> HIDE DEF u
  <1>12. ASSUME NEW x, NEW e \in ToSet(u), e.name = x PROVE DeclType(program.procs, Decl(p, x)) = e.type
    <2>1. FieldOf(u, x) = e
      BY <1>11, <1>12, FieldIn
    <2>2. Decl(p, x).proc = p /\ Decl(p, x).name = x
      BY DEF Decl
    <2>3. DeclType(program.procs, Decl(p, x)) = FieldOf(u, x).type
      BY <1>1, <1>2, <2>2 DEF DeclType, u
    <2> QED
      BY <2>1, <2>3
  <1>13. Given(p) => DeclType(program.procs, Decl(p, Super)) = Parent(p)
    BY <1>4, <1>7, <1>9, <1>11, <1>12
  <1>14. Shares(p) => DeclType(program.procs, Decl(p, This)) = p
    BY <1>4, <1>8, <1>10, <1>11, <1>12
  <1>15. ASSUME NEW d \in Own(source.procs, p) PROVE DeclType(program.procs, d) = Integer
    <2>1. PICK x \in Names(s) \cup Names(v) : d = Decl(p, x)
      BY <1>15 DEF Own
    <2>2. CASE x \in Names(s)
      <3>1. PICK i \in DOMAIN s : s[i].name = x
        BY <2>2 DEF Names
      <3>2. s[i] \in ToSet(u) /\ s[i].type = Integer
        <4>1. s[i] \in ToSet(s)
          BY <3>1 DEF ToSet
        <4>2. s[i].type = Integer
          BY <1>1, <3>1
        <4> QED
          BY <1>9, <1>11, <4>1, <4>2
      <3> QED
        BY <1>12, <2>1, <3>1, <3>2
    <2>3. CASE x \in Names(v)
      <3>1. PICK i \in DOMAIN v : v[i].name = x
        BY <2>3 DEF Names
      <3>2. v[i] \in ToSet(u) /\ v[i].type = Integer
        <4>1. v[i] \in ToSet(v)
          BY <3>1 DEF ToSet
        <4>2. v[i].type = Integer
          BY <1>1, <3>1
        <4> QED
          BY <1>10, <1>11, <4>1, <4>2
      <3> QED
        BY <1>12, <2>1, <3>1, <3>2
    <2> QED
      BY <2>1, <2>2, <2>3
  <1>16. Own(program.procs, p) = Own(source.procs, p)
                                   \cup (IF Given(p) THEN {Decl(p, Super)} ELSE {})
                                   \cup (IF Shares(p) THEN {Decl(p, This)} ELSE {})
    <2>1. Names(a) \cup Names(b) = (Names(s) \cup Names(v)) \cup (IF Given(p) THEN {Super} ELSE {})
                                     \cup (IF Shares(p) THEN {This} ELSE {})
      BY <1>7, <1>8, <1>9, <1>10
    <2>2. Own(program.procs, p) = {Decl(p, x) : x \in Names(a) \cup Names(b)}
      BY <1>2 DEF Own
    <2>3. Own(source.procs, p) = {Decl(p, x) : x \in Names(s) \cup Names(v)}
      BY DEF Own
    <2> DEFINE X == Names(s) \cup Names(v)
               Y == Names(a) \cup Names(b)
    <2>4. CASE Given(p) /\ Shares(p)
      <3>1. Y = X \cup {Super, This}
        BY <2>1, <2>4
      <3> HIDE DEF X, Y
      <3>2. {Decl(p, x) : x \in Y} = {Decl(p, x) : x \in X} \cup {Decl(p, Super), Decl(p, This)}
        BY <3>1
      <3> QED
        BY <2>2, <2>3, <2>4, <3>2 DEF X, Y
    <2>5. CASE Given(p) /\ ~Shares(p)
      <3>1. Y = X \cup {Super}
        BY <2>1, <2>5
      <3> HIDE DEF X, Y
      <3>2. {Decl(p, x) : x \in Y} = {Decl(p, x) : x \in X} \cup {Decl(p, Super)}
        BY <3>1
      <3> QED
        BY <2>2, <2>3, <2>5, <3>2 DEF X, Y
    <2>6. CASE ~Given(p) /\ Shares(p)
      <3>1. Y = X \cup {This}
        BY <2>1, <2>6
      <3> HIDE DEF X, Y
      <3>2. {Decl(p, x) : x \in Y} = {Decl(p, x) : x \in X} \cup {Decl(p, This)}
        BY <3>1
      <3> QED
        BY <2>2, <2>3, <2>6, <3>2 DEF X, Y
    <2>7. CASE ~Given(p) /\ ~Shares(p)
      <3>1. Y = X
        BY <2>1, <2>7
      <3> QED
        BY <2>2, <2>3, <2>7, <3>1
    <2> QED
      BY <2>4, <2>5, <2>6, <2>7
  <1> QED
    BY <1>13, <1>14, <1>15, <1>16

\* The same of the next state
LEMMA TypesNext ==
    OrderInv' /\ NodesInv' /\ RecordsInv' => TypesInv'
  BY Types, PTL

-----------------------------------------------------------------------------
(* What was visited stays typed                                            *)

\* A visit leaves what was visited before alone.
LEMMA SeenIsLeft ==
    ASSUME OrderInv, NodesInv, RecordsInv, ~Done, NEW b, Visits(Name, b), NEW q \in Seen
    PROVE  /\ q \in ProcNames /\ q # Name /\ program'.procs[q] = program.procs[q]
           /\ (Shares(q)' <=> Shares(q)) /\ (Given(q)' <=> Given(q))
  <1>1. q \in ProcNames /\ q # Name /\ q \in ToSet(program.order)
    BY SeenListed, Visiting
  <1>2. q \notin Children(source, Name)
    BY <1>1, Changes
  <1>3. program'.procs[q] = program.procs[q]
    BY <1>1, <1>2 DEF Visits
  <1> QED
    BY <1>1, <1>2, <1>3, Changes

\* An expression of what was visited before stays typed.
LEMMA TypedStays ==
    ASSUME OrderInv, NodesInv, RecordsInv, ~Done, NEW b, Visits(Name, b), NEW q \in Seen,
           NEW e, NEW t, Typed(q, e, t)
    PROVE  Typed(q, e, t)'
  <1>1. q \in ProcNames /\ program'.procs[q] = program.procs[q]
    BY SeenIsLeft
  <1>2. CASE e.decl = Literal
    BY <1>2 DEF Typed
  <1>3. CASE e.decl # Literal
    <2>1. /\ e.decl.proc = Module \/ e.decl \in Own(program.procs, q)
          /\ Len(e.path) \in Nat
          /\ Leads(program.records, DeclType(program.procs, e.decl), e.path, t)
      BY <1>3 DEF Typed
    <2>2. Own(program'.procs, q) = Own(program.procs, q)
      BY <1>1 DEF Own
    <2>3. DeclType(program'.procs, e.decl) = DeclType(program.procs, e.decl)
      <3>1. e.decl.proc = Module \/ e.decl.proc = q
        BY <2>1 DEF Own, Decl
      <3> QED
        BY <1>1, <3>1 DEF DeclType
    <2>4. /\ DOMAIN program'.records = DOMAIN program.records
          /\ \A r \in DOMAIN program.records : program.records[r] # <<>> => program'.records[r] = program.records[r]
      BY Visiting DEF Visits, SameModule, OrderInv
    <2> DEFINE from == DeclType(program.procs, e.decl)
               path == e.path
    <2> HIDE DEF from, path
    <2>5. Leads(program.records, from, path, t)
      BY <2>1 DEF from, path
    <2>6. Leads(program'.records, from, path, t)
      BY <2>4, <2>5, LeadsGrow
    <2>7. Leads(program'.records, DeclType(program'.procs, e.decl), e.path, t)
      BY <2>3, <2>6 DEF from, path
    <2> QED
      BY <1>3, <2>1, <2>2, <2>7 DEF Typed
  <1> QED
    BY <1>2, <1>3

\* The same of a statement
LEMMA StatementStays ==
    ASSUME OrderInv, NodesInv, RecordsInv, ~Done, NEW b, Visits(Name, b), NEW q \in Seen,
           NEW s, StatementTyped(q, s)
    PROVE  StatementTyped(q, s)'
  <1>1. /\ ProcNames' = ProcNames /\ source' = source /\ Seen' = Seen \cup {Name}
        /\ (Shares(q)' <=> Shares(q)) /\ (Given(q)' <=> Given(q))
    BY Changes, OrderStep, SeenIsLeft DEF Visits
  <1>2. \A e, t : Typed(q, e, t) => Typed(q, e, t)'
    BY TypedStays
  <1>3. CASE s.op = "assign" /\ \E t \in {Integer} \cup ProcNames : Typed(q, s.lhs, t) /\ Typed(q, s.rhs, t)
    BY <1>1, <1>2, <1>3 DEF StatementTyped
  <1>4. CASE s.op = "if" /\ Typed(q, s.cond, Integer)
    BY <1>2, <1>4 DEF StatementTyped
  <1>5. CASE s.op = "return" /\ (s.value = None \/ Typed(q, s.value, Integer))
    BY <1>2, <1>5 DEF StatementTyped
  <1>6. CASE s.op = "call" /\ CallTyped(q, s)
    <2>1. s.proc \in ProcNames /\ Settled(s.proc)
      BY <1>6 DEF CallTyped
    <2>2. Settled(s.proc)'
      BY <1>1, <2>1 DEF Settled, Children
    <2>3. s.proc \notin Children(source, Name)
      BY <2>1, Visiting DEF Settled
    <2>4. Given(s.proc)' <=> Given(s.proc)
      BY <2>1, <2>3, Changes
    <2>5. Environment(q)' = Environment(q)
      BY <1>1 DEF Environment
    <2>6. Environment(q)' = Environment(q) => Plain(Environment(q))' = Plain(Environment(q))
      BY DEF Plain
    <2>7. CallTyped(q, s)'
      BY <1>1, <1>2, <1>6, <2>1, <2>2, <2>4, <2>5, <2>6 DEF CallTyped
    <2> QED
      BY <1>6, <2>7 DEF StatementTyped
  <1> QED
    BY <1>3, <1>4, <1>5, <1>6 DEF StatementTyped

-----------------------------------------------------------------------------
(* What a procedure may mention                                            *)

\* A callee is settled when the caller is visited, and only a caller that
\* shares something or is given something calls one with an environment.
LEMMA Callee ==
    ASSUME OrderInv, NodesInv, RecordsInv, ChainInv, ~Done, NEW b, Visits(Name, b), NEW c \in ProcNames,
           source.procs[c].scope = 1 \/ \E q \in Sees(source.procs, Name) : c \in ToSet(source.procs[q].nested)
    PROVE  Settled(c)' /\ (Given(c)' => Given(Name) \/ Sharing(Name))
  <1>1. /\ ProcNames' = ProcNames /\ source' = source /\ Seen' = Seen \cup {Name} /\ Name \in ProcNames
        /\ Name \in ToSet(program.order) /\ Name \notin Seen
        /\ NestingOK(source.procs) /\ ProcNames = DOMAIN source.procs
    BY Changes, OrderStep, Visiting, Beginning DEF Visits, OrderInv, ProcNames
  <1>2. CASE source.procs[c].scope = 1
    <2>1. \A r \in ProcNames : c \notin Children(source, r)
      BY <1>2, Tree
    <2>2. ~Given(c)'
      BY <1>1, <1>2, <2>1, RootIsNotGiven, Changes
    <2> QED
      BY <1>1, <2>1, <2>2 DEF Settled, Children
  <1>3. CASE \E q \in Sees(source.procs, Name) : c \in ToSet(source.procs[q].nested)
    <2>1. PICK q \in Sees(source.procs, Name) : c \in Children(source, q)
      BY <1>3 DEF Children
    <2>2. q = Name \/ q \in Around(source.procs, Name)
      BY DEF Sees
    <2>3. q \in ProcNames /\ q \in Seen \cup {Name}
      BY <1>1, <2>2, AroundIsNotEmpty DEF ChainInv
    <2>4. \A r \in ProcNames : c \in Children(source, r) => r = q
      BY <1>1, <2>1, <2>3, ParentIsOne
    <2>5. Settled(c)'
      BY <1>1, <2>3, <2>4 DEF Settled, Children
    <2>6. ASSUME Given(c)' PROVE Given(Name) \/ Sharing(Name)
      <3>1. CASE Given(c)
        <4>1. Shares(q)
          BY <2>1, <2>3, <3>1, Tree
        <4>2. q \in Around(source.procs, Name)
          BY <2>2, <4>1, Changes
        <4> QED
          BY <1>1, <4>1, <4>2 DEF ChainInv
      <3>2. CASE ~Given(c)
        BY <2>6, <3>2, Changes
      <3> QED
        BY <3>1, <3>2
    <2> QED
      BY <2>5, <2>6
  <1> QED
    BY <1>2, <1>3

Accepts(p, e) == ExpressionOK(source, p, e)

\* The statements of a procedure, as they were accepted
LEMMA Statement ==
    ASSUME NEW p, NEW s, StatementOK(source, p, s)
    PROVE  \/ s.op = "assign" /\ s = Assign(s.lhs, s.rhs) /\ Accepts(p, s.lhs) /\ Accepts(p, s.rhs)
           \/ s.op = "if" /\ s = If(s.cond, s.then) /\ Accepts(p, s.cond)
           \/ s.op = "return" /\ s = Return(s.value) /\ (s.value = None \/ Accepts(p, s.value))
           \/ /\ s.op = "call" /\ s = CallTo(s.to, s.proc, s.args) /\ (s.to = None \/ Accepts(p, s.to))
              /\ s.proc \in ProcNames
              /\ source.procs[s.proc].scope = 1 \/ \E q \in Sees(source.procs, p) : s.proc \in ToSet(source.procs[q].nested)
              /\ IsSequence(s.args) /\ Len(s.args) = Len(source.procs[s.proc].params)
              /\ \A i \in DOMAIN s.args : Accepts(p, s.args[i])
  BY DEF StatementOK, Accepts, ProcNames

\* An expression is a number, a variable of the module, or one of a procedure.
LEMMA Kinds ==
    ASSUME NEW p, NEW e, Accepts(p, e)
    PROVE  /\ e.path = <<>> /\ e = Ref(e.decl, <<>>, e.add)
           /\ \/ e.decl = Literal
              \/ e.decl.proc = Module
              \/ e.decl \in Own(source.procs, p)
              \/ \E r \in Around(source.procs, p) : e.decl \in Own(source.procs, r)
  <1>1. e = Ref(e.decl, <<>>, e.add)
    BY DEF Accepts, ExpressionOK
  <1>2. e.path = <<>>
    BY <1>1 DEF Ref
  <1>3. \A x : Decl(Module, x).proc = Module
    BY DEF Decl
  <1>4. e.decl \in {Literal} \cup {Decl(Module, x) : x \in ToSet(source.globals)}
                     \cup UNION {Own(source.procs, q) : q \in Sees(source.procs, p)}
    BY DEF Accepts, ExpressionOK
  <1>5. CASE e.decl \in UNION {Own(source.procs, q) : q \in Sees(source.procs, p)}
    <2>1. PICK q \in Sees(source.procs, p) : e.decl \in Own(source.procs, q)
      BY <1>5
    <2> QED
      BY <1>1, <1>2, <2>1 DEF Sees
  <1> QED
    BY <1>1, <1>2, <1>3, <1>4, <1>5

UnambiguousInv == \A r \in DOMAIN program.records : Unambiguous(program.records[r])

\* No record has two fields of a name,
LEMMA UnambiguousNow ==
    OrderInv /\ RecordsInv => UnambiguousInv
  BY RecordsUnambiguous DEF UnambiguousInv

\* nor has one in the next state.
LEMMA UnambiguousNext ==
    OrderInv' /\ RecordsInv' => UnambiguousInv'
  BY UnambiguousNow, PTL

\* The declarations of the procedures after a visit
LEMMA NewTypes ==
    ASSUME OrderInv, NodesInv, RecordsInv, ~Done, NEW b, Visits(Name, b), NEW q \in ProcNames
    PROVE  /\ Own(source.procs, q) \subseteq Own(program'.procs, q)
           /\ Given(q)' => /\ Decl(q, Super) \in Own(program'.procs, q)
                           /\ DeclType(program'.procs, Decl(q, Super)) = Parent(q)
           /\ Shares(q)' => /\ Decl(q, This) \in Own(program'.procs, q)
                            /\ DeclType(program'.procs, Decl(q, This)) = q
           /\ \A d \in Own(source.procs, q) : DeclType(program'.procs, d) = Integer
           /\ program'.procs[q].params = Params(q)' /\ program'.procs[q].vars = Vars(q)'
  <1>1. OrderInv' /\ NodesInv' /\ RecordsInv'
    BY OrderStep, NodesStep, RecordsStep
  <1>2. TypesInv'
    BY <1>1, TypesNext
  <1>3. source' = source /\ ProcNames' = ProcNames /\ Parent(q)' = Parent(q)
    BY Changes DEF Visits
  <1>4. /\ Own(program'.procs, q) = Own(source.procs, q)
                                       \cup (IF Given(q)' THEN {Decl(q, Super)} ELSE {})
                                       \cup (IF Shares(q)' THEN {Decl(q, This)} ELSE {})
        /\ \A d \in Own(source.procs, q) : DeclType(program'.procs, d) = Integer
        /\ Given(q)' => DeclType(program'.procs, Decl(q, Super)) = Parent(q)
        /\ Shares(q)' => DeclType(program'.procs, Decl(q, This)) = q
    BY <1>2, <1>3 DEF TypesInv
  <1>5. program'.procs[q].params = Params(q)' /\ program'.procs[q].vars = Vars(q)'
    BY <1>1, <1>3 DEF NodesInv
  <1> QED
    BY <1>4, <1>5

\* A declaration without selectors has its own type.
LEMMA PlainTyped ==
    ASSUME OrderInv, NodesInv, RecordsInv, ~Done, NEW b, Visits(Name, b), NEW p, NEW e, e.path = <<>>,
           e.decl.proc = Module \/ e.decl \in Own(program'.procs, p),
           NEW t \in {Integer} \cup ProcNames, DeclType(program'.procs, e.decl) = t, e.decl # Literal
    PROVE  Typed(p, e, t)'
  <1>1. DOMAIN program'.records = ProcNames
    BY DEF Visits, SameModule, OrderInv
  <1>2. Leads(program'.records, t, e.path, t) /\ Len(e.path) \in Nat
    BY <1>1, LeadsNowhere
  <1> QED
    BY <1>2 DEF Typed

\* What is p's own or the module's needs no environment.
LEMMA OwnTyped ==
    ASSUME OrderInv, NodesInv, RecordsInv, ~Done, NEW b, Visits(Name, b), NEW p \in ProcNames, NEW e, Accepts(p, e),
           e.decl = Literal \/ e.decl.proc = Module \/ e.decl \in Own(source.procs, p)
    PROVE  Typed(p, e, Integer)'
  <1>1. e.path = <<>>
    BY Kinds
  <1>2. CASE e.decl = Literal
    BY <1>2 DEF Typed
  <1>3. CASE e.decl # Literal /\ e.decl.proc = Module
    <2>1. DeclType(program'.procs, e.decl) = Integer
      BY <1>3 DEF DeclType
    <2> QED
      BY <1>1, <1>3, <2>1, PlainTyped
  <1>4. CASE e.decl # Literal /\ e.decl \in Own(source.procs, p)
    <2>1. DeclType(program'.procs, e.decl) = Integer /\ e.decl \in Own(program'.procs, p)
      BY <1>4, NewTypes
    <2> QED
      BY <1>1, <1>4, <2>1, PlainTyped
  <1> QED
    BY <1>2, <1>3, <1>4

\* A procedure that neither gets nor has an environment needs none.
LEMMA LeftTyped ==
    ASSUME OrderInv, NodesInv, RecordsInv, ChainInv, ReachInv, ~Done, NEW b, Visits(Name, b), NEW p, p = Name,
           ~Given(p), ~Sharing(p), NEW s \in ToSet(source.procs[p].body)
    PROVE  StatementTyped(p, s)'
  <1>1. p \in ProcNames /\ p \in ToSet(program.order)
    BY Visiting
  <1>2. ASSUME NEW e, Accepts(p, e) PROVE Typed(p, e, Integer)'
    <2>1. \A r \in Around(source.procs, p) : Own(source.procs, r) = {}
      BY <1>1, ReachAround
    <2>2. e.decl = Literal \/ e.decl.proc = Module \/ e.decl \in Own(source.procs, p)
      BY <1>2, <2>1, Kinds
    <2> QED
      BY <1>1, <1>2, <2>2, OwnTyped
  <1>3. StatementOK(source, p, s)
    BY <1>1, Declared DEF OrderInv, ProcNames
  <1>4. CASE s.op = "assign" /\ Accepts(p, s.lhs) /\ Accepts(p, s.rhs)
    BY <1>2, <1>4 DEF StatementTyped
  <1>5. CASE s.op = "if" /\ Accepts(p, s.cond)
    BY <1>2, <1>5 DEF StatementTyped
  <1>6. CASE s.op = "return" /\ (s.value = None \/ Accepts(p, s.value))
    BY <1>2, <1>6 DEF StatementTyped
  <1>7. CASE /\ s.op = "call" /\ (s.to = None \/ Accepts(p, s.to)) /\ s.proc \in ProcNames
             /\ source.procs[s.proc].scope = 1 \/ \E q \in Sees(source.procs, p) : s.proc \in ToSet(source.procs[q].nested)
             /\ IsSequence(s.args) /\ Len(s.args) = Len(source.procs[s.proc].params)
             /\ \A i \in DOMAIN s.args : Accepts(p, s.args[i])
    <2>1. Settled(s.proc)' /\ ~Given(s.proc)'
      BY <1>7, Callee
    <2>2. ProcNames' = ProcNames /\ source' = source
      BY Changes DEF Visits
    <2>3. DOMAIN s.args = 1 .. Len(s.args)
      BY <1>7, Sequences
    <2>4. CallTyped(p, s)'
      BY <1>2, <1>7, <2>1, <2>2, <2>3 DEF CallTyped
    <2> QED
      BY <1>7, <2>4 DEF StatementTyped
  <1> QED
    BY <1>3, <1>4, <1>5, <1>6, <1>7, Statement

-----------------------------------------------------------------------------
(* What is rewritten                                                       *)

\* The module that the body of p is rewritten in, with p's environment env
Prepared(p, prog, env) ==
    /\ DOMAIN prog.procs = ProcNames /\ prog.records = program'.records
    /\ \A q \in ProcNames :
          /\ prog.procs[q].params = Params(q)' /\ prog.procs[q].vars = Vars(q)'
          /\ prog.procs[q].scope = IF q \in Seen THEN 1 ELSE source.procs[q].scope
    /\ \/ Sharing(p) /\ env = Decl(p, This)
       \/ Given(p) /\ source.procs[p].nested = <<>> /\ source.procs[p].scope > 1 /\ env = Decl(p, Super)

\* The types that the rewriting sees are the ones after the visit.
LEMMA PreparedTypes ==
    ASSUME OrderInv, NodesInv, RecordsInv, ~Done, NEW b, Visits(Name, b), NEW p, NEW prog, NEW env, Prepared(p, prog, env),
           NEW d, d.proc \in ProcNames
    PROVE  DeclType(prog.procs, d) = DeclType(program'.procs, d)
  <1>1. /\ prog.procs[d.proc].params = Params(d.proc)' /\ prog.procs[d.proc].vars = Vars(d.proc)'
    BY DEF Prepared
  <1>2. program'.procs[d.proc].params = Params(d.proc)' /\ program'.procs[d.proc].vars = Vars(d.proc)'
    BY NewTypes
  <1> QED
    BY <1>1, <1>2 DEF DeclType

\* Whatever the body of p mentions, what it is replaced by is typed.
LEMMA Resolved ==
    ASSUME OrderInv, NodesInv, RecordsInv, ChainInv, ReachInv, ~Done, NEW b, Visits(Name, b), NEW p, p = Name,
           NEW prog, NEW env, Prepared(p, prog, env), NEW e, Accepts(p, e)
    PROVE  Typed(p, Resolve(prog, env, e), Integer)'
  <1> DEFINE d == e.decl
             scope(q) == source.procs[q].scope
  <1>1. /\ p \in ProcNames /\ p \in ToSet(program.order) /\ p \notin Seen /\ p # Module
        /\ NestingOK(source.procs) /\ ProcNames = DOMAIN source.procs /\ scope(p) \in Nat \ {0}
        /\ source' = source /\ ProcNames' = ProcNames /\ Seen' = Seen \cup {p}
        /\ Decl(p, This) # Literal /\ Decl(p, Super) # Literal /\ This # Super
    <2>1. p \in ProcNames /\ p \in ToSet(program.order) /\ p \notin Seen
      BY Visiting
    <2>2. NestingOK(source.procs) /\ ProcNames = DOMAIN source.procs
      BY Beginning DEF OrderInv, ProcNames
    <2>3. scope(p) \in Nat \ {0}
      BY <2>1, <2>2, Nested
    <2>4. p # Module /\ Decl(p, This) # Literal /\ Decl(p, Super) # Literal
      BY <2>1, Declared DEF OrderInv, ProcNames
    <2>5. source' = source /\ ProcNames' = ProcNames
      BY Changes DEF Visits
    <2>6. Seen' = Seen \cup {p}
      BY OrderStep
    <2> QED
      BY <2>1, <2>2, <2>3, <2>4, <2>5, <2>6, ProgramsAssumption
  <1>2. e.path = <<>> /\ e = Ref(d, <<>>, e.add)
    BY Kinds
  <1>3. env.proc = p /\ ScopeOf(prog, env) = scope(p) + 1 /\ (env.name = Super <=> env = Decl(p, Super))
    BY <1>1 DEF Prepared, Decl, ScopeOf
  <1>4. CASE d = Literal
    <2>1. Resolve(prog, env, e) = e
      BY <1>4 DEF Resolve
    <2> QED
      BY <1>1, <1>4, <2>1, OwnTyped
  <1>5. CASE d # Literal /\ d.proc = Module
    <2>1. Resolve(prog, env, e) = e
      BY <1>5 DEF Resolve, ScopeOf
    <2> QED
      BY <1>1, <1>5, <2>1, OwnTyped
  <1>6. CASE d # Literal /\ d \in Own(source.procs, p) /\ env = Decl(p, Super)
    <2>1. d.proc = p
      BY <1>1, <1>6, OwnIs
    <2>2. ScopeOf(prog, env) = ScopeOf(prog, d) /\ env.name = Super
      BY <1>3, <1>6, <2>1 DEF ScopeOf
    <2>3. Resolve(prog, env, e) = e
      BY <2>2 DEF Resolve
    <2> QED
      BY <1>1, <1>6, <2>3, OwnTyped
  <1>7. ASSUME d # Literal, NEW q \in Sees(source.procs, p), d \in Own(source.procs, q), q # p \/ env = Decl(p, This)
        PROVE  Typed(p, Resolve(prog, env, e), Integer)'
    <2> DEFINE x == d.name
    <2>1. q \in ProcNames /\ (q # p => q \in Around(source.procs, p) /\ q \in Seen)
      BY <1>1, <1>7, AroundIsNotEmpty DEF Sees, ChainInv
    <2>2. d.proc = q /\ q # Module /\ scope(q) \in Nat \ {0}
      BY <1>1, <1>7, <2>1, OwnIs, Declared, Nested DEF OrderInv
    <2>3. ScopeOf(prog, d) = (IF q \in Seen THEN 1 ELSE scope(q)) + 1
      BY <2>1, <2>2 DEF ScopeOf, Prepared
    <2>4. DeclType(prog.procs, d) = Integer /\ DeclType(prog.procs, env) = DeclType(program'.procs, env)
      <3>1. DeclType(program'.procs, d) = Integer
        BY <1>7, <2>1, NewTypes
      <3> HIDE DEF d
      <3> QED
        BY <1>1, <1>3, <2>1, <2>2, <3>1, PreparedTypes
    <2>5. /\ ScopeOf(prog, d) # 1 /\ ~(env.name = Super /\ ScopeOf(prog, env) = ScopeOf(prog, d))
          /\ env \in Own(program'.procs, p)
          /\ \E n \in 0 .. scope(p) : Leads(program'.records, DeclType(program'.procs, env), Outwards(n, x), Integer)
      <3>1. CASE Sharing(p) /\ env = Decl(p, This)
        <4>1. Shares(p)'
          BY <1>1, <3>1, Changes
        <4>2. DeclType(program'.procs, env) = p /\ env \in Own(program'.procs, p)
          BY <1>1, <3>1, <4>1, NewTypes
        <4>3. ReachInv'
          BY ReachStep
        <4>4. \E n \in 0 .. scope(p) - 1 : Leads(program'.records, p, Outwards(n, x), Integer)
          BY <1>1, <1>7, <4>1, <4>3 DEF ReachInv
        <4>5. env.name # Super
          BY <1>1, <3>1 DEF Decl
        <4> QED
          BY <1>1, <2>2, <2>3, <4>2, <4>4, <4>5
      <3>2. CASE Given(p) /\ source.procs[p].nested = <<>> /\ scope(p) > 1 /\ env = Decl(p, Super)
        <4>1. q # p
          BY <1>1, <1>7, <3>2 DEF Decl
        <4>2. Given(p)'
          BY <1>1, <3>2, Changes
        <4>3. DeclType(program'.procs, env) = Parent(p) /\ env \in Own(program'.procs, p)
          BY <1>1, <3>2, <4>2, NewTypes
        <4>4. \E n \in 0 .. scope(Parent(p)) - 1 : Leads(program.records, Parent(p), Outwards(n, x), Integer)
          BY <1>1, <1>7, <2>1, <4>1, ReachAround
        <4>5. PICK n \in 0 .. scope(Parent(p)) - 1 : Leads(program.records, Parent(p), Outwards(n, x), Integer)
          BY <4>4
        <4>6. scope(p) = scope(Parent(p)) + 1 /\ scope(Parent(p)) \in Nat \ {0}
          BY <1>1, <3>2, GiverIs
        <4>7. /\ DOMAIN program'.records = DOMAIN program.records
              /\ \A r \in DOMAIN program.records : program.records[r] # <<>> => program'.records[r] = program.records[r]
          BY Visiting DEF Visits, SameModule, OrderInv
        <4>8. Leads(program'.records, Parent(p), Outwards(n, x), Integer)
          BY <4>5, <4>7, LeadsGrow
        <4>9. ScopeOf(prog, d) = 2 /\ n \in 0 .. scope(p)
          BY <2>1, <2>3, <4>1, <4>5, <4>6
        <4>10. ScopeOf(prog, d) # 1 /\ ScopeOf(prog, env) # ScopeOf(prog, d)
          <5>1. ScopeOf(prog, env) = scope(p) + 1 /\ scope(p) \in Nat /\ scope(p) > 1 /\ ScopeOf(prog, d) = 2
            BY <1>1, <1>3, <3>2, <4>9
          <5> HIDE DEF d, scope
          <5> QED
            BY <5>1
        <4>11. n \in 0 .. scope(p) /\ Leads(program'.records, DeclType(program'.procs, env), Outwards(n, x), Integer)
          BY <4>3, <4>8, <4>9
        <4> HIDE DEF d, x, scope
        <4> QED
          BY <4>3, <4>10, <4>11
      <3> QED
        BY <3>1, <3>2 DEF Prepared
    <2>6. PICK n \in 0 .. scope(p) : Leads(program'.records, DeclType(program'.procs, env), Outwards(n, x), Integer)
      BY <2>5
    <2>7. \A r \in DOMAIN program'.records : Unambiguous(program'.records[r])
      <3>1. OrderInv' /\ RecordsInv'
        BY OrderStep, RecordsStep
      <3> QED
        BY <3>1, UnambiguousNext DEF UnambiguousInv
    <2>8. \E m \in 0 .. n : /\ FieldPath(prog, env, d) = Outwards(m, x)
                            /\ Leads(prog.records, DeclType(prog.procs, env), Outwards(m, x), DeclType(prog.procs, d))
      <3>1. prog.records = program'.records
        BY DEF Prepared
      <3>2. ScopeOf(prog, env) \in Nat /\ n \in 0 .. ScopeOf(prog, env)
        BY <1>1, <1>3, <2>6
      <3>3. \A r \in DOMAIN prog.records : Unambiguous(prog.records[r])
        BY <2>7, <3>1
      <3>4. Leads(prog.records, DeclType(prog.procs, env), Outwards(n, d.name), DeclType(prog.procs, d))
        BY <2>4, <2>6, <3>1
      <3> HIDE DEF d
      <3>5. \E m \in 0 .. n : /\ FieldPath(prog, env, d) = Outwards(m, d.name)
                              /\ Leads(prog.records, DeclType(prog.procs, env), Outwards(m, d.name), DeclType(prog.procs, d))
        BY ONLY <3>2, <3>3, <3>4, FieldPathLeads
      <3> QED
        BY <3>5
    <2>9. PICK m \in 0 .. n : /\ FieldPath(prog, env, d) = Outwards(m, x)
                              /\ Leads(prog.records, DeclType(prog.procs, env), Outwards(m, x), DeclType(prog.procs, d))
      BY <2>8
    <2>10. Outwards(m, x) \o <<>> = Outwards(m, x) /\ Len(Outwards(m, x)) \in Nat
      <3>1. m \in Nat
        BY <1>1, <2>9
      <3>2. IsSequence(Outwards(m, x)) /\ Len(Outwards(m, x)) = m + 1
        BY <3>1, Tuples DEF Outwards
      <3> QED
        BY <3>1, <3>2, Concat, Single
    <2>11. Resolve(prog, env, e) = Ref(env, Outwards(m, x), e.add)
      <3>1. Resolve(prog, env, e) = [e EXCEPT !.decl = env, !.path = FieldPath(prog, env, d) \o @]
        BY <1>7, <2>5 DEF Resolve, ModuleScope
      <3>2. FieldPath(prog, env, d) \o e.path = Outwards(m, x)
        BY <1>2, <2>9, <2>10
      <3>3. Resolve(prog, env, e) = [e EXCEPT !.decl = env, !.path = Outwards(m, x)]
        BY <1>2, <3>1, <3>2
      <3> QED
        BY <1>2, <3>3 DEF Ref
    <2> DEFINE new == Ref(env, Outwards(m, x), e.add)
    <2>12. new.decl = env /\ new.path = Outwards(m, x)
      BY DEF Ref
    <2>13. Leads(program'.records, DeclType(program'.procs, env), Outwards(m, x), Integer)
      BY <2>4, <2>9 DEF Prepared
    <2> HIDE DEF new
    <2>14. Typed(p, new, Integer)'
      BY <2>5, <2>10, <2>12, <2>13 DEF Typed
    <2> QED
      BY <2>11, <2>14 DEF new
  <1> QED
    <2>1. CASE d \in Own(source.procs, p)
      BY <1>4, <1>6, <1>7, <2>1 DEF Prepared, Sees
    <2>2. CASE \E r \in Around(source.procs, p) : d \in Own(source.procs, r)
      <3>1. PICK r \in Around(source.procs, p) : d \in Own(source.procs, r)
        BY <2>2
      <3>2. r \in Sees(source.procs, p) /\ r # p
        BY <1>1, <3>1, AroundIsNotEmpty, SMTT(40) DEF Sees, ChainInv
      <3> QED
        BY <1>4, <1>7, <3>1, <3>2
    <2> QED
      BY <1>4, <1>5, <2>1, <2>2, Kinds

\* After a visit a procedure has a parameter more if it is given an environment.
LEMMA NewLength ==
    ASSUME OrderInv, NodesInv, RecordsInv, ~Done, NEW b, Visits(Name, b), NEW q \in ProcNames
    PROVE  Len(Params(q)') = Len(source.procs[q].params) + IF Given(q)' THEN 1 ELSE 0
  <1>1. /\ Given(q)' <=> Given(q) \/ (q \in Children(source, Name) /\ Sharing(Name))
        /\ (q \in Children(source, Name) => ~Given(q))
    BY Changes
  <1>2. Len(Params(q)) = Len(source.procs[q].params) + (IF Given(q) THEN 1 ELSE 0) /\ IsSequence(Params(q))
    BY GivenIsNamed
  <1>3. CASE Sharing(Name) /\ q \in Children(source, Name)
    <2>1. Params(q)' = Params(q) \o <<Formal(Super, TRUE, Name)>>
      BY <1>2, <1>3, NewParams, Appending
    <2> DEFINE f == Formal(Super, TRUE, Name)
               w == Params(q)
               k == Len(source.procs[q].params)
    <2>2. Len(w \o <<f>>) = Len(w) + 1
      <3>1. IsSequence(<<f>>) /\ Len(<<f>>) = 1 /\ IsSequence(w)
        BY <1>2, Single
      <3> HIDE DEF f, w
      <3> QED
        BY <3>1, Concat
    <2>3. k \in Nat /\ ~Given(q) /\ Given(q)'
      BY <1>1, <1>3, FormalsAre
    <2>4. Len(w) = k
      BY <1>2, <2>3
    <2>5. Len(Params(q)') = k + 1
      BY <2>1, <2>2, <2>4
    <2> QED
      BY <2>3, <2>5
  <1>4. CASE ~(Sharing(Name) /\ q \in Children(source, Name))
    BY <1>1, <1>2, <1>4, NewParams
  <1> QED
    BY <1>3, <1>4

\* Calls get the environment if and only if the callee does.
LEMMA CallRewritten ==
    ASSUME OrderInv, NodesInv, RecordsInv, ChainInv, ReachInv, ~Done, NEW b, Visits(Name, b), NEW p, p = Name,
           NEW prog, NEW env, Prepared(p, prog, env), NEW s,
           s.op = "call", s = CallTo(s.to, s.proc, s.args), s.to = None \/ Accepts(p, s.to), s.proc \in ProcNames,
           source.procs[s.proc].scope = 1 \/ \E q \in Sees(source.procs, p) : s.proc \in ToSet(source.procs[q].nested),
           IsSequence(s.args), Len(s.args) = Len(source.procs[s.proc].params),
           \A i \in DOMAIN s.args : Accepts(p, s.args[i])
    PROVE  StatementTyped(p, Rewritten(prog, env, s))'
  <1> DEFINE c == s.proc
             args == [i \in DOMAIN s.args |-> Resolve(prog, env, s.args[i])]
             n == Len(s.args)
  <1>1. n \in Nat /\ DOMAIN s.args = 1 .. n /\ ProcNames' = ProcNames /\ source' = source
    BY Sequences, Changes DEF Visits
  <1>2. ASSUME NEW e, Accepts(p, e) PROVE Typed(p, Resolve(prog, env, e), Integer)'
    BY <1>2, Resolved
  <1>3. IsSequence(args) /\ Len(args) = n /\ DOMAIN args = 1 .. n /\ \A i \in 1 .. n : args[i] = Resolve(prog, env, s.args[i])
    BY <1>1, Tuples
  <1>4. Len(prog.procs[c].params) = n + IF Given(c)' THEN 1 ELSE 0
    BY NewLength DEF Prepared
  <1>5. PICK all : all = Actuals(prog, env, s)
    OBVIOUS
  <1>6. PICK to : to = IF s.to = None THEN None ELSE Resolve(prog, env, s.to)
    OBVIOUS
  <1>7. PICK new : new = CallTo(to, c, all)
    OBVIOUS
  <1>8. Rewritten(prog, env, s) = new
    <2>1. Rewritten(prog, env, s) = [s EXCEPT !.args = all, !.to = to]
      BY <1>5, <1>6 DEF Rewritten
    <2> QED
      BY <1>7, <2>1 DEF CallTo
  <1>9. new.op = "call" /\ new.to = to /\ new.proc = c /\ new.args = all
    BY <1>7 DEF CallTo
  <1>10. all = IF Given(c)' THEN Append(args, Plain(env)) ELSE args
    <2>1. all = IF Len(prog.procs[c].params) > Len(args) THEN Append(args, Plain(env)) ELSE args
      BY <1>5 DEF Actuals
    <2>2. n \in Nat /\ Len(args) = n
      BY <1>1, <1>3
    <2> HIDE DEF args, c, n
    <2>3. Len(prog.procs[c].params) > Len(args) <=> Given(c)'
      BY <1>4, <2>2
    <2> QED
      BY <2>1, <2>3
  <1> HIDE DEF args
  <1>11. /\ DOMAIN all = 1 .. Len(all) /\ \A i \in 1 .. n : all[i] = args[i]
        /\ Len(all) = n + (IF Given(c)' THEN 1 ELSE 0) /\ (Given(c)' => all[n + 1] = Plain(env))
    <2>1. CASE Given(c)'
      <3>1. all = args \o <<Plain(env)>>
        BY <1>3, <1>10, <2>1, Appending
      <3> DEFINE one == <<Plain(env)>>
      <3>2. IsSequence(one) /\ Len(one) = 1 /\ one[1] = Plain(env)
        BY Single
      <3>3. n \in Nat /\ Len(args) = n /\ IsSequence(args)
        BY <1>1, <1>3
      <3> HIDE DEF n, one
      <3>4. /\ Len(args \o one) = n + 1 /\ DOMAIN (args \o one) = 1 .. n + 1
            /\ \A i \in 1 .. n + 1 : (args \o one)[i] = IF i <= n THEN args[i] ELSE one[i - n]
        <4> DEFINE w == args \o one
        <4>1. /\ Len(w) = Len(args) + Len(one) /\ DOMAIN w = 1 .. Len(args) + Len(one)
              /\ \A i \in 1 .. Len(args) + Len(one) : w[i] = IF i <= Len(args) THEN args[i] ELSE one[i - Len(args)]
          BY <3>2, <3>3, Concat
        <4> HIDE DEF w
        <4>2. Len(w) = n + 1 /\ DOMAIN w = 1 .. n + 1 /\ \A i \in 1 .. n + 1 : w[i] = IF i <= n THEN args[i] ELSE one[i - n]
          BY <3>2, <3>3, <4>1
        <4> QED
          BY <4>2 DEF w
      <3>5. (n + 1) - n = 1 /\ n + 1 \in 1 .. n + 1 /\ ~(n + 1 <= n) /\ \A i \in 1 .. n : i \in 1 .. n + 1 /\ i <= n
        BY <3>3
      <3>6. all = args \o one
        BY <3>1 DEF one
      <3> QED
        BY <2>1, <3>2, <3>4, <3>5, <3>6
    <2>2. CASE ~Given(c)'
      BY <1>1, <1>3, <1>10, <2>2
    <2> QED
      BY <2>1, <2>2
  <1>12. to = None \/ Typed(p, to, Integer)'
    <2>1. CASE s.to = None
      BY <1>6, <2>1
    <2>2. CASE s.to # None
      <3>1. Typed(p, Resolve(prog, env, s.to), Integer)'
        BY <1>2, <2>2
      <3>2. to = Resolve(prog, env, s.to)
        BY <1>6, <2>2
      <3> QED
        BY <3>1, <3>2
    <2> QED
      BY <2>1, <2>2
  <1>13. \A i \in 1 .. n : Typed(p, all[i], Integer)'
    <2> TAKE i \in 1 .. n
    <2>1. all[i] = Resolve(prog, env, s.args[i]) /\ Accepts(p, s.args[i])
      BY <1>1, <1>3, <1>11
    <2>2. Typed(p, Resolve(prog, env, s.args[i]), Integer)'
      BY <1>2, <2>1
    <2> QED
      BY <2>1, <2>2
  <1>14. Settled(c)'
    BY Callee
  <1>15. Environment(p)' = env /\ (Shares(p)' \/ (source.procs[p].nested = <<>> /\ Given(p)'))
    <2>1. p \in ProcNames /\ (Shares(p)' <=> Sharing(p)) /\ (Given(p) => Given(p)')
      BY Changes, SMTT(30)
    <2> QED
      BY <2>1 DEF Prepared, Environment, Sharing
  <1>16. CallTyped(p, new)'
    <2>1. new.proc \in ProcNames' /\ Settled(new.proc)' /\ (new.to = None \/ Typed(p, new.to, Integer)')
      BY <1>1, <1>9, <1>12, <1>14
    <2>2. DOMAIN new.args = 1 .. Len(new.args) /\ Len(source'.procs[new.proc].params) = n
      BY <1>1, <1>9, <1>11
    <2>3. \A i \in 1 .. n : Typed(p, new.args[i], Integer)'
      BY <1>9, <1>13
    <2>4. IF Given(new.proc)'
          THEN /\ Shares(p)' \/ (source'.procs[p].nested = <<>> /\ Given(p)')
               /\ Len(new.args) = n + 1 /\ new.args[n + 1] = Plain(Environment(p)')
          ELSE Len(new.args) = n
      <3>1. n \in Nat
        BY <1>1
      <3> HIDE DEF n
      <3> QED
        BY <1>1, <1>9, <1>11, <1>15, <3>1
    <2> HIDE DEF n
    <2> QED
      BY <2>1, <2>2, <2>3, <2>4 DEF CallTyped
  <1>17. StatementTyped(p, new)'
    BY <1>9, <1>16 DEF StatementTyped
  <1> QED
    BY <1>8, <1>17

\* Whatever a statement is, its rewritten form is typed.
LEMMA RewrittenTyped ==
    ASSUME OrderInv, NodesInv, RecordsInv, ChainInv, ReachInv, ~Done, NEW b, Visits(Name, b), NEW p, p = Name,
           NEW prog, NEW env, Prepared(p, prog, env), NEW s, StatementOK(source, p, s)
    PROVE  StatementTyped(p, Rewritten(prog, env, s))'
  <1> DEFINE R(e) == Resolve(prog, env, e)
  <1>1. ASSUME NEW e, Accepts(p, e) PROVE Typed(p, Resolve(prog, env, e), Integer)'
    BY <1>1, Resolved
  <1>2. CASE s.op = "assign" /\ s = Assign(s.lhs, s.rhs) /\ Accepts(p, s.lhs) /\ Accepts(p, s.rhs)
    <2> DEFINE new == Assign(R(s.lhs), R(s.rhs))
    <2>1. Rewritten(prog, env, s) = new
      <3>1. Rewritten(prog, env, s) = [s EXCEPT !.lhs = Resolve(prog, env, s.lhs), !.rhs = Resolve(prog, env, s.rhs)]
        BY <1>2 DEF Rewritten
      <3> QED
        BY <1>2, <3>1 DEF Assign
    <2>2. new.op = "assign" /\ new.lhs = R(s.lhs) /\ new.rhs = R(s.rhs)
      BY DEF Assign
    <2>3. Typed(p, R(s.lhs), Integer)' /\ Typed(p, R(s.rhs), Integer)'
      BY <1>1, <1>2
    <2> HIDE DEF new, R
    <2>4. StatementTyped(p, new)'
      BY <2>2, <2>3 DEF StatementTyped
    <2> QED
      BY <2>1, <2>4
  <1>3. CASE s.op = "if" /\ s = If(s.cond, s.then) /\ Accepts(p, s.cond)
    <2> DEFINE new == If(R(s.cond), s.then)
    <2>1. Rewritten(prog, env, s) = new
      <3>1. Rewritten(prog, env, s) = [s EXCEPT !.cond = Resolve(prog, env, s.cond)]
        BY <1>3 DEF Rewritten
      <3> QED
        BY <1>3, <3>1 DEF If
    <2>2. new.op = "if" /\ new.cond = R(s.cond)
      BY DEF If
    <2>3. Typed(p, R(s.cond), Integer)'
      BY <1>1, <1>3
    <2> HIDE DEF new, R
    <2>4. StatementTyped(p, new)'
      BY <2>2, <2>3 DEF StatementTyped
    <2> QED
      BY <2>1, <2>4
  <1>4. CASE s.op = "return" /\ s = Return(s.value) /\ (s.value = None \/ Accepts(p, s.value))
    <2> DEFINE value == IF s.value = None THEN None ELSE R(s.value)
               new == Return(value)
    <2>1. Rewritten(prog, env, s) = new
      <3>1. Rewritten(prog, env, s) = [s EXCEPT !.value = value]
        BY <1>4 DEF Rewritten
      <3> HIDE DEF value
      <3> QED
        BY <1>4, <3>1 DEF Return
    <2>2. new.op = "return" /\ new.value = value
      BY DEF Return
    <2>3. value = None \/ Typed(p, value, Integer)'
      <3>1. CASE s.value = None
        BY <3>1
      <3>2. CASE s.value # None
        <4>1. Typed(p, R(s.value), Integer)' /\ value = R(s.value)
          BY <1>1, <1>4, <3>2
        <4> HIDE DEF value, R
        <4> QED
          BY <4>1
      <3> QED
        BY <3>1, <3>2
    <2> HIDE DEF new, value
    <2>4. StatementTyped(p, new)'
      BY <2>2, <2>3 DEF StatementTyped
    <2> QED
      BY <2>1, <2>4
  <1>5. CASE /\ s.op = "call" /\ s = CallTo(s.to, s.proc, s.args) /\ (s.to = None \/ Accepts(p, s.to))
             /\ s.proc \in ProcNames
             /\ source.procs[s.proc].scope = 1 \/ \E q \in Sees(source.procs, p) : s.proc \in ToSet(source.procs[q].nested)
             /\ IsSequence(s.args) /\ Len(s.args) = Len(source.procs[s.proc].params)
             /\ \A i \in DOMAIN s.args : Accepts(p, s.args[i])
    BY <1>5, CallRewritten
  <1> QED
    BY <1>2, <1>3, <1>4, <1>5, Statement

\* A rewritten body has the rewritten statements.
LEMMA RewriteSet ==
    ASSUME NEW prog, NEW env, NEW body, IsSequence(body)
    PROVE  /\ IsSequence(Rewrite(prog, env, body))
           /\ \A s \in ToSet(Rewrite(prog, env, body)) : \E r \in ToSet(body) : s = Rewritten(prog, env, r)
  <1> DEFINE new == Rewrite(prog, env, body)
             n == Len(body)
  <1>1. n \in Nat /\ DOMAIN body = 1 .. n /\ \A i \in 1 .. n : body[i] \in ToSet(body)
    BY Sequences
  <1>2. new = [i \in 1 .. n |-> Rewritten(prog, env, body[i])]
    BY <1>1 DEF Rewrite
  <1>3. IsSequence(new) /\ DOMAIN new = 1 .. n /\ \A i \in 1 .. n : new[i] = Rewritten(prog, env, body[i])
    BY <1>1, <1>2, Tuples
  <1> HIDE DEF new
  <1> QED
    BY <1>1, <1>3 DEF ToSet, new

-----------------------------------------------------------------------------
(* What is copied in and out                                               *)

\* What copies the parameters back is assignments of fields to parameters.
LEMMA CopiedBack ==
    ASSUME NEW p, NEW params, IsSequence(params)
    PROVE  /\ IsSequence(CopyBacks(p, params))
           /\ \A s \in ToSet(CopyBacks(p, params)) : \E i \in DOMAIN params : s = CopyBack(p, params[i].name)
  <1> DEFINE K == Len(params)
             one(i) == IF params[i].var /\ params[i].name # Super THEN <<CopyBack(p, params[i].name)>> ELSE <<>>
             More(f, i) == f[i - 1] \o one(i)
             Backs(f, k) == f = [i \in 0 .. k |-> IF i = 0 THEN <<>> ELSE More(f, i)]
             back == CHOOSE f : Backs(f, K)
  <1>1. K \in Nat /\ DOMAIN params = 1 .. K
    BY Sequences
  <1>2. CopyBacks(p, params) = back[K]
    BY DEF CopyBacks
  <1> HIDE DEF K, one
  <1>3. Backs(back, K)
    <2> DEFINE S == {k \in 0 .. K : \E f : Backs(f, k)}
    <2>1. 0 \in S
      <3> DEFINE zero == [i \in 0 .. 0 |-> <<>>]
      <3>1. Backs(zero, 0)
        OBVIOUS
      <3> HIDE DEF zero, Backs
      <3> QED
        BY <1>1, <3>1
    <2>2. ASSUME NEW k \in 1 .. K, k - 1 \in S PROVE k \in S
      <3>1. PICK f : Backs(f, k - 1)
        BY <2>2
      <3> DEFINE g == [i \in 0 .. k |-> IF i < k THEN f[i] ELSE More(f, k)]
      <3>2. \A i \in 1 .. k : g[i - 1] = f[i - 1]
        <4> HIDE DEF More
        <4> QED
          BY <1>1
      <3>3. \A i \in 1 .. k : More(g, i) = More(f, i)
        <4> HIDE DEF g
        <4> TAKE i \in 1 .. k
        <4>1. g[i - 1] = f[i - 1]
          BY <3>2
        <4> QED
          BY <4>1
      <3>4. \A i \in 0 .. k : g[i] = IF i = 0 THEN <<>> ELSE More(g, i)
        <4> TAKE i \in 0 .. k
        <4> HIDE DEF More
        <4>1. f[0] = <<>> /\ (i \in 1 .. k - 1 => f[i] = More(f, i))
          BY <1>1, <3>1
        <4>2. CASE i = 0
          BY <1>1, <4>1, <4>2
        <4>3. CASE i \in 1 .. k - 1
          BY <1>1, <4>1, <4>3, <3>3
        <4>4. CASE i = k
          BY <1>1, <4>4, <3>3
        <4> QED
          BY <1>1, <4>2, <4>3, <4>4
      <3>5. Backs(g, k)
        <4> HIDE DEF More
        <4> QED
          BY <3>4
      <3> HIDE DEF g, Backs
      <3> QED
        BY <3>5
    <2>3. K \in S
      <3> HIDE DEF S
      <3>1. 0 .. K \subseteq S
        BY <1>1, <2>1, <2>2, UpTo
      <3> QED
        BY <1>1, <3>1
    <2> HIDE DEF Backs
    <2> QED
      BY <2>3
  <1> HIDE DEF back
  <1> DEFINE Good(t) == IsSequence(t) /\ \A s \in ToSet(t) : \E i \in 1 .. K : s = CopyBack(p, params[i].name)
             T == {k \in 0 .. K : Good(back[k])}
  <1>4. 0 \in T
    <2>1. back[0] = <<>> /\ 0 \in 0 .. K
      BY <1>1, <1>3
    <2>2. Good(<<>>)
      BY Single
    <2> HIDE DEF Good
    <2> QED
      BY <2>1, <2>2
  <1>5. ASSUME NEW k \in 1 .. K, k - 1 \in T PROVE k \in T
    <2>1. Good(back[k - 1])
      BY <1>5
    <2>2. back[k] = back[k - 1] \o one(k)
      <3>1. k \in 0 .. K /\ k # 0
        OBVIOUS
      <3> QED
        BY <1>3, <3>1
    <2>3. Good(one(k))
      BY Single DEF one
    <2> DEFINE a == back[k - 1]
               c == one(k)
    <2> HIDE DEF a, c
    <2>4. ASSUME Good(a), Good(c) PROVE Good(a \o c)
      <3>1. IsSequence(a \o c) /\ ToSet(a \o c) = ToSet(a) \cup ToSet(c)
        BY <2>4, Concat
      <3> QED
        BY <2>4, <3>1
    <2>5. Good(a \o c)
      <3>1. Good(a) /\ Good(c)
        BY <2>1, <2>3 DEF a, c
      <3> HIDE DEF Good
      <3> QED
        BY <2>4, <3>1
    <2>6. back[k] = a \o c
      BY <2>2 DEF a, c
    <2> HIDE DEF Good
    <2>7. Good(back[k]) /\ k \in 0 .. K
      BY <2>5, <2>6
    <2> QED
      BY <2>7
  <1>6. K \in T
    <2> HIDE DEF T
    <2>1. 0 .. K \subseteq T
      BY <1>1, <1>4, <1>5, UpTo
    <2> QED
      BY <1>1, <2>1
  <1> QED
    BY <1>1, <1>2, <1>6

\* The same of _super, too
LEMMA CopiedOut ==
    ASSUME NEW p, NEW node, IsSequence(node.params)
    PROVE  /\ IsSequence(CopyOut(p, node))
           /\ \A s \in ToSet(CopyOut(p, node)) : \E i \in DOMAIN node.params : s = CopyBack(p, node.params[i].name)
  <1> DEFINE a == CopyBacks(p, node.params)
             c == IF node.scope > ModuleScope /\ Super \in Names(node.params) THEN <<CopyBack(p, Super)>> ELSE <<>>
  <1>1. IsSequence(a) /\ \A s \in ToSet(a) : \E i \in DOMAIN node.params : s = CopyBack(p, node.params[i].name)
    BY CopiedBack
  <1>2. IsSequence(c) /\ \A s \in ToSet(c) : \E i \in DOMAIN node.params : s = CopyBack(p, node.params[i].name)
    BY Single DEF Names
  <1>3. CopyOut(p, node) = a \o c
    BY DEF CopyOut
  <1> HIDE DEF a, c
  <1>4. IsSequence(a \o c) /\ ToSet(a \o c) = ToSet(a) \cup ToSet(c)
    BY <1>1, <1>2, Concat
  <1> QED
    BY <1>1, <1>2, <1>3, <1>4

CopyOfIn(p, x) == Assign(Ref(Decl(p, This), <<x>>, 0), Plain(Decl(p, x)))

\* What copies the parameters in is assignments of parameters to fields.
LEMMA CopiedIn ==
    ASSUME NEW p, NEW params, IsSequence(params)
    PROVE  /\ IsSequence(CopyIn(p, params))
           /\ \A s \in ToSet(CopyIn(p, params)) : \E i \in DOMAIN params : s = CopyOfIn(p, params[i].name)
  <1> DEFINE new == CopyIn(p, params)
             n == Len(params)
  <1>1. n \in Nat /\ DOMAIN params = 1 .. n
    BY Sequences
  <1>2. new = [i \in 1 .. n |-> CopyOfIn(p, params[i].name)]
    BY <1>1 DEF CopyIn, CopyOfIn
  <1>3. IsSequence(new) /\ DOMAIN new = 1 .. n /\ \A i \in 1 .. n : new[i] = CopyOfIn(p, params[i].name)
    BY <1>1, <1>2, Tuples
  <1> HIDE DEF new
  <1> QED
    BY <1>1, <1>3 DEF ToSet, new

\* A parameter and its field are of one type, _super's too.
LEMMA Copies ==
    ASSUME OrderInv, NodesInv, RecordsInv, ~Done, NEW b, Visits(Name, b), NEW p, p = Name, Sharing(p),
           NEW i \in DOMAIN Params(p), NEW x, x = Params(p)[i].name
    PROVE  StatementTyped(p, CopyOfIn(p, x))' /\ StatementTyped(p, CopyBack(p, x))'
  <1> DEFINE s == source.procs[p].params
             k == Len(s)
             field == Ref(Decl(p, This), <<x>>, 0)
             plain == Plain(Decl(p, x))
  <1>1. /\ p \in ProcNames /\ DOMAIN program'.records = ProcNames /\ ProcNames' = ProcNames
        /\ program'.records[p] = Environments(p)
        /\ Decl(p, This) # Literal /\ Decl(p, Super) # Literal /\ p # Module
        /\ IsSequence(s) /\ k \in Nat /\ DOMAIN s = 1 .. k
        /\ \A j \in DOMAIN s : s[j] = Formal(s[j].name, s[j].var, Integer)
    BY Visiting, Changes, Declared, Sequences, SMTT(40) DEF Visits, SameModule, OrderInv, ProcNames
  <1>2. PICK t : t = Params(p)[i].type
    OBVIOUS
  <1>3. IF i \in DOMAIN s THEN Params(p)[i] = s[i] ELSE Given(p) /\ Params(p)[i] = Formal(Super, TRUE, Parent(p))
    <2>1. /\ DOMAIN Params(p) = 1 .. Len(Params(p)) /\ Len(Params(p)) = k + (IF Given(p) THEN 1 ELSE 0)
          /\ \A j \in 1 .. k : Params(p)[j] = s[j]
          /\ Given(p) => Params(p)[k + 1] = Formal(Super, TRUE, Parent(p))
      BY <1>1, GivenIsNamed
    <2>2. i \in 1 .. Len(Params(p)) /\ DOMAIN s = 1 .. k /\ k \in Nat
      BY <1>1, <2>1
    <2> HIDE DEF s, k
    <2>3. CASE i \in DOMAIN s
      BY <2>1, <2>2, <2>3
    <2>4. CASE i \notin DOMAIN s
      <3>1. Given(p) /\ i = k + 1
        BY <2>1, <2>2, <2>4
      <3> QED
        BY <2>1, <2>4, <3>1
    <2> QED
      BY <2>3, <2>4
  <1>4. /\ i \in DOMAIN s => t = Integer /\ x = s[i].name
        /\ i \notin DOMAIN s => t = Parent(p) /\ x = Super /\ Given(p)
    <2>1. CASE i \in DOMAIN s
      <3>1. s[i] = Formal(s[i].name, s[i].var, Integer) /\ Params(p)[i] = s[i]
        BY <1>1, <1>3, <2>1
      <3>2. s[i].type = Integer
        BY <3>1, Members
      <3> QED
        BY <1>2, <2>1, <3>1, <3>2
    <2>2. CASE i \notin DOMAIN s
      <3>1. Params(p)[i] = Formal(Super, TRUE, Parent(p)) /\ Given(p)
        BY <1>3, <2>2
      <3>2. Formal(Super, TRUE, Parent(p)).name = Super /\ Formal(Super, TRUE, Parent(p)).type = Parent(p)
        BY DEF Formal
      <3> QED
        BY <1>2, <2>2, <3>1, <3>2
    <2> QED
      BY <2>1, <2>2
  <1>5. t \in {Integer} \cup ProcNames
    BY <1>1, <1>4, GiverIs
  <1>6. Typed(p, field, t)'
    <2>1. Variable(x, t) \in ToSet(program'.records[p])
      BY <1>1, <1>2, EnvironmentFields
    <2>2. Leads(program'.records, p, Outwards(0, x), t)
      BY <1>1, <1>5, <2>1, LeadsHere
    <2>3. Outwards(0, x) = <<x>> /\ Len(<<x>>) \in Nat
      BY DEF Outwards
    <2>4. Shares(p)'
      BY <1>1, Changes
    <2>5. Decl(p, This) \in Own(program'.procs, p) /\ DeclType(program'.procs, Decl(p, This)) = p
      BY <1>1, <2>4, NewTypes
    <2>6. field.decl = Decl(p, This) /\ field.path = <<x>>
      BY DEF Ref
    <2> HIDE DEF field
    <2> QED
      BY <1>1, <2>2, <2>3, <2>5, <2>6 DEF Typed
  <1>7. Typed(p, plain, t)'
    <2>1. plain.decl = Decl(p, x) /\ plain.path = <<>>
      BY DEF Plain, Ref
    <2> HIDE DEF plain
    <2>2. CASE i \in DOMAIN s
      <3>1. x \in Names(s) /\ t = Integer
        BY <1>4, <2>2 DEF Names
      <3>2. Decl(p, x) \in Own(source.procs, p)
        BY <3>1 DEF Own
      <3>3. Decl(p, x) \in Own(program'.procs, p) /\ DeclType(program'.procs, Decl(p, x)) = Integer
        BY <1>1, <3>2, NewTypes
      <3>4. CASE Decl(p, x) = Literal
        BY <2>1, <3>1, <3>4 DEF Typed
      <3>5. CASE Decl(p, x) # Literal
        BY <1>5, <2>1, <3>1, <3>3, <3>5, PlainTyped
      <3> QED
        BY <3>4, <3>5
    <2>3. CASE i \notin DOMAIN s
      <3>1. x = Super /\ t = Parent(p) /\ Given(p)
        BY <1>4, <2>3
      <3>2. Given(p)'
        BY <1>1, <3>1, Changes
      <3>3. Decl(p, x) \in Own(program'.procs, p) /\ DeclType(program'.procs, Decl(p, x)) = t
        BY <1>1, <3>1, <3>2, NewTypes
      <3> QED
        BY <1>1, <1>5, <2>1, <3>1, <3>3, PlainTyped
    <2> QED
      BY <2>2, <2>3
  <1> HIDE DEF field, plain
  <1>8. /\ CopyOfIn(p, x).op = "assign" /\ CopyOfIn(p, x).lhs = field /\ CopyOfIn(p, x).rhs = plain
        /\ CopyBack(p, x).op = "assign" /\ CopyBack(p, x).lhs = plain /\ CopyBack(p, x).rhs = field
    BY DEF CopyOfIn, CopyBack, Assign, field, plain
  <1> QED
    BY <1>1, <1>5, <1>6, <1>7, <1>8, SMTT(40) DEF StatementTyped

\* With the copies before and after it, the whole body is typed.
LEMMA LiftedTyped ==
    ASSUME OrderInv, NodesInv, RecordsInv, ChainInv, ReachInv, ~Done, NEW b, Visits(Name, b), NEW p, p = Name,
           NEW prog, Prepared(p, prog, Decl(p, This)), Sharing(p),
           NEW node, node.params = Params(p), node.body = source.procs[p].body,
           NEW s \in ToSet(LiftBody(prog, p, node))
    PROVE  StatementTyped(p, s)'
  <1>1. p \in ProcNames /\ IsSequence(Params(p)) /\ IsSequence(source.procs[p].body)
        /\ \A r \in ToSet(source.procs[p].body) : StatementOK(source, p, r)
    BY Visiting, GivenIsNamed, Declared DEF OrderInv, ProcNames
  <1> DEFINE A == CopyIn(p, node.params)
             B == Rewrite(prog, Decl(p, This), node.body)
             C == CopyOut(p, node)
  <1>2. IsSequence(A) /\ \A r \in ToSet(A) : \E i \in DOMAIN Params(p) : r = CopyOfIn(p, Params(p)[i].name)
    BY <1>1, CopiedIn
  <1>3. IsSequence(B) /\ \A r \in ToSet(B) : \E q \in ToSet(source.procs[p].body) : r = Rewritten(prog, Decl(p, This), q)
    BY <1>1, RewriteSet
  <1>4. IsSequence(C) /\ \A r \in ToSet(C) : \E i \in DOMAIN Params(p) : r = CopyBack(p, Params(p)[i].name)
    BY <1>1, CopiedOut
  <1>5. LiftBody(prog, p, node) = A \o B \o C
    BY DEF LiftBody
  <1> HIDE DEF A, B, C
  <1>6. IsSequence(A \o B) /\ ToSet(A \o B) = ToSet(A) \cup ToSet(B)
    BY <1>2, <1>3, Concat
  <1> DEFINE D == A \o B
  <1>7. IsSequence(D) /\ ToSet(D) = ToSet(A) \cup ToSet(B) /\ LiftBody(prog, p, node) = D \o C
    BY <1>5, <1>6
  <1> HIDE DEF D
  <1>8. ToSet(LiftBody(prog, p, node)) = ToSet(A) \cup ToSet(B) \cup ToSet(C)
    BY <1>4, <1>7, Concat
  <1>9. CASE s \in ToSet(A)
    <2>1. PICK i \in DOMAIN Params(p) : s = CopyOfIn(p, Params(p)[i].name)
      BY <1>2, <1>9
    <2>2. PICK x : x = Params(p)[i].name
      OBVIOUS
    <2>3. StatementTyped(p, CopyOfIn(p, x))' /\ s = CopyOfIn(p, x)
      BY <2>1, <2>2, Copies
    <2> QED
      BY <2>3
  <1>10. CASE s \in ToSet(B)
    <2>1. PICK q \in ToSet(source.procs[p].body) : s = Rewritten(prog, Decl(p, This), q)
      BY <1>3, <1>10
    <2>2. StatementTyped(p, Rewritten(prog, Decl(p, This), q))'
      BY <1>1, RewrittenTyped
    <2> QED
      BY <2>1, <2>2
  <1>11. CASE s \in ToSet(C)
    <2>1. PICK i \in DOMAIN Params(p) : s = CopyBack(p, Params(p)[i].name)
      BY <1>4, <1>11
    <2>2. PICK x : x = Params(p)[i].name
      OBVIOUS
    <2>3. StatementTyped(p, CopyBack(p, x))' /\ s = CopyBack(p, x)
      BY <2>1, <2>2, Copies
    <2> QED
      BY <2>3
  <1> QED
    BY <1>8, <1>9, <1>10, <1>11

-----------------------------------------------------------------------------
(* The invariant is kept                                                   *)

\* If what a visit leaves p as its body is typed, the invariant is kept.
LEMMA VisitKeeps ==
    ASSUME Inv, ~Done, NEW b, Visits(Name, b), NEW p, p = Name, \A s \in ToSet(b) : StatementTyped(p, s)'
    PROVE  Inv'
  <1>1. OrderInv /\ NodesInv /\ RecordsInv /\ ChainInv /\ ReachInv /\ BodiesInv
    BY DEF Inv
  <1>2. Seen' = Seen \cup {p} /\ program'.procs[p].body = b
    BY <1>1, OrderStep DEF Visits
  <1>3. BodiesInv'
    <2>1. ASSUME NEW q \in Seen, NEW s \in ToSet(program.procs[q].body) PROVE StatementTyped(q, s)'
      BY <1>1, <2>1, StatementStays DEF BodiesInv
    <2>2. \A q \in Seen : program'.procs[q] = program.procs[q]
      BY <1>1, SeenIsLeft
    <2> QED
      BY <1>2, <2>1, <2>2 DEF BodiesInv
  <1> QED
    BY <1>1, <1>3, OrderStep, NodesStep, RecordsStep, ChainStep, ReachStep DEF Inv

\* A visit that rewrites nothing keeps the invariant.
LEMMA PlainKeeps ==
    ASSUME Inv, VisitPlainProcedure \/ LiftSuperWithoutEnvironment
    PROVE  Inv'
  <1>1. OrderInv /\ NodesInv /\ RecordsInv /\ ChainInv /\ ReachInv /\ BodiesInv
    BY DEF Inv
  <1>2. PICK p : p = Name
    OBVIOUS
  <1>3. ~Done /\ ~Given(p) /\ ~Sharing(p) /\ Visits(Name, source.procs[p].body)
    BY <1>1, <1>2, PlainVisit, WithoutVisit DEF Sharing
  <1>4. PICK b : b = source.procs[p].body
    OBVIOUS
  <1>5. Visits(Name, b)
    BY <1>3, <1>4
  <1>6. \A s \in ToSet(b) : StatementTyped(p, s)'
    BY <1>1, <1>2, <1>3, <1>4, <1>5, LeftTyped
  <1> QED
    BY <1>2, <1>3, <1>5, <1>6, VisitKeeps

\* A visit of a procedure without nested ones does.
LEMMA LeafKeeps ==
    ASSUME Inv, LiftLeaf
    PROVE  Inv'
  <1>1. OrderInv /\ NodesInv /\ RecordsInv /\ ChainInv /\ ReachInv /\ BodiesInv
    BY DEF Inv
  <1>2. PICK p : p = Name
    OBVIOUS
  <1>3. PICK prog : prog = program
    OBVIOUS
  <1> DEFINE body == source.procs[p].body
             env == Decl(p, Super)
  <1>4. /\ ~Done /\ source.procs[p].nested = <<>> /\ source.procs[p].scope > 1 /\ ~Sharing(p)
        /\ Visits(Name, IF Given(p) THEN Rewrite(prog, env, body) ELSE body)
        /\ program'.records = prog.records
    BY <1>1, <1>2, <1>3, LeafVisit DEF Sharing
  <1>5. PICK b : b = IF Given(p) THEN Rewrite(prog, env, body) ELSE body
    OBVIOUS
  <1>6. Visits(Name, b)
    BY <1>4, <1>5
  <1>7. p \in ProcNames
    BY <1>1, <1>2, <1>4, Visiting
  <1>8. CASE ~Given(p)
    <2>1. \A s \in ToSet(b) : StatementTyped(p, s)'
      BY <1>1, <1>2, <1>4, <1>5, <1>6, <1>8, LeftTyped
    <2> QED
      BY <1>2, <1>4, <1>6, <2>1, VisitKeeps
  <1>9. CASE Given(p)
    <2>1. Prepared(p, prog, env)
      <3>1. DOMAIN prog.procs = ProcNames
        BY <1>1, <1>3 DEF OrderInv
      <3>2. ASSUME NEW q \in ProcNames
            PROVE  /\ prog.procs[q].params = Params(q)' /\ prog.procs[q].vars = Vars(q)'
                   /\ prog.procs[q].scope = IF q \in Seen THEN 1 ELSE source.procs[q].scope
        <4>1. Params(q)' = Params(q) /\ Vars(q)' = Vars(q)
          BY <1>1, <1>2, <1>4, <1>6, NewParams
        <4> QED
          BY <1>1, <1>3, <4>1 DEF NodesInv
      <3> QED
        BY <1>4, <1>9, <3>1, <3>2 DEF Prepared
    <2>2. IsSequence(body) /\ \A s \in ToSet(body) : StatementOK(source, p, s)
      BY <1>1, <1>7, Declared DEF OrderInv, ProcNames
    <2>3. \A s \in ToSet(b) : \E r \in ToSet(body) : s = Rewritten(prog, env, r)
      BY <1>5, <1>9, <2>2, RewriteSet
    <2>4. \A r \in ToSet(body) : StatementTyped(p, Rewritten(prog, env, r))'
      BY <1>1, <1>2, <1>4, <1>6, <2>1, <2>2, RewrittenTyped
    <2>5. ASSUME NEW s \in ToSet(b) PROVE StatementTyped(p, s)'
      <3>1. PICK r \in ToSet(body) : s = Rewritten(prog, env, r)
        BY <2>3
      <3>2. StatementTyped(p, Rewritten(prog, env, r))'
        BY <2>4
      <3> QED
        BY <3>1, <3>2
    <2> QED
      BY <1>2, <1>4, <1>6, <2>5, VisitKeeps
  <1> QED
    BY <1>8, <1>9

\* A visit of a procedure with an environment does.
LEMMA SuperKeeps ==
    ASSUME Inv, LiftSuper
    PROVE  Inv'
  <1>1. OrderInv /\ NodesInv /\ RecordsInv /\ ChainInv /\ ReachInv /\ BodiesInv
    BY DEF Inv
  <1>2. PICK p : p = Name
    OBVIOUS
  <1>3. PICK prog : prog = AddEnvironment(program, p)
    OBVIOUS
  <1>4. PICK node : node = Node
    OBVIOUS
  <1> DEFINE env == Decl(p, This)
  <1>5. ~Done /\ Sharing(p) /\ Visits(Name, LiftBody(prog, p, node)) /\ program'.records = prog.records
    BY <1>1, <1>2, <1>3, <1>4, SuperVisit
  <1>6. PICK b : b = LiftBody(prog, p, node)
    OBVIOUS
  <1>7. Visits(Name, b)
    BY <1>5, <1>6
  <1>8. /\ p \in ProcNames /\ p \notin Seen /\ p \notin Children(source, p)
        /\ IsNode(node) /\ node.scope = source.procs[p].scope /\ node.params = Params(p)
        /\ node.vars = source.procs[p].vars /\ node.nested = source.procs[p].nested /\ node.body = source.procs[p].body
        /\ node = program.procs[p] /\ p \in DOMAIN program.procs /\ p \in DOMAIN program.records /\ IsProgram(program)
    BY <1>1, <1>2, <1>4, <1>5, Visiting
  <1>9. Children(program, p) = Children(source, p)
    BY <1>8 DEF Children
  <1>10. /\ SameModule(program, prog)
         /\ prog.procs[p] = [program.procs[p] EXCEPT !.vars = <<Variable(This, p)>> \o @]
         /\ \A q \in DOMAIN program.procs : q # p =>
               prog.procs[q] = IF q \in Children(program, p) THEN [program.procs[q] EXCEPT !.params = Append(@, Formal(Super, TRUE, p))]
                               ELSE program.procs[q]
    <2>1. /\ IsProgram(program) /\ p \in DOMAIN program.procs /\ p \in DOMAIN program.records
          /\ IsNode(program.procs[p]) /\ p \notin Children(program, p)
      BY <1>8, <1>9
    <2> DEFINE new == AddEnvironment(program, p)
    <2>2. /\ SameModule(program, new) /\ new.order = program.order
          /\ new.records = [program.records EXCEPT ![p] = Fields(program.procs[p])]
          /\ new.procs[p] = [program.procs[p] EXCEPT !.vars = <<Variable(This, p)>> \o @] /\ IsNode(new.procs[p])
          /\ \A q \in DOMAIN program.procs : q # p =>
                new.procs[q] = IF q \in Children(program, p) THEN [program.procs[q] EXCEPT !.params = Append(@, Formal(Super, TRUE, p))]
                               ELSE program.procs[q]
      BY <2>1, EnvironmentAdded
    <2>3. prog = new
      BY <1>3
    <2> HIDE DEF new
    <2> QED
      BY <2>2, <2>3
  <1>11. Prepared(p, prog, env)
    <2>1. DOMAIN prog.procs = ProcNames
      BY <1>1, <1>10 DEF SameModule, OrderInv
    <2>2. ASSUME NEW q \in ProcNames
          PROVE  /\ prog.procs[q].params = Params(q)' /\ prog.procs[q].vars = Vars(q)'
                 /\ prog.procs[q].scope = IF q \in Seen THEN 1 ELSE source.procs[q].scope
      <3> DEFINE old == program.procs[q]
                 w == <<Variable(This, p)>> \o old.vars
                 l == Append(old.params, Formal(Super, TRUE, p))
      <3>1. /\ old = Procedure(old.scope, old.params, old.vars, old.nested, old.body)
            /\ old.params = Params(q) /\ old.vars = Vars(q)
            /\ old.scope = IF q \in Seen THEN 1 ELSE source.procs[q].scope
        BY <1>1 DEF NodesInv, IsNode
      <3>2. /\ Params(q)' = IF q \in Children(source, p) THEN l ELSE Params(q)
            /\ Vars(q)' = IF q = p THEN <<Variable(This, p)>> \o source.procs[q].vars ELSE Vars(q)
        BY <1>1, <1>2, <1>5, <1>7, <3>1, NewParams
      <3>3. CASE q = p
        <4>1. prog.procs[q] = [old EXCEPT !.vars = w]
          BY <1>10, <3>3
        <4>2. Params(q)' = Params(q) /\ Vars(q)' = w
          BY <1>8, <3>2, <3>3
        <4> HIDE DEF w, l, old
        <4>3. prog.procs[q].params = old.params /\ prog.procs[q].vars = w /\ prog.procs[q].scope = old.scope
          BY <3>1, <4>1 DEF Procedure
        <4> QED
          BY <3>1, <4>2, <4>3
      <3>4. CASE q # p /\ q \in Children(source, p)
        <4>1. prog.procs[q] = [old EXCEPT !.params = l]
          BY <1>1, <1>9, <1>10, <3>4 DEF OrderInv
        <4>2. Params(q)' = l /\ Vars(q)' = Vars(q)
          BY <3>2, <3>4
        <4> HIDE DEF w, l, old
        <4>3. prog.procs[q].params = l /\ prog.procs[q].vars = old.vars /\ prog.procs[q].scope = old.scope
          BY <3>1, <4>1 DEF Procedure
        <4> QED
          BY <3>1, <4>2, <4>3
      <3>5. CASE q # p /\ q \notin Children(source, p)
        <4>1. prog.procs[q] = old
          BY <1>1, <1>9, <1>10, <3>5 DEF OrderInv
        <4> QED
          BY <3>1, <3>2, <3>5, <4>1
      <3> QED
        BY <3>3, <3>4, <3>5
    <2> QED
      BY <1>5, <2>1, <2>2 DEF Prepared
  <1>12. \A s \in ToSet(b) : StatementTyped(p, s)'
    BY <1>1, <1>2, <1>5, <1>6, <1>7, <1>8, <1>11, LiftedTyped
  <1> QED
    BY <1>2, <1>5, <1>7, <1>12, VisitKeeps

\* Every step keeps the invariant.
LEMMA StepKeeps ==
    Inv /\ [Next]_vars => Inv'
  <1> SUFFICES ASSUME Inv, [Next]_vars PROVE Inv'
    OBVIOUS
  <1>1. CASE UNCHANGED vars
    <2>1. program' = program /\ source' = source /\ next' = next /\ crashed' = crashed
      BY <1>1 DEF vars
    <2>2. /\ ProcNames' = ProcNames /\ Seen' = Seen
          /\ \A p : (Shares(p)' <=> Shares(p)) /\ (Given(p)' <=> Given(p)) /\ Params(p)' = Params(p) /\ Vars(p)' = Vars(p)
      BY <2>1 DEF ProcNames, Seen, Shares, Given, Params, Parent, Vars, Children
    <2>3. OrderInv'
      BY <2>1 DEF Inv, OrderInv, ProcNames, Seen
    <2>4. NodesInv' /\ RecordsInv'
      BY <2>1, <2>2 DEF Inv, NodesInv, RecordsInv
    <2>5. ChainInv' /\ ReachInv'
      BY <2>1, <2>2 DEF Inv, ChainInv, ReachInv
    <2>6. \A p, e, t : Typed(p, e, t) => Typed(p, e, t)'
      BY <2>1 DEF Typed
    <2>7. \A q : Settled(q)' <=> Settled(q)
      BY <2>1, <2>2 DEF Settled, Children
    <2>8. \A p, s : CallTyped(p, s) => CallTyped(p, s)'
      BY <2>1, <2>2, <2>6, <2>7 DEF CallTyped, Environment, Plain, Ref
    <2>9. \A p, s : StatementTyped(p, s) => StatementTyped(p, s)'
      BY <2>2, <2>6, <2>8 DEF StatementTyped
    <2>10. BodiesInv'
      BY <2>1, <2>2, <2>9 DEF Inv, BodiesInv
    <2> QED
      BY <2>3, <2>4, <2>5, <2>10 DEF Inv
  <1>2. CASE LiftSuper
    BY <1>2, SuperKeeps
  <1>3. CASE LiftSuperWithoutEnvironment \/ VisitPlainProcedure
    BY <1>3, PlainKeeps
  <1>4. CASE LiftLeaf
    BY <1>4, LeafKeeps
  <1> QED
    BY <1>1, <1>2, <1>3, <1>4 DEF Next

\* The invariant holds of the module as it was parsed.
LEMMA InitKeeps ==
    ASSUME Init
    PROVE  Inv
  <1>1. source \in Programs /\ program = source /\ next = 1 /\ crashed = FALSE
    BY DEF Init
  <1>2. /\ NestingOK(source.procs) /\ IsSequence(source.order) /\ Distinct(source.order)
        /\ IsProgram(source)
        /\ ToSet(source.order) = {p \in ProcNames : source.procs[p].scope = 1}
        /\ source.records = [p \in ProcNames |-> <<>>]
    BY <1>1, Beginning DEF ProcNames
  <1>3. Seen = {}
    BY <1>1 DEF Seen
  <1>4. \A p \in ProcNames : ~Shares(p)
    BY <1>1, <1>2 DEF Shares
  <1>5. \A p \in ProcNames : ~Given(p)
    BY <1>4 DEF Given
  <1>6. OrderInv
    <2>1. Len(source.order) \in Nat
      BY <1>2, Sequences
    <2>2. /\ source.procs = program.procs /\ source.order = program.order
          /\ next \in Nat \ {0} /\ next <= Len(program.order) + 1
      BY <1>1, <2>1
    <2> QED
      BY <1>1, <1>2, <1>3, <2>2 DEF OrderInv, ProcNames
  <1>7. NodesInv
    <2> SUFFICES ASSUME NEW p \in ProcNames
                 PROVE  IsNode(source.procs[p]) /\ source.procs[p].params = Params(p) /\ source.procs[p].vars = Vars(p)
      BY <1>1, <1>3 DEF NodesInv
    <2>1. IsNode(source.procs[p]) /\ IsSequence(source.procs[p].vars)
      BY <1>1, Declared DEF ProcNames
    <2>2. Params(p) = source.procs[p].params
      BY <1>5, <1>6, GivenIsNamed
    <2>3. Vars(p) = source.procs[p].vars
      BY <1>4, <2>1, Single, Concat DEF Vars
    <2> QED
      BY <2>1, <2>2, <2>3
  <1>8. RecordsInv
    BY <1>1, <1>2, <1>3 DEF RecordsInv
  <1>9. ChainInv
    BY <1>1, <1>2, AroundRoot DEF ChainInv, ProcNames
  <1>10. ReachInv /\ BodiesInv
    BY <1>3 DEF ReachInv, BodiesInv
  <1> QED
    BY <1>6, <1>7, <1>8, <1>9, <1>10 DEF Inv

\* The lists, records and bodies are as the invariant says.
THEOREM LiftingIsTyped == Spec => []Inv
  <1>1. Init => Inv
    BY InitKeeps
  <1> QED
    BY <1>1, StepKeeps, PTL DEF Spec

-----------------------------------------------------------------------------
(* What has been lifted                                                    *)

\* When nothing is left nested, every procedure has been visited.
LEMMA AllSeen ==
    ASSUME Inv, Lifted
    PROVE  Seen = ProcNames
  <1>1. OrderInv /\ NodesInv
    BY DEF Inv
  <1>2. /\ next > Len(program.order) /\ next <= Len(program.order) + 1 /\ next \in Nat
        /\ IsSequence(program.order) /\ DOMAIN program.order = 1 .. Len(program.order) /\ Len(program.order) \in Nat
    BY <1>1, Sequences DEF Lifted, Done, OrderInv
  <1>3. Seen = ToSet(program.order)
    <2>1. next - 1 = Len(program.order)
      BY <1>2
    <2> QED
      BY <1>2, <2>1 DEF Seen, ToSet
  <1>4. ToSet(program.order) \subseteq ProcNames /\ NestingOK(source.procs) /\ ProcNames = DOMAIN source.procs
    BY <1>1, Beginning DEF OrderInv, ProcNames
  <1> DEFINE X == ProcNames \ Seen
             scope(p) == source.procs[p].scope
             S == {scope(p) : p \in X}
  <1>5. SUFFICES ASSUME X # {} PROVE FALSE
    BY <1>3, <1>4
  <1>6. S \in SUBSET Nat /\ S # {}
    <2>1. \A p \in X : scope(p) \in Nat
      BY <1>4, Nested
    <2> HIDE DEF X, scope
    <2> QED
      BY <1>5, <2>1
  <1>7. PICK x \in S : \A y \in S : x <= y
    <2> HIDE DEF S
    <2> QED
      BY <1>6, Least
  <1>8. PICK p \in X : x = scope(p)
    BY <1>7
  <1>9. scope(p) \in Nat \ {0} /\ scope(p) # 1
    BY <1>1, <1>3, <1>4, <1>8, Nested DEF OrderInv
  <1>10. PICK q \in ProcNames : p \in Children(source, q)
    BY <1>4, <1>8, <1>9, Nested
  <1>11. scope(p) = scope(q) + 1 /\ scope(q) \in Nat
    BY <1>1, <1>10, Tree
  <1>12. q \in Seen
    <2>1. q \in X => scope(q) \in S
      OBVIOUS
    <2> HIDE DEF S, X
    <2>2. q \in X => scope(p) <= scope(q)
      BY <1>7, <1>8, <2>1
    <2> QED
      BY <1>10, <1>11, <2>2 DEF X
  <1>13. Stays(source.procs[q].nested) = <<>>
    BY <1>1, <1>10, <1>12 DEF NodesInv, Lifted, AllMoved
  <1>14. p \in ToSet(Moved(source.procs[q].nested))
    BY <1>4, <1>10, <1>13, Nested, Halves DEF Children
  <1>15. p \in ToSet(program.order)
    BY <1>1, <1>8, <1>12, <1>14 DEF OrderInv
  <1> QED
    BY <1>3, <1>8, <1>15

\* A typed expression has the type that the compiler finds for it.
LEMMA TypedIs ==
    ASSUME Inv, NEW p, NEW e, NEW t, Typed(p, e, t)
    PROVE  TypeOf(program, e) = t
  <1>1. CASE e.decl = Literal
    BY <1>1 DEF Typed, TypeOf
  <1>2. CASE e.decl # Literal
    <2>1. Len(e.path) \in Nat /\ Leads(program.records, DeclType(program.procs, e.decl), e.path, t)
      BY <1>2 DEF Typed
    <2>2. \A r \in DOMAIN program.records : Unambiguous(program.records[r])
      BY RecordsUnambiguous DEF Inv
    <2> QED
      BY <1>2, <2>1, <2>2, TypeOfIs
  <1> QED
    BY <1>1, <1>2

\* The environment that p passes on
LEMMA EnvironmentTyped ==
    ASSUME Inv, NEW p \in ProcNames, Shares(p) \/ Given(p)
    PROVE  LET t == IF Shares(p) THEN p ELSE Parent(p) IN
           t \in ProcNames /\ Typed(p, Plain(Environment(p)), t)
  <1> DEFINE env == Environment(p)
             t == IF Shares(p) THEN p ELSE Parent(p)
  <1>1. TypesInv /\ DOMAIN program.records = ProcNames
    BY Types DEF Inv, OrderInv
  <1>2. env \in Own(program.procs, p) /\ DeclType(program.procs, env) = t
    BY <1>1 DEF TypesInv, Environment
  <1>3. t \in ProcNames
    BY GiverIs DEF Inv
  <1>4. Plain(env).decl = env /\ Plain(env).path = <<>>
    BY DEF Plain, Ref
  <1>5. env # Literal
    BY Declared DEF Environment, Inv, OrderInv, ProcNames
  <1> HIDE DEF env, t
  <1>6. Leads(program.records, t, <<>>, t) /\ Len(<<>>) \in Nat
    BY <1>1, <1>3, LeadsNowhere
  <1>7. Typed(p, Plain(env), t)
    BY <1>2, <1>4, <1>5, <1>6 DEF Typed
  <1> QED
    BY <1>3, <1>7 DEF env, t

\* Every expression of a procedure that was visited is typed.
LEMMA ExpressionTyped ==
    ASSUME Inv, NEW p \in Seen, NEW e \in Expressions(program.procs[p].body)
    PROVE  \E t \in {Integer} \cup ProcNames : Typed(p, e, t)
  <1> DEFINE body == program.procs[p].body
             mentioned(s) == CASE s.op = "assign" -> {s.lhs, s.rhs}
                               [] s.op = "call" -> ToSet(s.args) \cup {s.to}
                               [] s.op = "if" -> {s.cond}
                               [] s.op = "return" -> {s.value}
  <1>1. PICK s \in ToSet(body) : e \in mentioned(s) /\ e # None
    <2> DEFINE M == {mentioned(s) : s \in ToSet(body)}
    <2>1. Expressions(body) = (UNION M) \ {None}
      BY DEF Expressions
    <2>2. e # None /\ \E m \in M : e \in m
      BY <2>1
    <2> QED
      BY <2>2
  <1>2. StatementTyped(p, s)
    BY <1>1 DEF Inv, BodiesInv
  <1>3. CASE /\ s.op = "assign"
             /\ \E t \in {Integer} \cup ProcNames : Typed(p, s.lhs, t) /\ Typed(p, s.rhs, t)
    <2>1. e = s.lhs \/ e = s.rhs
      BY <1>1, <1>3
    <2> QED
      BY <1>3, <2>1
  <1>4. CASE s.op = "if" /\ Typed(p, s.cond, Integer)
    <2>1. e = s.cond
      BY <1>1, <1>4
    <2> QED
      BY <1>4, <2>1
  <1>5. CASE s.op = "return" /\ (s.value = None \/ Typed(p, s.value, Integer))
    <2>1. e = s.value
      BY <1>1, <1>5
    <2> QED
      BY <1>1, <1>5, <2>1
  <1>6. CASE s.op = "call" /\ CallTyped(p, s)
    <2> DEFINE n == Len(source.procs[s.proc].params)
    <2>1. /\ s.to = None \/ Typed(p, s.to, Integer)
          /\ DOMAIN s.args = 1 .. Len(s.args)
          /\ \A i \in 1 .. n : Typed(p, s.args[i], Integer)
          /\ IF Given(s.proc)
             THEN /\ Shares(p) \/ Given(p)
                  /\ Len(s.args) = n + 1 /\ s.args[n + 1] = Plain(Environment(p))
             ELSE Len(s.args) = n
          /\ n \in Nat /\ p \in ProcNames
      <3>1. s.proc \in ProcNames
        BY <1>6 DEF CallTyped
      <3>2. n \in Nat
        BY <3>1, Declared, Sequences DEF Inv, OrderInv, ProcNames
      <3>3. p \in ProcNames
        BY SeenListed DEF Inv
      <3> QED
        BY <1>6, <3>2, <3>3 DEF CallTyped
    <2>2. e \in ToSet(s.args) \/ e = s.to
      BY <1>1, <1>6
    <2>3. CASE e = s.to
      BY <1>1, <2>1, <2>3
    <2>4. CASE e \in ToSet(s.args)
      <3>1. PICK i \in 1 .. Len(s.args) : e = s.args[i]
        BY <2>1, <2>4 DEF ToSet
      <3>2. CASE i \in 1 .. n
        BY <2>1, <3>1, <3>2
      <3>3. CASE i \notin 1 .. n
        <4>1. Given(s.proc) /\ e = Plain(Environment(p)) /\ (Shares(p) \/ Given(p))
          BY <2>1, <3>1, <3>3, SMTT(40)
        <4> QED
          BY <2>1, <4>1, EnvironmentTyped
      <3> QED
        BY <3>2, <3>3
    <2> QED
      BY <2>2, <2>3, <2>4
  <1> QED
    BY <1>2, <1>3, <1>4, <1>5, <1>6 DEF StatementTyped

\* Whatever is nested how deep: a lifted procedure mentions its own
\* declarations and the module's and nothing else, and selects fields that
\* exist, of the right type.
THEOREM LiftedIsClosed == Spec => []ReferencesAreClosed
  <1>1. ASSUME Inv PROVE ReferencesAreClosed
    <2>1. SUFFICES ASSUME Lifted, NEW p \in ProcNames
                   PROVE  /\ \A e \in Expressions(program.procs[p].body) :
                               e.decl # Literal =>
                                  /\ e.decl \in Own(program.procs, p) \/ e.decl.proc = Module
                                  /\ ScopeOf(program, e.decl) \in {ModuleScope, program.procs[p].scope + 1}
                                  /\ TypeOf(program, e) \in {Integer} \cup ProcNames
                          /\ \A s \in ToSet(program.procs[p].body) :
                               s.op = "assign" => TypeOf(program, s.lhs) = TypeOf(program, s.rhs)
      BY DEF ReferencesAreClosed
    <2>2. p \in Seen
      BY <1>1, <2>1, AllSeen
    <2>3. ASSUME NEW e \in Expressions(program.procs[p].body), e.decl # Literal
          PROVE  /\ e.decl \in Own(program.procs, p) \/ e.decl.proc = Module
                 /\ ScopeOf(program, e.decl) \in {ModuleScope, program.procs[p].scope + 1}
                 /\ TypeOf(program, e) \in {Integer} \cup ProcNames
      <3>1. PICK t \in {Integer} \cup ProcNames : Typed(p, e, t)
        BY <1>1, <2>2, ExpressionTyped
      <3>2. e.decl \in Own(program.procs, p) \/ e.decl.proc = Module
        BY <2>3, <3>1 DEF Typed
      <3>3. e.decl \in Own(program.procs, p) => e.decl.proc = p
        BY DEF Own, Decl
      <3>4. ScopeOf(program, e.decl) \in {ModuleScope, program.procs[p].scope + 1}
        BY <3>2, <3>3 DEF ScopeOf
      <3>5. TypeOf(program, e) = t
        BY <1>1, <3>1, TypedIs
      <3> QED
        BY <3>2, <3>4, <3>5
    <2>4. ASSUME NEW s \in ToSet(program.procs[p].body), s.op = "assign"
          PROVE  TypeOf(program, s.lhs) = TypeOf(program, s.rhs)
      <3>1. StatementTyped(p, s)
        BY <1>1, <2>2 DEF Inv, BodiesInv
      <3>2. PICK t \in {Integer} \cup ProcNames : Typed(p, s.lhs, t) /\ Typed(p, s.rhs, t)
        BY <2>4, <3>1 DEF StatementTyped
      <3> QED
        BY <1>1, <3>2, TypedIs
    <2> QED
      BY <2>3, <2>4
  <1> QED
    BY <1>1, LiftingIsTyped, PTL

\* A call hands over the record its callee was compiled for if and only if
\* the callee is declared in the procedure whose environment the caller
\* passes on.
THEOREM CallsFitOrAreWrong == Spec => []CallsFit
  <1>1. ASSUME Inv PROVE CallsFit
    <2>1. SUFFICES ASSUME Lifted, NEW p \in ProcNames, NEW s \in Calls(program.procs[p].body)
                   PROVE  Fits(program, s) <=> ~WrongEnvironment(p, s.proc)
      BY DEF CallsFit
    <2>2. p \in Seen
      BY <1>1, <2>1, AllSeen
    <2> DEFINE c == s.proc
               n == Len(source.procs[c].params)
    <2>3. CallTyped(p, s)
      BY <1>1, <2>1, <2>2 DEF Inv, BodiesInv, StatementTyped, Calls
    <2>4. /\ c \in ProcNames /\ ProcNames = DOMAIN source.procs /\ NestingOK(source.procs)
          /\ \A i \in 1 .. n : Typed(p, s.args[i], Integer)
          /\ IF Given(c)
             THEN /\ Shares(p) \/ (source.procs[p].nested = <<>> /\ Given(p))
                  /\ Len(s.args) = n + 1 /\ s.args[n + 1] = Plain(Environment(p))
             ELSE Len(s.args) = n
      BY <1>1, <2>3, Beginning DEF CallTyped, Inv, OrderInv, ProcNames
    <2> DEFINE formals == program.procs[c].params
    <2>5. /\ formals = Params(c) /\ n \in Nat /\ DOMAIN formals = 1 .. Len(formals)
          /\ Len(formals) = n + (IF Given(c) THEN 1 ELSE 0)
          /\ \A i \in 1 .. n : formals[i].type = Integer
          /\ Given(c) => formals[n + 1].type = Parent(c)
          /\ Given(c) <=> Super \in Names(formals)
      <3>1. formals = Params(c)
        BY <1>1, <2>4 DEF Inv, NodesInv
      <3>2. /\ n \in Nat /\ DOMAIN source.procs[c].params = 1 .. n
            /\ \A i \in 1 .. n : source.procs[c].params[i].type = Integer
        BY <1>1, <2>4, FormalsAre DEF Inv
      <3>3. /\ DOMAIN Params(c) = 1 .. Len(Params(c)) /\ Len(Params(c)) = n + (IF Given(c) THEN 1 ELSE 0)
            /\ \A i \in 1 .. n : Params(c)[i] = source.procs[c].params[i]
            /\ Given(c) => Params(c)[n + 1] = Formal(Super, TRUE, Parent(c))
            /\ Given(c) <=> Super \in Names(Params(c))
        BY <1>1, <2>4, GivenIsNamed DEF Inv
      <3> HIDE DEF formals, n
      <3> QED
        <4>1. Formal(Super, TRUE, Parent(c)).type = Parent(c)
          BY DEF Formal
        <4> HIDE DEF c
        <4> QED
          BY <3>1, <3>2, <3>3, <4>1
    <2>6. \A i \in 1 .. n : TypeOf(program, s.args[i]) = formals[i].type
      BY <1>1, <2>4, <2>5, TypedIs
    <2>7. Fits(program, s) <=> \A i \in DOMAIN formals : TypeOf(program, s.args[i]) = formals[i].type
      <3>1. Len(s.args) = Len(formals)
        <4>1. n \in Nat /\ Len(formals) = n + (IF Given(c) THEN 1 ELSE 0) /\ Len(s.args) = (IF Given(c) THEN n + 1 ELSE n)
          BY <2>4, <2>5
        <4> HIDE DEF n, formals, c
        <4> QED
          BY <4>1
      <3> QED
        BY <3>1 DEF Fits
    <2>8. CASE ~Given(c)
      <3>1. Fits(program, s)
        BY <2>5, <2>6, <2>7, <2>8
      <3> QED
        BY <2>5, <2>8, <3>1 DEF WrongEnvironment
    <2>9. CASE Given(c)
      <3> DEFINE t == IF Shares(p) THEN p ELSE Parent(p)
      <3>1. t \in ProcNames /\ TypeOf(program, s.args[n + 1]) = t
        BY <1>1, <2>1, <2>4, <2>9, EnvironmentTyped, TypedIs, SMTT(40)
      <3>2. Fits(program, s) <=> t = Parent(c)
        <4>1. \A i \in 1 .. n + 1 : i \in 1 .. n \/ i = n + 1
          <5>1. n \in Nat
            BY <2>5
          <5> HIDE DEF n
          <5> QED
            BY <5>1
        <4>2. n + 1 \in DOMAIN formals /\ DOMAIN formals = 1 .. n + 1
          BY <2>5, <2>9
        <4> HIDE DEF t, formals
        <4> QED
          BY <2>5, <2>6, <2>7, <2>9, <3>1, <4>1, <4>2
      <3>3. Giver(p) = {t}
        <4>1. CASE Shares(p)
          <5>1. source.procs[p].nested # <<>>
            BY <1>1, <2>1, <4>1, SharingIs DEF Inv, Sharing
          <5> QED
            BY <4>1, <5>1 DEF Giver
        <4>2. CASE ~Shares(p)
          <5>1. source.procs[p].nested = <<>> /\ Given(p)
            BY <2>4, <2>9, <4>2
          <5>2. Parent(p) \in ProcNames /\ p \in Children(source, Parent(p))
            BY <1>1, <2>1, <5>1, GiverIs DEF Inv
          <5>3. \A q \in ProcNames : p \in Children(source, q) => q = Parent(p)
            BY <2>4, <5>2, ParentIsOne
          <5>4. Giver(p) = {q \in ProcNames : p \in Children(source, q)}
            BY <5>1 DEF Giver, Children
          <5> QED
            BY <4>2, <5>2, <5>3, <5>4
        <4> QED
          BY <4>1, <4>2
      <3>4. Parent(c) \in ProcNames /\ c \in Children(source, Parent(c))
        BY <1>1, <2>4, <2>9, GiverIs DEF Inv
      <3>5. c \in Children(source, t) <=> t = Parent(c)
        BY <2>4, <3>1, <3>4, ParentIsOne
      <3>6. WrongEnvironment(p, c) <=> c \notin Children(source, t)
        <4> HIDE DEF t
        <4> QED
          BY <2>5, <2>9, <3>3 DEF WrongEnvironment, Children
      <3> QED
        BY <3>2, <3>5, <3>6
    <2> QED
      BY <2>8, <2>9
  <1> QED
    BY <1>1, LiftingIsTyped, PTL
=============================================================================
