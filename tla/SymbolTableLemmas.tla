------------------------- MODULE SymbolTableLemmas -------------------------
(***************************************************************************)
(* Lemmas that the proofs about the users of the symbol table share: what  *)
(* a scope holds, and that a walk outwards through the scopes ends.        *)
(***************************************************************************)
EXTENDS SymbolTable, WellFoundedInduction, TLAPS

\* A nonempty set of scope levels has an innermost one.
LEMMA InnermostExists ==
  ASSUME NEW top \in Nat, NEW L \in SUBSET (0..top), L # {}
  PROVE  Innermost(L) \in L
<1> DEFINE T == {top - l : l \in L}
<1>1. T \subseteq Nat /\ T # {}
  <2>1. \A l \in L : l \in Nat /\ l <= top
    OBVIOUS
  <2>2. \A l \in L : top - l \in Nat
    BY <2>1
  <2> QED
    BY <2>2
<1>2. PICK x \in T : \A y \in T : ~(<<y, x>> \in OpToRel(<, Nat))
  BY <1>1, NatLessThanWellFounded, WFMin
<1>3. \A y \in T : ~(y < x)
  BY <1>1, <1>2 DEF OpToRel
<1>4. PICK l \in L : x = top - l
  BY DEF T
<1>5. \A k \in L : k <= l
  BY <1>3, <1>4
<1> QED
  BY <1>5 DEF Innermost

---------------------------------------------------------------------------
(* A scope that holds declarations of the set D only.                      *)

AnyScope == [symbols : Seq(Nat), indices : [Names -> Nat]]

ScopeOf(s, D) ==
  /\ s \in AnyScope
  /\ \A i \in DOMAIN s.symbols : s.symbols[i] \in D
  /\ \A n \in Names : s.indices[n] \in 0..Len(s.symbols)

\* Scope::insert
LEMMA InsertInScope ==
  ASSUME NEW s, NEW D, NEW E, NEW n \in Names, NEW d \in Nat,
         ScopeOf(s, D), D \subseteq E, d \in E
  PROVE  ScopeOf(ScopeInsert(s, n, d), E)
<1>1. s.symbols \in Seq(Nat) /\ s.indices \in [Names -> Nat]
  BY DEF ScopeOf, AnyScope
<1>2. /\ Append(s.symbols, d) \in Seq(Nat) /\ Len(Append(s.symbols, d)) = Len(s.symbols) + 1
      /\ \A i \in DOMAIN Append(s.symbols, d) : Append(s.symbols, d)[i] \in E
  BY <1>1 DEF ScopeOf
<1>3. ScopeInsert(s, n, d) \in AnyScope
  BY <1>1, <1>2 DEF ScopeInsert, AnyScope
<1>4. ASSUME NEW k \in Names
      PROVE  ScopeInsert(s, n, d).indices[k] \in 0..Len(ScopeInsert(s, n, d).symbols)
  <2>1. s.indices[k] \in 0..Len(s.symbols)
    BY DEF ScopeOf
  <2> QED
    BY <1>1, <1>2, <2>1 DEF ScopeInsert
<1> QED
  BY <1>2, <1>3, <1>4 DEF ScopeOf, ScopeInsert

\* A new scope holds nothing.
LEMMA EmptyScopeOf == \A D : ScopeOf(EmptyScope, D)
BY DEF ScopeOf, AnyScope, EmptyScope

\* Scope::lookup(name, true)
LEMMA LookupInScope ==
  ASSUME NEW s, NEW D, ScopeOf(s, D), NEW n \in Names
  PROVE  ScopeLookup(s, n) \in D \cup {NoDecl}
BY DEF ScopeOf, AnyScope, ScopeLookup
=============================================================================
