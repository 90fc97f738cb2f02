------------------------- MODULE SymbolTableProofs -------------------------
(***************************************************************************)
(* For every set of modules, names and declarations: the symbol table      *)
(* keeps its shape, scope_ never dangles, indices_ stays within symbols_,  *)
(* and the table implements the block-structured LexicalEnvironment.       *)
(***************************************************************************)
EXTENDS SymbolTableClient, SymbolTableLemmas, SequenceTheorems, TLAPS

\* The inductive invariant of a table.
GoodScope(s) == s \in Scopes /\ IndexOK(s)
GoodTable(t) == t \in Tables /\ WellIndexed(t) /\ Alive(t)

Inv == TypeOK /\ IndicesOK /\ ScopeAlive

\* Scope::insert keeps a scope well formed.
LEMMA ScopeInsertGood ==
  ASSUME NEW s, GoodScope(s), NEW n \in Names, NEW d \in Decls
  PROVE  GoodScope(ScopeInsert(s, n, d))
<1>1. s.symbols \in Seq(Decls) /\ s.indices \in [Names -> Nat]
  BY DEF GoodScope, Scopes
<1>2. Append(s.symbols, d) \in Seq(Decls) /\ Len(Append(s.symbols, d)) = Len(s.symbols) + 1
  BY <1>1
<1>3. ScopeInsert(s, n, d) \in Scopes
  BY <1>1, <1>2 DEF ScopeInsert, Scopes
<1>4. ASSUME NEW k \in Names
      PROVE  ScopeInsert(s, n, d).indices[k] \in 0..Len(ScopeInsert(s, n, d).symbols)
  <2>1. s.indices[k] \in 0..Len(s.symbols)
    BY DEF GoodScope, IndexOK
  <2> QED
    BY <1>1, <1>2, <2>1 DEF ScopeInsert
<1> QED
  BY <1>3, <1>4 DEF GoodScope, IndexOK

\* A new scope is well formed.
LEMMA EmptyScopeGood == GoodScope(EmptyScope)
BY DEF GoodScope, EmptyScope, Scopes, IndexOK

\* Scope::lookup returns a declaration of the table or the null pointer.
LEMMA ScopeLookupType ==
  ASSUME NEW s, GoodScope(s), NEW n \in Names
  PROVE  ScopeLookup(s, n) \in Decls \cup {NoDecl}
BY DEF GoodScope, Scopes, IndexOK, ScopeLookup

---------------------------------------------------------------------------
(* Every operation of the table keeps it well formed.                      *)

\* What a well-formed table offers: chains of well-formed scopes, and scope_
\* within the chain of its module.
LEMMA GoodTableFacts ==
  ASSUME NEW t, GoodTable(t)
  PROVE  /\ t.scopes \in [Modules -> Seq(Scopes)]
         /\ t.aliases \in [Modules -> Modules \cup {NoModule}]
         /\ t.module \in Modules
         /\ t.level \in Nat
         /\ GoodScope(t.universe)
         /\ t.level + 1 \in DOMAIN t.scopes[t.module]
         /\ \A m \in Modules : \A i \in DOMAIN t.scopes[m] : GoodScope(t.scopes[m][i])
BY DEF GoodTable, Tables, WellIndexed, Alive, GoodScope

\* A well-formed table may have one scope of one chain replaced by another
\* well-formed scope: the common part of insert and import.
LEMMA ReplaceScopeGood ==
  ASSUME NEW t, GoodTable(t), NEW m \in Modules, NEW i \in DOMAIN t.scopes[m],
         NEW s, GoodScope(s)
  PROVE  GoodTable(WithChain(t, m, [t.scopes[m] EXCEPT ![i] = s]))
<1> DEFINE u == WithChain(t, m, [t.scopes[m] EXCEPT ![i] = s])
           chain == [t.scopes[m] EXCEPT ![i] = s]
<1>0. t \in Tables
  BY DEF GoodTable
<1>1. /\ t.scopes \in [Modules -> Seq(Scopes)]
      /\ t.scopes[m] \in Seq(Scopes)
      /\ s \in Scopes
  BY GoodTableFacts DEF GoodScope
<1>2. /\ chain \in Seq(Scopes) /\ Len(chain) = Len(t.scopes[m])
      /\ DOMAIN chain = DOMAIN t.scopes[m]
      /\ \A j \in DOMAIN chain : chain[j] = IF j = i THEN s ELSE t.scopes[m][j]
  BY <1>1
<1>3. /\ u.scopes = [t.scopes EXCEPT ![m] = chain]
      /\ u.aliases = t.aliases /\ u.module = t.module
      /\ u.level = t.level /\ u.universe = t.universe
  BY DEF WithChain
<1>4. u \in Tables
  BY <1>0, <1>1, <1>2 DEF Tables, WithChain
<1>5. \A k \in Modules : u.scopes[k] = IF k = m THEN chain ELSE t.scopes[k]
  BY <1>1, <1>3
<1>6. WellIndexed(u)
  <2>1. ASSUME NEW k \in Modules, NEW j \in DOMAIN u.scopes[k]
        PROVE  IndexOK(u.scopes[k][j])
    <3>1. CASE k = m
      BY <1>2, <1>5, <3>1, GoodTableFacts DEF GoodScope
    <3>2. CASE k # m
      BY <1>5, <3>2, GoodTableFacts DEF GoodScope
    <3> QED BY <3>1, <3>2
  <2> QED
    BY <2>1, <1>3, GoodTableFacts DEF WellIndexed, GoodScope
<1>7. Alive(u)
  <2> HIDE DEF u, chain
  <2>1. t.module \in Modules /\ t.level < Len(t.scopes[t.module])
    BY DEF GoodTable, Alive
  <2>2. Len(u.scopes[t.module]) = Len(t.scopes[t.module])
    BY <2>1, <1>2, <1>5
  <2> QED
    BY <2>1, <2>2, <1>3 DEF Alive
<1> QED
  BY <1>4, <1>6, <1>7 DEF GoodTable

\* SymbolTable::import
LEMMA ImportGood ==
  ASSUME NEW t, GoodTable(t), NEW m \in Modules, HasModule(t, m),
         NEW n \in Names, NEW d \in Decls
  PROVE  GoodTable(Import(t, m, n, d))
<1> DEFINE s == ScopeInsert(t.scopes[m][1], n, d)
<1>1. t.scopes[m] \in Seq(Scopes) /\ 1 \in DOMAIN t.scopes[m]
  BY GoodTableFacts DEF HasModule
<1>2. GoodScope(s)
  BY <1>1, GoodTableFacts, ScopeInsertGood
<1>3. GoodTable(WithChain(t, m, [t.scopes[m] EXCEPT ![1] = s]))
  BY <1>1, <1>2, ReplaceScopeGood
<1>4. Import(t, m, n, d) = WithChain(t, m, [t.scopes[m] EXCEPT ![1] = s])
  BY DEF Import
<1> QED
  BY <1>3, <1>4

\* SymbolTable::insert
LEMMA InsertGood ==
  ASSUME NEW t, GoodTable(t), NEW n \in Names, NEW d \in Decls
  PROVE  GoodTable(Insert(t, n, d))
<1> DEFINE m == t.module
           i == t.level + 1
           s == ScopeInsert(t.scopes[m][i], n, d)
<1>1. m \in Modules /\ t.scopes[m] \in Seq(Scopes) /\ i \in DOMAIN t.scopes[m]
  BY GoodTableFacts
<1>2. GoodScope(s)
  BY <1>1, GoodTableFacts, ScopeInsertGood
<1>3. GoodTable(WithChain(t, m, [t.scopes[m] EXCEPT ![i] = s]))
  BY <1>1, <1>2, ReplaceScopeGood
<1>4. Insert(t, n, d) = WithChain(t, m, [t.scopes[m] EXCEPT ![i] = s])
  BY DEF Insert, Current
<1> QED
  BY <1>3, <1>4

\* SymbolTable::insertGlobal
LEMMA InsertGlobalGood ==
  ASSUME NEW t, GoodTable(t), NEW n \in Names, NEW d \in Decls
  PROVE  GoodTable(InsertGlobal(t, n, d))
<1>1. GoodScope(ScopeInsert(t.universe, n, d))
  BY GoodTableFacts, ScopeInsertGood
<1> QED
  BY <1>1 DEF InsertGlobal, GoodTable, Tables, WellIndexed, Alive, GoodScope

\* SymbolTable::addAlias
LEMMA AddAliasGood ==
  ASSUME NEW t, GoodTable(t), NEW a \in Modules, NEW m \in Modules
  PROVE  GoodTable(AddAlias(t, a, m))
BY DEF AddAlias, GoodTable, Tables, WellIndexed, Alive

\* SymbolTable::addModule, of a module that has no namespace.
LEMMA AddModuleGood ==
  ASSUME NEW t, GoodTable(t), NEW m \in Modules, ~HasModule(t, m),
         NEW activate \in BOOLEAN
  PROVE  GoodTable(AddModule(t, m, activate))
<1> DEFINE u == AddModule(t, m, activate)
<1>1. t \in Tables /\ t.scopes \in [Modules -> Seq(Scopes)] /\ t.scopes[m] = <<>>
  BY GoodTableFacts DEF GoodTable, HasModule
<1>2. /\ <<EmptyScope>> \in Seq(Scopes) /\ Len(<<EmptyScope>>) = 1
      /\ DOMAIN <<EmptyScope>> = 1..1 /\ <<EmptyScope>>[1] = EmptyScope
  BY EmptyScopeGood DEF GoodScope
<1>3. /\ u \in Tables
      /\ u.scopes = [t.scopes EXCEPT ![m] = <<EmptyScope>>]
      /\ u.universe = t.universe
      /\ u.module = IF activate THEN m ELSE t.module
      /\ u.level = IF activate THEN 0 ELSE t.level
  BY <1>1, <1>2 DEF AddModule, Tables
<1>4. WellIndexed(u)
  BY <1>1, <1>2, <1>3, EmptyScopeGood, GoodTableFacts DEF WellIndexed, GoodScope
<1>5. Alive(u)
  <2>1. t.module # m
    BY <1>1 DEF GoodTable, Alive, Tables
  <2> QED
    BY <1>1, <1>2, <1>3, <2>1, GoodTableFacts DEF GoodTable, Alive
<1> QED
  BY <1>3, <1>4, <1>5 DEF GoodTable

\* SymbolTable::openScope
LEMMA OpenScopeGood ==
  ASSUME NEW t, GoodTable(t)
  PROVE  GoodTable(OpenScope(t))
<1> DEFINE u == OpenScope(t)
           kept == SubSeq(t.scopes[t.module], 1, t.level + 1)
           chain == Append(kept, EmptyScope)
<1>1. /\ t \in Tables /\ t.scopes \in [Modules -> Seq(Scopes)] /\ t.module \in Modules
      /\ t.level \in Nat /\ t.scopes[t.module] \in Seq(Scopes)
      /\ t.level + 1 \in 1..Len(t.scopes[t.module])
  BY GoodTableFacts DEF GoodTable
<1>2. /\ kept \in Seq(Scopes) /\ Len(kept) = t.level + 1
      /\ \A i \in 1..t.level + 1 : kept[i] = t.scopes[t.module][i]
  BY <1>1
<1>3. /\ chain \in Seq(Scopes) /\ Len(chain) = t.level + 2
      /\ \A i \in 1..t.level + 1 : chain[i] = t.scopes[t.module][i]
      /\ chain[t.level + 2] = EmptyScope
      /\ DOMAIN chain = 1..t.level + 2
  BY <1>1, <1>2, EmptyScopeGood DEF GoodScope
<1>4. /\ u \in Tables
      /\ u.scopes = [t.scopes EXCEPT ![t.module] = chain]
      /\ u.universe = t.universe /\ u.module = t.module /\ u.level = t.level + 1
  BY <1>1, <1>3 DEF OpenScope, MoveTo, WithChain, Current, Tables
<1>5. \A k \in Modules : u.scopes[k] = IF k = t.module THEN chain ELSE t.scopes[k]
  BY <1>1, <1>4
<1>6. WellIndexed(u)
  <2>1. ASSUME NEW k \in Modules, NEW j \in DOMAIN u.scopes[k]
        PROVE  IndexOK(u.scopes[k][j])
    <3>1. CASE k = t.module /\ j = t.level + 2
      BY <1>1, <1>3, <1>5, <3>1, EmptyScopeGood DEF GoodScope
    <3>2. CASE k = t.module /\ j # t.level + 2
      <4> HIDE DEF u, chain
      <4>1. u.scopes[k] = chain /\ j \in 1..t.level + 2
        BY <1>3, <1>5, <3>2
      <4>2. j \in 1..t.level + 1
        BY <4>1, <1>1, <3>2
      <4>3. j \in DOMAIN t.scopes[k]
        BY <4>2, <1>1, <3>2
      <4>4. u.scopes[k][j] = t.scopes[k][j]
        BY <4>1, <4>2, <1>3, <3>2
      <4> QED BY <4>3, <4>4, GoodTableFacts DEF GoodScope
    <3>3. CASE k # t.module
      BY <1>5, <3>3, GoodTableFacts DEF GoodScope
    <3> QED BY <3>1, <3>2, <3>3
  <2> QED
    BY <2>1, <1>4, GoodTableFacts DEF WellIndexed, GoodScope
<1>7. Alive(u)
  BY <1>1, <1>3, <1>4, <1>5 DEF Alive
<1> QED
  BY <1>4, <1>6, <1>7 DEF GoodTable

\* SymbolTable::closeScope, above the root scope.
LEMMA CloseScopeGood ==
  ASSUME NEW t, GoodTable(t), t.level > 0
  PROVE  GoodTable(CloseScope(t))
BY DEF CloseScope, MoveTo, GoodTable, Tables, WellIndexed, Alive

---------------------------------------------------------------------------
(* The table is well formed in every reachable state.                      *)

\* Oberon07::initSymbolTable leaves the table at the root of SYSTEM.
LEMMA InitialTableGood ==
  GoodTable(CloseScope(OpenScope(AddModule(EmptyTable, System, TRUE))))
<1> DEFINE t == AddModule(EmptyTable, System, TRUE)
<1>1. System \in Modules
  BY ModulesAssumption
<1>2. /\ t.scopes = [m \in Modules |-> IF m = System THEN <<EmptyScope>> ELSE <<>>]
      /\ t.aliases = [m \in Modules |-> IF m = System THEN System ELSE NoModule]
      /\ t.module = System /\ t.level = 0 /\ t.universe = EmptyScope
  BY <1>1 DEF AddModule, EmptyTable
<1>3. <<EmptyScope>> \in Seq(Scopes) /\ <<>> \in Seq(Scopes) /\ Len(<<EmptyScope>>) = 1
  BY EmptyScopeGood DEF GoodScope
<1>4. t \in Tables
  BY <1>1, <1>2, <1>3, EmptyScopeGood DEF Tables, AddModule, EmptyTable, GoodScope
<1> HIDE DEF t
<1>5. WellIndexed(t)
  <2>1. ASSUME NEW m \in Modules, NEW i \in DOMAIN t.scopes[m]
        PROVE  t.scopes[m][i] = EmptyScope
    <3>1. m = System /\ t.scopes[m] = <<EmptyScope>>
      BY <1>2
    <3> QED BY <3>1
  <2> QED
    BY <2>1, <1>2, EmptyScopeGood DEF WellIndexed, GoodScope
<1>6. Alive(t)
  BY <1>1, <1>2, <1>3 DEF Alive
<1>7. GoodTable(t)
  BY <1>4, <1>5, <1>6 DEF GoodTable
<1>8. GoodTable(OpenScope(t)) /\ OpenScope(t).level = 1
  BY <1>2, <1>7, OpenScopeGood DEF OpenScope, MoveTo
<1>9. GoodTable(CloseScope(OpenScope(t)))
  BY <1>8, CloseScopeGood
<1> QED
  BY <1>9 DEF t

\* Lookups return declarations: what `found` may hold.
LEMMA LookupType ==
  ASSUME NEW t, GoodTable(t), NEW n \in Names
  PROVE  Lookup(t, n) \in Decls \cup {NoDecl}
<1> DEFINE L == DeclaringLevels(Current(t), t.level, n)
<1>1. ScopeLookup(t.universe, n) \in Decls \cup {NoDecl}
  BY GoodTableFacts, ScopeLookupType
<1>2. ASSUME L # {} PROVE ScopeLookup(Current(t)[Innermost(L) + 1], n) \in Decls \cup {NoDecl}
  <2>1. t.level \in Nat /\ L \in SUBSET (0..t.level)
    BY GoodTableFacts DEF DeclaringLevels
  <2>2. Innermost(L) \in 0..t.level
    BY <1>2, <2>1, InnermostExists
  <2> HIDE DEF L
  <2>3. Innermost(L) + 1 \in DOMAIN Current(t)
    BY <2>1, <2>2, GoodTableFacts DEF Current
  <2> QED
    BY <2>3, GoodTableFacts, ScopeLookupType DEF Current
<1> QED
  BY <1>1, <1>2 DEF Lookup, ChainLookup

\* The same for qualified lookups.
LEMMA LookupQualifiedType ==
  ASSUME NEW t, GoodTable(t), NEW q \in Modules, NEW n \in Names
  PROVE  LookupQualified(t, q, n) \in Decls \cup {NoDecl}
<1> DEFINE m == t.aliases[q]
<1>1. ASSUME m # NoModule, HasModule(t, m)
      PROVE  ScopeLookup(t.scopes[m][1], n) \in Decls \cup {NoDecl}
  <2>1. m \in Modules /\ 1 \in DOMAIN t.scopes[m]
    BY <1>1, GoodTableFacts DEF HasModule
  <2> QED
    BY <2>1, GoodTableFacts, ScopeLookupType
<1> QED
  BY <1>1 DEF LookupQualified

\* The table is well formed initially and after every call: its shape, the
\* positions in indices_ and the validity of scope_ are invariants, whatever
\* the client does.
THEOREM InvInductive == Spec => []Inv
<1>1. Init => Inv
  BY InitialTableGood DEF Init, InitialTable, Inv, TypeOK, IndicesOK, ScopeAlive, GoodTable
<1>2. Inv /\ [Next]_vars => Inv'
  <2> SUFFICES ASSUME Inv, [Next]_vars PROVE Inv'
    OBVIOUS
  <2> DEFINE Good(t, f, r) == GoodTable(t) /\ f \in Decls \cup {NoDecl} /\ r \in BOOLEAN
  <2>0. Good(table, found, running)
    BY DEF Inv, TypeOK, IndicesOK, ScopeAlive, GoodTable
  <2>1. SUFFICES Good(table', found', running')
    BY DEF Inv, TypeOK, IndicesOK, ScopeAlive, GoodTable
  <2>2. ASSUME NEW m \in Modules, NEW activate \in BOOLEAN, CallAddModule(m, activate)
        PROVE  Good(table', found', running')
    BY <2>0, <2>2, AddModuleGood DEF CallAddModule, Exit, Update
  <2>3. ASSUME NEW m \in Modules, NEW n \in Names, NEW d \in Decls, CallImport(m, n, d)
        PROVE  Good(table', found', running')
    BY <2>0, <2>3, ImportGood DEF CallImport, Exit, Update
  <2>4. ASSUME NEW n \in Names, NEW d \in Decls, CallInsert(n, d)
        PROVE  Good(table', found', running')
    BY <2>0, <2>4, InsertGood DEF CallInsert, Update
  <2>5. ASSUME NEW n \in Names, NEW d \in Decls, CallInsertGlobal(n, d)
        PROVE  Good(table', found', running')
    BY <2>0, <2>5, InsertGlobalGood DEF CallInsertGlobal, Update
  <2>6. ASSUME NEW a \in Modules, NEW m \in Modules, CallAddAlias(a, m)
        PROVE  Good(table', found', running')
    BY <2>0, <2>6, AddAliasGood DEF CallAddAlias, Update
  <2>7. CASE CallOpenScope
    BY <2>0, <2>7, OpenScopeGood DEF CallOpenScope, Update
  <2>8. CASE CallCloseScope
    BY <2>0, <2>8, CloseScopeGood DEF CallCloseScope, Update, Exit
  <2>9. ASSUME NEW n \in Names, CallLookup(n)
        PROVE  Good(table', found', running')
    BY <2>0, <2>9, LookupType DEF CallLookup
  <2>10. ASSUME NEW q \in Modules, NEW n \in Names, CallLookupQualified(q, n)
         PROVE  Good(table', found', running')
    BY <2>0, <2>10, LookupQualifiedType DEF CallLookupQualified
  <2>11. CASE UNCHANGED vars
    BY <2>0, <2>11 DEF vars
  <2> HIDE DEF Good
  <2> QED
    BY <2>2, <2>3, <2>4, <2>5, <2>6, <2>7, <2>8, <2>9, <2>10, <2>11 DEF Next
<1> QED
  BY <1>1, <1>2, PTL DEF Spec

\* The symbol table keeps the shape of the C++ object.
THEOREM TypeCorrect == Spec => []TypeOK
BY InvInductive, PTL DEF Inv

\* symbols_.at() is never called with a position outside symbols_.
THEOREM IndicesInRange == Spec => []IndicesOK
BY InvInductive, PTL DEF Inv

\* scope_ always points to a scope that exists, whatever sequence of calls the
\* parser and the importer make.
THEOREM ScopeNeverDangles == Spec => []ScopeAlive
BY InvInductive, PTL DEF Inv

\* Only openScope destroys scopes: a closed module scope is still there when
\* the exporter walks it.
THEOREM ClosedScopesSurvive == Spec => ScopesSurvive
<1> DEFINE Kept(t, u) == u.level <= t.level =>
                           \A m \in Modules : Len(t.scopes[m]) <= Len(u.scopes[m])
<1>1. Inv /\ [Next]_vars => Kept(table, table')
  <2> SUFFICES ASSUME Inv, [Next]_vars PROVE Kept(table, table')
    OBVIOUS
  <2>0. GoodTable(table)
    BY DEF Inv, TypeOK, IndicesOK, ScopeAlive, GoodTable
  <2>1. /\ table.scopes \in [Modules -> Seq(Scopes)] /\ table.module \in Modules
        /\ table.level \in Nat /\ table.level + 1 \in DOMAIN table.scopes[table.module]
        /\ \A m \in Modules : Len(table.scopes[m]) \in Nat
    BY <2>0, GoodTableFacts
  <2>2. ASSUME table' = table PROVE Kept(table, table')
    BY <2>1, <2>2
  <2>3. ASSUME NEW m \in Modules, NEW i \in DOMAIN table.scopes[m], NEW s,
               table' = WithChain(table, m, [table.scopes[m] EXCEPT ![i] = s])
        PROVE  Kept(table, table')
    <3>1. table'.scopes = [table.scopes EXCEPT ![m] = [table.scopes[m] EXCEPT ![i] = s]]
      BY <2>3 DEF WithChain
    <3>2. \A k \in Modules : Len(table'.scopes[k]) = Len(table.scopes[k])
      BY <2>1, <3>1
    <3> QED BY <2>1, <3>2
  <2>4. ASSUME NEW m \in Modules, NEW activate \in BOOLEAN, CallAddModule(m, activate)
        PROVE  Kept(table, table')
    <3>1. CASE HasModule(table, m)
      BY <2>2, <2>4, <3>1 DEF CallAddModule, Exit
    <3>2. CASE ~HasModule(table, m)
      <4>1. table'.scopes = [table.scopes EXCEPT ![m] = <<EmptyScope>>]
        BY <2>4, <3>2 DEF CallAddModule, Update, AddModule
      <4>2. table.scopes[m] = <<>> /\ Len(<<EmptyScope>>) = 1
        BY <3>2 DEF HasModule
      <4>3. \A k \in Modules : table'.scopes[k] = IF k = m THEN <<EmptyScope>> ELSE table.scopes[k]
        BY <2>1, <4>1
      <4> QED BY <2>1, <4>2, <4>3
    <3> QED BY <3>1, <3>2
  <2>5. ASSUME NEW m \in Modules, NEW n \in Names, NEW d \in Decls, CallImport(m, n, d)
        PROVE  Kept(table, table')
    <3>1. CASE HasModule(table, m)
      <4>1. 1 \in DOMAIN table.scopes[m]
        BY <2>1, <3>1 DEF HasModule
      <4> QED BY <2>3, <2>5, <3>1, <4>1 DEF CallImport, Update, Import
    <3>2. CASE ~HasModule(table, m)
      BY <2>2, <2>5, <3>2 DEF CallImport, Exit
    <3> QED BY <3>1, <3>2
  <2>6. ASSUME NEW n \in Names, NEW d \in Decls, CallInsert(n, d)
        PROVE  Kept(table, table')
    BY <2>1, <2>3, <2>6 DEF CallInsert, Update, Insert, Current
  <2>7. ASSUME table'.scopes = table.scopes PROVE Kept(table, table')
    BY <2>1, <2>7
  <2>8. ASSUME NEW n \in Names, NEW d \in Decls, CallInsertGlobal(n, d)
        PROVE  Kept(table, table')
    BY <2>7, <2>8 DEF CallInsertGlobal, Update, InsertGlobal
  <2>9. ASSUME NEW a \in Modules, NEW m \in Modules, CallAddAlias(a, m)
        PROVE  Kept(table, table')
    BY <2>7, <2>9 DEF CallAddAlias, Update, AddAlias
  <2>10. CASE CallOpenScope
    <3>1. table'.level = table.level + 1
      BY <2>10 DEF CallOpenScope, Update, OpenScope, MoveTo, WithChain
    <3> QED BY <2>1, <3>1
  <2>11. CASE CallCloseScope
    <3> HIDE DEF Kept
    <3>1. CASE table.level > 0
      <4>1. table' = CloseScope(table)
        BY <2>11, <3>1, Zenon DEF CallCloseScope, Update
      <4>2. table'.scopes = table.scopes
        BY <4>1 DEF CloseScope, MoveTo
      <4> QED BY <2>7, <4>2
    <3>2. CASE ~(table.level > 0)
      <4>1. table' = table
        BY <2>11, <3>2 DEF CallCloseScope, Exit
      <4> QED BY <2>2, <4>1
    <3> QED BY <3>1, <3>2
  <2>12. ASSUME NEW n \in Names, CallLookup(n) PROVE Kept(table, table')
    BY <2>2, <2>12 DEF CallLookup
  <2>13. ASSUME NEW q \in Modules, NEW n \in Names, CallLookupQualified(q, n)
         PROVE  Kept(table, table')
    BY <2>2, <2>13 DEF CallLookupQualified
  <2>14. CASE UNCHANGED vars
    BY <2>2, <2>14 DEF vars
  <2> HIDE DEF Kept
  <2> QED
    BY <2>4, <2>5, <2>6, <2>8, <2>9, <2>10, <2>11, <2>12, <2>13, <2>14 DEF Next
<1>2. Inv /\ [Next]_vars => [Kept(table, table')]_vars
  BY <1>1
<1> QED
  BY <1>2, InvInductive, PTL DEF Spec, ScopesSurvive

---------------------------------------------------------------------------
(* The table implements LexicalEnvironment.                                *)

Bind(b, n, d) == Environment!Bind(b, n, d)

\* Inserting into a scope binds the name unless the scope has it already.
LEMMA ScopeInsertBinds ==
  ASSUME NEW s, GoodScope(s), NEW n \in Names, NEW d \in Decls
  PROVE  BindingsOf(ScopeInsert(s, n, d)) = Bind(BindingsOf(s), n, d)
<1> DEFINE u == ScopeInsert(s, n, d)
<1>1. /\ s.symbols \in Seq(Decls) /\ s.indices \in [Names -> Nat]
      /\ \A k \in Names : s.indices[k] \in 0..Len(s.symbols)
  BY DEF GoodScope, Scopes, IndexOK
<1>2. /\ Len(Append(s.symbols, d)) = Len(s.symbols) + 1
      /\ Append(s.symbols, d)[Len(s.symbols) + 1] = d
      /\ \A i \in 1..Len(s.symbols) : Append(s.symbols, d)[i] = s.symbols[i]
  BY <1>1
<1>3. \A k \in Names : s.indices[k] # 0 => s.symbols[s.indices[k]] \in Decls
  BY <1>1
<1>4. ASSUME NEW k \in Names
      PROVE  ScopeLookup(u, k) = IF k = n /\ ScopeLookup(s, n) = NoDecl THEN d
                                 ELSE ScopeLookup(s, k)
  <2>1. CASE s.indices[k] # 0
    BY <1>1, <1>2, <1>3, <2>1, DeclsAssumption DEF ScopeInsert, ScopeLookup
  <2>2. CASE s.indices[k] = 0
    BY <1>1, <1>2, <1>3, <2>2, DeclsAssumption DEF ScopeInsert, ScopeLookup
  <2> QED BY <2>1, <2>2
<1> HIDE DEF u
<1>5. BindingsOf(u) = Bind(BindingsOf(s), n, d)
  BY <1>4 DEF Bind, Environment!Bind, BindingsOf
<1> QED
  BY <1>5 DEF u

\* A new scope binds nothing.
LEMMA EmptyScopeBinds == BindingsOf(EmptyScope) = [n \in Names |-> NoDecl]
BY DEF BindingsOf, EmptyScope, ScopeLookup

\* The abstract stack has one block per level above the root scope.
LEMMA BlocksAreSequence ==
  ASSUME NEW t, GoodTable(t)
  PROVE  /\ Blocks(t) \in Seq([Names -> Decls \cup {NoDecl}])
         /\ Len(Blocks(t)) = t.level
         /\ DOMAIN Blocks(t) = 1..t.level
         /\ \A l \in 1..t.level : Blocks(t)[l] = BindingsOf(Current(t)[l + 1])
         /\ Blocks(t) = <<>> <=> t.level = 0
<1>1. t.level \in Nat /\ t.level + 1 \in 1..Len(Current(t)) /\ Current(t) \in Seq(Scopes)
  BY GoodTableFacts DEF Current
<1>2. \A l \in 1..t.level : BindingsOf(Current(t)[l + 1]) \in [Names -> Decls \cup {NoDecl}]
  <2> SUFFICES ASSUME NEW l \in 1..t.level
               PROVE  BindingsOf(Current(t)[l + 1]) \in [Names -> Decls \cup {NoDecl}]
    OBVIOUS
  <2>1. l + 1 \in DOMAIN Current(t)
    BY <1>1
  <2>2. GoodScope(Current(t)[l + 1])
    BY <2>1, GoodTableFacts DEF Current
  <2> QED
    BY <2>2, ScopeLookupType DEF BindingsOf
<1>3. Blocks(t) \in Seq([Names -> Decls \cup {NoDecl}]) /\ Len(Blocks(t)) = t.level
  BY <1>1, <1>2 DEF Blocks
<1>4. DOMAIN Blocks(t) = 1..t.level
  BY DEF Blocks
<1>5. \A l \in 1..t.level : Blocks(t)[l] = BindingsOf(Current(t)[l + 1])
  BY DEF Blocks
<1>6. Blocks(t) = <<>> <=> t.level = 0
  BY <1>1, <1>3
<1> QED
  BY <1>3, <1>4, <1>5, <1>6

\* Replacing one scope of a chain replaces its bindings in the abstraction.
LEMMA ReplaceScopeMaps ==
  ASSUME NEW t, GoodTable(t), NEW m \in Modules, NEW i \in DOMAIN t.scopes[m],
         NEW s, GoodScope(s),
         NEW u, u = WithChain(t, m, [t.scopes[m] EXCEPT ![i] = s])
  PROVE  /\ Known(u) = Known(t)
         /\ u.aliases = t.aliases /\ u.module = t.module /\ u.universe = t.universe
         /\ Spaces(u) = IF i = 1 THEN [Spaces(t) EXCEPT ![m] = BindingsOf(s)] ELSE Spaces(t)
         /\ Blocks(u) = IF m = t.module /\ i - 1 \in 1..t.level
                        THEN [Blocks(t) EXCEPT ![i - 1] = BindingsOf(s)] ELSE Blocks(t)
<1>1. /\ t.scopes \in [Modules -> Seq(Scopes)] /\ t.scopes[m] \in Seq(Scopes)
      /\ t.module \in Modules /\ t.level \in Nat
  BY GoodTableFacts
<1>2. i \in 1..Len(t.scopes[m]) /\ i \in Nat
  BY <1>1
<1>3. /\ u.aliases = t.aliases /\ u.module = t.module /\ u.universe = t.universe
      /\ u.level = t.level
      /\ u.scopes = [t.scopes EXCEPT ![m] = [t.scopes[m] EXCEPT ![i] = s]]
  BY DEF WithChain
<1>3a. ASSUME NEW k \in Modules, NEW j \in DOMAIN t.scopes[k]
      PROVE  u.scopes[k][j] = IF k = m /\ j = i THEN s ELSE t.scopes[k][j]
  <2>1. CASE k = m
    BY <1>1, <1>3, <2>1
  <2>2. CASE k # m
    BY <1>1, <1>3, <2>2
  <2> QED BY <2>1, <2>2
<1>4. \A k \in Modules : HasModule(u, k) <=> HasModule(t, k)
  <2>1. HasModule(t, m)
    BY <1>1, <1>2 DEF HasModule
  <2>2. u.scopes[m] # <<>>
    BY <1>1, <1>2, <1>3
  <2> QED
    BY <1>1, <1>3, <2>1, <2>2 DEF HasModule
<1>5. \A k \in Modules : RootScope(u, k) = IF k = m /\ i = 1 THEN s ELSE RootScope(t, k)
  <2>1. HasModule(t, m)
    BY <1>1, <1>2 DEF HasModule
  <2>2. \A k \in Modules : HasModule(t, k) => 1 \in DOMAIN t.scopes[k]
    BY <1>1 DEF HasModule
  <2>3. \A k \in Modules : HasModule(t, k) =>
          u.scopes[k][1] = IF k = m /\ i = 1 THEN s ELSE t.scopes[k][1]
    BY <2>2, <1>3a
  <2> QED
    BY <1>4, <2>1, <2>3 DEF RootScope
<1>6. Spaces(u) = IF i = 1 THEN [Spaces(t) EXCEPT ![m] = BindingsOf(s)] ELSE Spaces(t)
  BY <1>5 DEF Spaces
<1>7. ASSUME NEW l \in 1..t.level
      PROVE  Current(u)[l + 1] = IF m = t.module /\ l + 1 = i THEN s ELSE Current(t)[l + 1]
  <2>1. l + 1 \in DOMAIN t.scopes[t.module]
    BY <1>1, GoodTableFacts
  <2> QED
    BY <1>1, <1>3, <1>3a, <2>1 DEF Current
<1>8. Blocks(u) = IF m = t.module /\ i - 1 \in 1..t.level
                  THEN [Blocks(t) EXCEPT ![i - 1] = BindingsOf(s)] ELSE Blocks(t)
  <2>1. \A l \in 1..t.level : l + 1 = i <=> l = i - 1
    BY <1>1, <1>2
  <2>2. Blocks(u) = [l \in 1..t.level |-> BindingsOf(Current(u)[l + 1])]
    BY <1>3 DEF Blocks
  <2>3. Blocks(u) = [l \in 1..t.level |-> IF m = t.module /\ l = i - 1 THEN BindingsOf(s)
                                          ELSE BindingsOf(Current(t)[l + 1])]
    BY <1>7, <2>1, <2>2
  <2> QED
    BY <2>3 DEF Blocks
<1> QED
  BY <1>3, <1>4, <1>6, <1>8 DEF Known

\* Import binds in the outermost scope of a module.
LEMMA ImportMaps ==
  ASSUME NEW t, GoodTable(t), NEW m \in Modules, HasModule(t, m),
         NEW n \in Names, NEW d \in Decls, NEW u, u = Import(t, m, n, d)
  PROVE  /\ Known(u) = Known(t) /\ u.aliases = t.aliases /\ u.module = t.module
         /\ u.universe = t.universe /\ Blocks(u) = Blocks(t)
         /\ Spaces(u) = [Spaces(t) EXCEPT ![m] = Bind(@, n, d)]
<1> DEFINE s == ScopeInsert(t.scopes[m][1], n, d)
<1>1. 1 \in DOMAIN t.scopes[m]
  BY GoodTableFacts DEF HasModule
<1>2. GoodScope(t.scopes[m][1])
  BY <1>1, GoodTableFacts
<1>3. GoodScope(s) /\ BindingsOf(s) = Bind(BindingsOf(t.scopes[m][1]), n, d)
  BY <1>2, ScopeInsertGood, ScopeInsertBinds
<1>4. BindingsOf(t.scopes[m][1]) = Spaces(t)[m]
  BY DEF Spaces, RootScope
<1> HIDE DEF s
<1>5. u = WithChain(t, m, [t.scopes[m] EXCEPT ![1] = s])
  BY DEF Import, s
<1>6. 1 - 1 \notin 1..t.level
  BY GoodTableFacts
<1> QED
  BY <1>1, <1>3, <1>4, <1>5, <1>6, ReplaceScopeMaps

\* Insert binds in the innermost open scope.
LEMMA InsertMaps ==
  ASSUME NEW t, GoodTable(t), NEW n \in Names, NEW d \in Decls, NEW u, u = Insert(t, n, d)
  PROVE  /\ Known(u) = Known(t) /\ u.aliases = t.aliases /\ u.module = t.module
         /\ u.universe = t.universe
         /\ IF t.level = 0
            THEN /\ Blocks(u) = Blocks(t)
                 /\ Spaces(u) = [Spaces(t) EXCEPT ![t.module] = Bind(@, n, d)]
            ELSE /\ Blocks(u) = [Blocks(t) EXCEPT ![t.level] = Bind(@, n, d)]
                 /\ Spaces(u) = Spaces(t)
<1> DEFINE i == t.level + 1
           old == Current(t)[i]
           s == ScopeInsert(old, n, d)
<1>1. t.module \in Modules /\ i \in DOMAIN t.scopes[t.module] /\ t.level \in Nat
  BY GoodTableFacts
<1>2. GoodScope(old)
  BY <1>1, GoodTableFacts DEF Current
<1>3. GoodScope(s) /\ BindingsOf(s) = Bind(BindingsOf(old), n, d)
  BY <1>2, ScopeInsertGood, ScopeInsertBinds
<1> HIDE DEF s
<1>4. u = WithChain(t, t.module, [t.scopes[t.module] EXCEPT ![i] = s])
  BY DEF Insert, Current, s
<1>5. CASE t.level = 0
  <2>1. HasModule(t, t.module)
    BY <1>1, GoodTableFacts DEF HasModule
  <2>2. BindingsOf(old) = Spaces(t)[t.module]
    BY <1>1, <1>5, <2>1 DEF Spaces, RootScope, Current
  <2>3. i = 1 /\ i - 1 \notin 1..t.level
    BY <1>5
  <2> QED
    BY <1>1, <1>3, <1>4, <1>5, <2>2, <2>3, ReplaceScopeMaps
<1>6. CASE t.level # 0
  <2>1. i # 1 /\ i - 1 = t.level /\ t.level \in 1..t.level
    BY <1>1, <1>6
  <2>2. BindingsOf(old) = Blocks(t)[t.level]
    BY <2>1 DEF Blocks
  <2> HIDE DEF i, old
  <2> QED
    BY <1>1, <1>3, <1>4, <1>6, <2>1, <2>2, ReplaceScopeMaps
<1> QED
  BY <1>5, <1>6

\* addModule creates an empty namespace and, activated, leaves all blocks.
LEMMA AddModuleMaps ==
  ASSUME NEW t, GoodTable(t), NEW m \in Modules, ~HasModule(t, m), NEW activate \in BOOLEAN,
         NEW u, u = AddModule(t, m, activate)
  PROVE  /\ Known(u) = Known(t) \cup {m} /\ Spaces(u) = Spaces(t)
         /\ u.aliases = [t.aliases EXCEPT ![m] = m] /\ u.universe = t.universe
         /\ u.module = IF activate THEN m ELSE t.module
         /\ Blocks(u) = IF activate THEN <<>> ELSE Blocks(t)
<1>1. /\ u.scopes = [t.scopes EXCEPT ![m] = <<EmptyScope>>]
      /\ u.aliases = [t.aliases EXCEPT ![m] = m] /\ u.universe = t.universe
      /\ u.module = IF activate THEN m ELSE t.module
      /\ u.level = IF activate THEN 0 ELSE t.level
  BY DEF AddModule
<1>2. t.scopes \in [Modules -> Seq(Scopes)] /\ t.module \in Modules /\ t.level \in Nat
  BY GoodTableFacts
<1>3. \A k \in Modules : (k = m => u.scopes[k] = <<EmptyScope>>) /\ (k # m => u.scopes[k] = t.scopes[k])
  <2> DEFINE f == t.scopes
             new == <<EmptyScope>>
  <2>1. f \in [Modules -> Seq(Scopes)] /\ u.scopes = [f EXCEPT ![m] = new]
    BY <1>1, <1>2
  <2> HIDE DEF f, new
  <2>2. \A k \in Modules : (k = m => u.scopes[k] = new) /\ (k # m => u.scopes[k] = f[k])
    BY <2>1
  <2> QED
    BY <2>2 DEF f, new
<1>4. \A k \in Modules : HasModule(u, k) <=> HasModule(t, k) \/ k = m
  <2>1. <<EmptyScope>> # <<>>
    OBVIOUS
  <2>2. HasModule(u, m)
    BY <1>3, <2>1 DEF HasModule
  <2>3. ASSUME NEW k \in Modules, k # m PROVE HasModule(u, k) <=> HasModule(t, k)
    BY <1>3, <2>3 DEF HasModule
  <2> QED
    BY <2>2, <2>3
<1>5. \A k \in Modules : RootScope(u, k) = RootScope(t, k)
  <2>1. RootScope(t, m) = EmptyScope
    BY DEF RootScope
  <2>2. HasModule(u, m) /\ u.scopes[m] = <<EmptyScope>>
    BY <1>3, <1>4
  <2>3. RootScope(u, m) = EmptyScope
    BY <2>2 DEF RootScope
  <2>4. ASSUME NEW k \in Modules, k # m PROVE RootScope(u, k) = RootScope(t, k)
    <3>1. (HasModule(u, k) <=> HasModule(t, k)) /\ u.scopes[k] = t.scopes[k]
      BY <1>3, <1>4, <2>4
    <3> QED
      BY <3>1 DEF RootScope
  <2> QED
    BY <2>1, <2>3, <2>4
<1>6. t.module # m
  BY <1>2, GoodTableFacts DEF HasModule
<1>7. Blocks(u) = IF activate THEN <<>> ELSE Blocks(t)
  <2>1. CASE activate
    <3>1. GoodTable(u)
      BY AddModuleGood
    <3>2. Blocks(u) = <<>>
      BY <1>1, <2>1, <3>1, BlocksAreSequence
    <3> QED BY <2>1, <3>2
  <2>2. CASE ~activate
    <3>1. u.level = t.level /\ Current(u) = Current(t)
      BY <1>1, <1>2, <1>3, <1>6, <2>2 DEF Current
    <3> QED BY <2>2, <3>1 DEF Blocks
  <2> QED BY <2>1, <2>2
<1> QED
  BY <1>1, <1>4, <1>5, <1>7 DEF Known, Spaces

\* openScope pushes an empty block; what the chain retained is forgotten.
LEMMA OpenScopeMaps ==
  ASSUME NEW t, GoodTable(t), NEW u, u = OpenScope(t)
  PROVE  /\ Known(u) = Known(t) /\ Spaces(u) = Spaces(t)
         /\ u.aliases = t.aliases /\ u.module = t.module /\ u.universe = t.universe
         /\ Blocks(u) = Append(Blocks(t), [n \in Names |-> NoDecl])
<1> DEFINE kept == SubSeq(t.scopes[t.module], 1, t.level + 1)
           chain == Append(kept, EmptyScope)
<1>1. /\ t.scopes \in [Modules -> Seq(Scopes)] /\ t.module \in Modules
      /\ t.level \in Nat /\ t.scopes[t.module] \in Seq(Scopes)
      /\ t.level + 1 \in 1..Len(t.scopes[t.module])
  BY GoodTableFacts
<1>2. /\ kept \in Seq(Scopes) /\ Len(kept) = t.level + 1
      /\ \A i \in 1..t.level + 1 : kept[i] = t.scopes[t.module][i]
  BY <1>1
<1>3. /\ chain \in Seq(Scopes) /\ Len(chain) = t.level + 2
      /\ \A i \in 1..t.level + 1 : chain[i] = t.scopes[t.module][i]
      /\ chain[t.level + 2] = EmptyScope
  BY <1>1, <1>2, EmptyScopeGood DEF GoodScope
<1>4. /\ u.scopes = [t.scopes EXCEPT ![t.module] = chain]
      /\ u.aliases = t.aliases /\ u.module = t.module /\ u.universe = t.universe
      /\ u.level = t.level + 1
  BY DEF OpenScope, MoveTo, WithChain, Current
<1> HIDE DEF kept, chain
<1>5. \A k \in Modules : u.scopes[k] = IF k = t.module THEN chain ELSE t.scopes[k]
  BY <1>1, <1>4
<1>6. t.scopes[t.module] # <<>> /\ chain # <<>> /\ chain[1] = t.scopes[t.module][1]
  BY <1>1, <1>3
<1>7. \A k \in Modules : (HasModule(u, k) <=> HasModule(t, k)) /\ RootScope(u, k) = RootScope(t, k)
  BY <1>5, <1>6 DEF HasModule, RootScope
<1>8. Blocks(u) = Append(Blocks(t), [n \in Names |-> NoDecl])
  <2> DEFINE pushed == Append(Blocks(t), [n \in Names |-> NoDecl])
  <2>1. GoodTable(u)
    BY OpenScopeGood
  <2>2. /\ pushed \in Seq([Names -> Decls \cup {NoDecl}]) /\ Len(pushed) = t.level + 1
        /\ \A l \in 1..t.level : pushed[l] = Blocks(t)[l]
        /\ pushed[t.level + 1] = [n \in Names |-> NoDecl]
    BY <1>1, BlocksAreSequence
  <2>3. /\ Blocks(u) \in Seq([Names -> Decls \cup {NoDecl}]) /\ Len(Blocks(u)) = t.level + 1
        /\ \A l \in 1..t.level + 1 : Blocks(u)[l] = BindingsOf(chain[l + 1])
    BY <2>1, <1>1, <1>4, <1>5, BlocksAreSequence DEF Current
  <2>4. ASSUME NEW l \in 1..t.level + 1
        PROVE  Blocks(u)[l] = pushed[l]
    <3>1. CASE l = t.level + 1
      BY <3>1, <1>1, <1>3, <2>2, <2>3, EmptyScopeBinds
    <3>2. CASE l # t.level + 1
      <4>1. l \in 1..t.level /\ l + 1 \in 1..t.level + 1
        BY <1>1, <3>2
      <4>2. Blocks(t)[l] = BindingsOf(t.scopes[t.module][l + 1])
        BY <4>1, BlocksAreSequence DEF Current
      <4> QED BY <4>1, <4>2, <1>3, <2>2, <2>3
    <3> QED BY <3>1, <3>2
  <2> HIDE DEF pushed
  <2>5. Blocks(u) = pushed
    <3>1. \A l \in 1..Len(Blocks(u)) : Blocks(u)[l] = pushed[l]
      BY <2>3, <2>4
    <3> QED BY <2>2, <2>3, <3>1, SeqEqual
  <2> QED BY <2>5 DEF pushed
<1> QED
  BY <1>4, <1>7, <1>8 DEF Known, Spaces

\* closeScope pops the innermost block; its scope stays in the chain unseen.
LEMMA CloseScopeMaps ==
  ASSUME NEW t, GoodTable(t), t.level > 0, NEW u, u = CloseScope(t)
  PROVE  /\ Known(u) = Known(t) /\ Spaces(u) = Spaces(t)
         /\ u.aliases = t.aliases /\ u.module = t.module /\ u.universe = t.universe
         /\ Blocks(t) # <<>>
         /\ Blocks(u) = SubSeq(Blocks(t), 1, Len(Blocks(t)) - 1)
<1>1. /\ u.scopes = t.scopes /\ u.aliases = t.aliases /\ u.module = t.module
      /\ u.universe = t.universe /\ u.level = t.level - 1
  BY DEF CloseScope, MoveTo
<1>2. t.level \in Nat \ {0} /\ GoodTable(u)
  BY GoodTableFacts, CloseScopeGood
<1>3. /\ Blocks(t) \in Seq([Names -> Decls \cup {NoDecl}]) /\ Len(Blocks(t)) = t.level
      /\ \A l \in 1..t.level : Blocks(t)[l] = BindingsOf(Current(t)[l + 1])
      /\ Blocks(t) # <<>>
  BY <1>2, BlocksAreSequence
<1>4. /\ Blocks(u) \in Seq([Names -> Decls \cup {NoDecl}]) /\ Len(Blocks(u)) = t.level - 1
      /\ \A l \in 1..t.level - 1 : Blocks(u)[l] = BindingsOf(Current(t)[l + 1])
  BY <1>1, <1>2, BlocksAreSequence DEF Current
<1> DEFINE popped == SubSeq(Blocks(t), 1, t.level - 1)
<1>5. /\ popped \in Seq([Names -> Decls \cup {NoDecl}]) /\ Len(popped) = t.level - 1
      /\ \A l \in 1..t.level - 1 : popped[l] = Blocks(t)[l]
  BY <1>2, <1>3
<1> HIDE DEF popped
<1>6. \A l \in 1..t.level - 1 : Blocks(u)[l] = popped[l]
  BY <1>2, <1>3, <1>4, <1>5
<1>7. Blocks(u) = popped
  BY <1>2, <1>4, <1>5, <1>6
<1> QED
  BY <1>1, <1>3, <1>7 DEF Known, Spaces, HasModule, RootScope, popped

\* addAlias renames the module.
LEMMA AddAliasMaps ==
  ASSUME NEW t, GoodTable(t), NEW a \in Modules, NEW m \in Modules, NEW u, u = AddAlias(t, a, m)
  PROVE  /\ Known(u) = Known(t) /\ Spaces(u) = Spaces(t) /\ Blocks(u) = Blocks(t)
         /\ u.module = t.module /\ u.universe = t.universe
         /\ u.aliases = [q \in Modules |-> IF q = a THEN m ELSE IF q = m THEN NoModule
                                           ELSE t.aliases[q]]
<1>1. t.aliases \in [Modules -> Modules \cup {NoModule}]
  BY GoodTableFacts
<1>2. u.aliases = [[t.aliases EXCEPT ![m] = NoModule] EXCEPT ![a] = m]
  BY DEF AddAlias
<1>3. /\ u.scopes = t.scopes /\ u.module = t.module /\ u.universe = t.universe
      /\ u.level = t.level
  BY DEF AddAlias
<1> QED
  BY <1>1, <1>2, <1>3 DEF Known, Spaces, Blocks, HasModule, RootScope, Current

\* lookup finds what is visible in the environment.
LEMMA LookupMaps ==
  ASSUME GoodTable(table), NEW n \in Names
  PROVE  Lookup(table, n) = Environment!Visible(n)
<1> DEFINE L == DeclaringLevels(Current(table), table.level, n)
           E == {l \in 0..Len(Blocks(table)) : Environment!Block(l)[n] # NoDecl}
<1>1. /\ table.module \in Modules /\ table.module # NoModule /\ table.level \in Nat
      /\ HasModule(table, table.module)
  BY GoodTableFacts, ModulesAssumption DEF HasModule
<1>2. ASSUME NEW l \in 0..table.level
      PROVE  Environment!Block(l)[n] = ScopeLookup(Current(table)[l + 1], n)
  <2>1. CASE l = 0
    BY <1>1, <2>1 DEF Environment!Block, Spaces, RootScope, BindingsOf, Current
  <2>2. CASE l # 0
    <3>1. l \in 1..table.level
      BY <1>1, <2>2
    <3> QED
      BY <2>2, <3>1 DEF Environment!Block, Blocks, BindingsOf
  <2> QED BY <2>1, <2>2
<1>3. L = E
  BY <1>2, BlocksAreSequence DEF DeclaringLevels
<1>4. Lookup(table, n) = IF L = {} THEN ScopeLookup(table.universe, n)
                         ELSE ScopeLookup(Current(table)[Innermost(L) + 1], n)
  <2>1. CASE L = {}
    BY <1>1, <2>1 DEF Lookup, ChainLookup
  <2>2. CASE L # {}
    <3>1. Innermost(L) \in L
      BY <1>1, <2>2, InnermostExists DEF DeclaringLevels
    <3>2. ScopeLookup(Current(table)[Innermost(L) + 1], n) # NoDecl
      BY <3>1 DEF DeclaringLevels
    <3> QED
      BY <1>1, <2>2, <3>2 DEF Lookup, ChainLookup
  <2> QED BY <2>1, <2>2
<1>5. ASSUME L # {}
      PROVE  ScopeLookup(Current(table)[Innermost(L) + 1], n) = Environment!Block(Innermost(L))[n]
  <2>1. Innermost(L) \in 0..table.level
    BY <1>1, <1>5, InnermostExists DEF DeclaringLevels
  <2> QED
    BY <2>1, <1>2
<1>6. Environment!Visible(n) = IF E = {} THEN BindingsOf(table.universe)[n]
                               ELSE Environment!Block(Innermost(E))[n]
  BY DEF Environment!Visible, Innermost
<1>7. BindingsOf(table.universe)[n] = ScopeLookup(table.universe, n)
  BY DEF BindingsOf
<1> HIDE DEF L, E
<1> QED
  BY <1>3, <1>4, <1>5, <1>6, <1>7

\* Qualified lookups find what the module's namespace binds.
LEMMA LookupQualifiedMaps ==
  ASSUME GoodTable(table), NEW q \in Modules, NEW n \in Names
  PROVE  LookupQualified(table, q, n) = Environment!VisibleIn(q, n)
BY GoodTableFacts, ModulesAssumption
   DEF LookupQualified, Environment!VisibleIn, Known, Spaces, RootScope, BindingsOf

\* The table starts out as the environment does: SYSTEM exists and is empty.
LEMMA InitMaps == Init => Environment!Init
<1> SUFFICES ASSUME Init PROVE Environment!Init
  OBVIOUS
<1> DEFINE t == AddModule(EmptyTable, System, TRUE)
<1>1. System \in Modules
  BY ModulesAssumption
<1>2. /\ table.scopes = [m \in Modules |-> IF m = System
                           THEN Append(SubSeq(<<EmptyScope>>, 1, 1), EmptyScope) ELSE <<>>]
      /\ table.aliases = [m \in Modules |-> IF m = System THEN System ELSE NoModule]
      /\ table.module = System /\ table.level = 0 /\ table.universe = EmptyScope
  <2>1. /\ t.scopes = [m \in Modules |-> IF m = System THEN <<EmptyScope>> ELSE <<>>]
        /\ t.aliases = [m \in Modules |-> IF m = System THEN System ELSE NoModule]
        /\ t.module = System /\ t.level = 0 /\ t.universe = EmptyScope
    BY <1>1 DEF AddModule, EmptyTable
  <2>2. table = CloseScope(OpenScope(t))
    BY DEF Init, InitialTable
  <2> HIDE DEF t
  <2>3. /\ OpenScope(t).scopes = [t.scopes EXCEPT ![System] =
                                    Append(SubSeq(t.scopes[System], 1, 1), EmptyScope)]
        /\ OpenScope(t).aliases = t.aliases /\ OpenScope(t).module = System
        /\ OpenScope(t).level = 1 /\ OpenScope(t).universe = EmptyScope
    BY <2>1 DEF OpenScope, MoveTo, WithChain, Current
  <2>4. t.scopes[System] = <<EmptyScope>>
    BY <1>1, <2>1
  <2>5. OpenScope(t).scopes = [m \in Modules |-> IF m = System
                           THEN Append(SubSeq(<<EmptyScope>>, 1, 1), EmptyScope) ELSE <<>>]
    BY <1>1, <2>1, <2>3, <2>4
  <2> QED
    BY <2>1, <2>2, <2>3, <2>5 DEF CloseScope, MoveTo
<1>3. GoodTable(table)
  BY InitialTableGood DEF Init, InitialTable
<1>4. table.scopes[System] # <<>> /\ table.scopes[System][1] = EmptyScope
  BY <1>1, <1>2
<1>5. Known(table) = {System}
  BY <1>1, <1>2, <1>4 DEF Known, HasModule
<1>6. Spaces(table) = [m \in Modules |-> Environment!Unbound]
  <2>1. \A m \in Modules : RootScope(table, m) = EmptyScope
    BY <1>2, <1>4 DEF RootScope, HasModule
  <2> QED
    BY <2>1, EmptyScopeBinds DEF Spaces, Environment!Unbound
<1>7. Blocks(table) = <<>>
  BY <1>2, <1>3, BlocksAreSequence
<1> QED
  BY <1>2, <1>5, <1>6, <1>7, EmptyScopeBinds DEF Init, Environment!Init, Environment!Unbound

\* Every behaviour of the symbol table is a behaviour of LexicalEnvironment:
\* the theorem the run SymbolTable checks on a small table, for any number of
\* modules, names, declarations and nested scopes.
THEOREM Refinement == Spec => ImplementsEnvironment
<1>1. Init => Environment!Init
  BY InitMaps
<1>2. Inv /\ [Next]_vars => [Environment!Next]_(Environment!vars)
  <2> SUFFICES ASSUME Inv, [Next]_vars PROVE Environment!Next \/ UNCHANGED Environment!vars
    OBVIOUS
  <2>0. GoodTable(table)
    BY DEF Inv, TypeOK, IndicesOK, ScopeAlive, GoodTable
  <2>1. ASSUME Exit, running PROVE Environment!Illegal
    BY <2>1 DEF Exit, Environment!Illegal, Environment!Break
  <2>2. ASSUME NEW m \in Modules, NEW activate \in BOOLEAN, CallAddModule(m, activate)
        PROVE  Environment!Next
    <3>1. CASE HasModule(table, m)
      BY <2>1, <2>2, <3>1 DEF CallAddModule, Environment!Next
    <3>2. CASE ~HasModule(table, m)
      <4>1. /\ running /\ table' = AddModule(table, m, activate)
            /\ found' = found /\ running' = running
        BY <2>2, <3>2 DEF CallAddModule, Update
      <4>2. m \notin Known(table)
        BY <3>2 DEF Known
      <4>3. Environment!Create(m) \/ Environment!Switch(m)
        BY <2>0, <3>2, <4>1, <4>2, AddModuleMaps DEF Environment!Create, Environment!Switch
      <4> QED BY <4>3 DEF Environment!Next
    <3> QED BY <3>1, <3>2
  <2>3. ASSUME NEW m \in Modules, NEW n \in Names, NEW d \in Decls, CallImport(m, n, d)
        PROVE  Environment!Next
    <3>1. CASE ~HasModule(table, m)
      BY <2>1, <2>3, <3>1 DEF CallImport, Environment!Next
    <3>2. CASE HasModule(table, m)
      <4>1. /\ running /\ table' = Import(table, m, n, d)
            /\ found' = found /\ running' = running
        BY <2>3, <3>2 DEF CallImport, Update
      <4>2. m \in Known(table)
        BY <3>2 DEF Known
      <4>3. Environment!DeclareIn(m, n, d)
        BY <2>0, <3>2, <4>1, <4>2, ImportMaps DEF Environment!DeclareIn, Bind
      <4> QED BY <4>3 DEF Environment!Next
    <3> QED BY <3>1, <3>2
  <2>4. ASSUME NEW n \in Names, NEW d \in Decls, CallInsert(n, d)
        PROVE  Environment!Next
    <3>1. /\ running /\ table' = Insert(table, n, d)
          /\ found' = found /\ running' = running
      BY <2>4 DEF CallInsert, Update
    <3>2. Blocks(table) = <<>> <=> table.level = 0
      BY <2>0, BlocksAreSequence
    <3>3. Len(Blocks(table)) = table.level
      BY <2>0, BlocksAreSequence
    <3>4. Environment!Declare(n, d)
      BY <2>0, <3>1, <3>2, <3>3, InsertMaps DEF Environment!Declare, Bind
    <3> QED BY <3>4 DEF Environment!Next
  <2>5. ASSUME NEW n \in Names, NEW d \in Decls, CallInsertGlobal(n, d)
        PROVE  Environment!Next
    <3>1. /\ running /\ table' = InsertGlobal(table, n, d)
          /\ found' = found /\ running' = running
      BY <2>5 DEF CallInsertGlobal, Update
    <3>2. /\ table'.scopes = table.scopes /\ table'.aliases = table.aliases
          /\ table'.module = table.module /\ table'.level = table.level
          /\ table'.universe = ScopeInsert(table.universe, n, d)
      BY <3>1 DEF InsertGlobal
    <3>3. BindingsOf(table'.universe) = Bind(BindingsOf(table.universe), n, d)
      BY <2>0, <3>2, GoodTableFacts, ScopeInsertBinds
    <3>4. /\ Known(table') = Known(table) /\ Spaces(table') = Spaces(table)
          /\ Blocks(table') = Blocks(table)
      BY <3>2 DEF Known, Spaces, Blocks, HasModule, RootScope, Current
    <3>5. Environment!Predefine(n, d)
      BY <3>1, <3>2, <3>3, <3>4 DEF Environment!Predefine, Bind
    <3> QED BY <3>5 DEF Environment!Next
  <2>6. ASSUME NEW a \in Modules, NEW m \in Modules, CallAddAlias(a, m)
        PROVE  Environment!Next
    <3>1. /\ running /\ table' = AddAlias(table, a, m)
          /\ found' = found /\ running' = running
      BY <2>6 DEF CallAddAlias, Update
    <3>2. Environment!Rename(a, m)
      BY <2>0, <3>1, AddAliasMaps DEF Environment!Rename
    <3> QED BY <3>2 DEF Environment!Next
  <2>7. CASE CallOpenScope
    <3>1. /\ running /\ table' = OpenScope(table)
          /\ found' = found /\ running' = running
      BY <2>7 DEF CallOpenScope, Update
    <3>2. Environment!Enter
      BY <2>0, <3>1, OpenScopeMaps DEF Environment!Enter, Environment!Unbound
    <3> QED BY <3>2 DEF Environment!Next
  <2>8. CASE CallCloseScope
    <3>1. CASE table.level > 0
      <4>1. /\ running /\ table' = CloseScope(table)
            /\ found' = found /\ running' = running
        BY <2>8, <3>1 DEF CallCloseScope, Update
      <4>2. Environment!Leave
        BY <2>0, <3>1, <4>1, CloseScopeMaps DEF Environment!Leave
      <4> QED BY <4>2 DEF Environment!Next
    <3>2. CASE ~(table.level > 0)
      BY <2>1, <2>8, <3>2 DEF CallCloseScope, Environment!Next
    <3> QED BY <3>1, <3>2
  <2>9. ASSUME NEW n \in Names, CallLookup(n)
        PROVE  Environment!Next
    <3>1. running /\ found' = Lookup(table, n) /\ table' = table /\ running' = running
      BY <2>9 DEF CallLookup
    <3>2. Environment!Query(n)
      BY <2>0, <3>1, LookupMaps DEF Environment!Query
    <3> QED BY <3>2 DEF Environment!Next
  <2>10. ASSUME NEW q \in Modules, NEW n \in Names, CallLookupQualified(q, n)
         PROVE  Environment!Next
    <3>1. running /\ found' = LookupQualified(table, q, n) /\ table' = table /\ running' = running
      BY <2>10 DEF CallLookupQualified
    <3>2. Environment!QueryIn(q, n)
      BY <2>0, <3>1, LookupQualifiedMaps DEF Environment!QueryIn
    <3> QED BY <3>2 DEF Environment!Next
  <2>11. CASE UNCHANGED vars
    BY <2>11 DEF vars, Environment!vars
  <2> QED
    BY <2>2, <2>3, <2>4, <2>5, <2>6, <2>7, <2>8, <2>9, <2>10, <2>11 DEF Next
<1> QED
  BY <1>1, <1>2, InvInductive, PTL DEF Spec, ImplementsEnvironment, Environment!Spec
=============================================================================
