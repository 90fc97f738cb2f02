------------------------- MODULE SymbolTableClient -------------------------
(***************************************************************************)
(* The symbol table as a component: any client that calls its operations,  *)
(* in any order, the illegal calls that end the process included.          *)
(***************************************************************************)
EXTENDS SymbolTable, FiniteSets

CONSTANTS
  MaxLevel,    \* bound: deepest scope level opened
  MaxSymbols   \* bound: symbols held by all scopes together

ASSUME BoundsAssumption == MaxLevel \in Nat /\ MaxSymbols \in Nat

VARIABLES
  table,    \* the SymbolTable object
  found,    \* what the last lookup returned
  running   \* FALSE once an illegal call ended the process with exit(1)

vars == <<table, found, running>>

Init ==
  /\ table = InitialTable
  /\ found = NoDecl
  /\ running = TRUE

Exit == running' = FALSE /\ UNCHANGED <<table, found>>

Update(t) == table' = t /\ UNCHANGED <<found, running>>

\* The positions of symbols_ in use, in all the scopes of the table.
Slots(t) ==
  {p \in Modules \X (1..MaxLevel + 1) \X (1..MaxSymbols) :
     /\ p[2] \in DOMAIN t.scopes[p[1]]
     /\ p[3] \in DOMAIN t.scopes[p[1]][p[2]].symbols}
  \cup {<<NoModule, 0, j>> : j \in DOMAIN t.universe.symbols}

HasRoom == Cardinality(Slots(table)) < MaxSymbols

CallAddModule(m, activate) ==
  /\ running
  /\ IF HasModule(table, m) THEN Exit ELSE Update(AddModule(table, m, activate))

CallImport(m, n, d) ==
  /\ running
  /\ IF HasModule(table, m)
     THEN /\ HasRoom
          /\ Update(Import(table, m, n, d))
     ELSE Exit

CallInsert(n, d) ==
  /\ running
  /\ HasRoom
  /\ Update(Insert(table, n, d))

CallInsertGlobal(n, d) ==
  /\ running
  /\ HasRoom
  /\ Update(InsertGlobal(table, n, d))

CallAddAlias(a, m) == running /\ Update(AddAlias(table, a, m))

CallOpenScope ==
  /\ running
  /\ table.level < MaxLevel
  /\ Update(OpenScope(table))

\* Mutant: closeScope does not check for the root scope.
CallCloseScopeUnchecked ==
  /\ running
  /\ Update(CloseScope(table))

CallCloseScope ==
  /\ running
  /\ IF table.level > 0 THEN Update(CloseScope(table)) ELSE Exit

CallLookup(n) ==
  /\ running
  /\ found' = Lookup(table, n)
  /\ UNCHANGED <<table, running>>

CallLookupQualified(q, n) ==
  /\ running
  /\ found' = LookupQualified(table, q, n)
  /\ UNCHANGED <<table, running>>

Next ==
  \/ \E m \in Modules, activate \in BOOLEAN : CallAddModule(m, activate)
  \/ \E m \in Modules, n \in Names, d \in Decls : CallImport(m, n, d)
  \/ \E n \in Names, d \in Decls : CallInsert(n, d)
  \/ \E n \in Names, d \in Decls : CallInsertGlobal(n, d)
  \/ \E a, m \in Modules : CallAddAlias(a, m)
  \/ CallOpenScope
  \/ CallCloseScope
  \/ \E n \in Names : CallLookup(n)
  \/ \E q \in Modules, n \in Names : CallLookupQualified(q, n)

Spec == Init /\ [][Next]_vars

---------------------------------------------------------------------------
(* Properties *)

\* The table has the shape of the C++ object.
TypeOK ==
  /\ table \in Tables
  /\ found \in Decls \cup {NoDecl}
  /\ running \in BOOLEAN

\* indices_ never points outside symbols_, so symbols_.at() cannot throw.
IndexOK(s) == \A n \in Names : s.indices[n] \in 0..Len(s.symbols)

WellIndexed(t) ==
  /\ IndexOK(t.universe)
  /\ \A m \in Modules : \A i \in DOMAIN t.scopes[m] : IndexOK(t.scopes[m][i])

IndicesOK == WellIndexed(table)

\* scope_ never dangles: the scope it points to is part of the chain of a
\* module that exists, whatever sequence of openScope, closeScope and
\* addModule calls led here.
Alive(t) ==
  /\ t.module \in Modules
  /\ t.level < Len(t.scopes[t.module])

ScopeAlive == Alive(table)

\* Closing a scope, importing, or switching modules destroys no scope: only
\* openScope, which raises the level, may.  The exporter relies on it when it
\* reads getModule(name)->getChild() after the module's scope was closed.
ScopesSurvive ==
  [][table'.level <= table.level =>
       \A m \in Modules : Len(table.scopes[m]) <= Len(table'.scopes[m])]_vars

\* The bindings of one scope, as a function.
BindingsOf(s) == [n \in Names |-> ScopeLookup(s, n)]

\* What the abstract environment sees of the table: the closed scopes that a
\* chain retains, and the positions in symbols_, are not part of it.
Known(t) == {m \in Modules : HasModule(t, m)}
RootScope(t, m) == IF HasModule(t, m) THEN t.scopes[m][1] ELSE EmptyScope
Spaces(t) == [m \in Modules |-> BindingsOf(RootScope(t, m))]
Blocks(t) == [l \in 1..t.level |-> BindingsOf(Current(t)[l + 1])]

Environment == INSTANCE LexicalEnvironment WITH
  known      <- Known(table),
  spaces     <- Spaces(table),
  qualifier  <- table.aliases,
  current    <- table.module,
  blocks     <- Blocks(table),
  predefined <- BindingsOf(table.universe),
  answer     <- found,
  legal      <- running

\* Every behaviour of the symbol table is one of a block-structured
\* environment: lookup finds the innermost declaration, the first of a name
\* in its scope, and closed scopes never show through.
ImplementsEnvironment == Environment!Spec
=============================================================================
