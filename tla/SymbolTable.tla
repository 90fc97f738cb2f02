---------------------------- MODULE SymbolTable ----------------------------
(***************************************************************************)
(* The symbol table of the compiler (lib/data/symtab/SymbolTable.cpp and   *)
(* Scope.cpp).                                                             *)
(*                                                                         *)
(* A module's scopes form a chain: every Scope owns at most one child, and *)
(* closing a scope only moves scope_ back to the parent.  The closed child *)
(* stays in the chain until the next openScope() at the same level         *)
(* replaces it; the symbol exporter reads the module scope after it was    *)
(* closed.  A table is a record                                            *)
(*                                                                         *)
(*   scopes    scopes_, one chain per module; <<>> for an unknown module,  *)
(*             chain[1] is the root scope (level 0), chain[l + 1] level l  *)
(*   aliases   aliases_, the module a qualifier stands for                 *)
(*   module,   scope_, the current scope: the module and the level; the    *)
(*   level     module is NoModule while scope_ is the null pointer         *)
(*   universe  universe_, the scope of the predefined identifiers          *)
(*                                                                         *)
(* A scope is a record of symbols_, the declarations in insertion order,   *)
(* and indices_, which maps a name to the position of its FIRST entry (0:  *)
(* no entry): unordered_map::insert() leaves an existing key alone.        *)
(***************************************************************************)
EXTENDS Naturals, Sequences

CONSTANTS
  Modules,     \* names of modules; as identifiers they also serve as aliases
  Names,       \* names of declarations
  Decls,       \* declaration nodes
  NoModule,    \* the null scope pointer / an absent alias
  NoDecl,      \* the null declaration pointer
  System       \* the pseudo-module SYSTEM

ASSUME ModulesAssumption == /\ NoModule \notin Modules
                            /\ System \in Modules
ASSUME DeclsAssumption == NoDecl \notin Decls

Scopes == [symbols : Seq(Decls), indices : [Names -> Nat]]

Tables == [scopes   : [Modules -> Seq(Scopes)],
           aliases  : [Modules -> Modules \cup {NoModule}],
           module   : Modules \cup {NoModule},
           level    : Nat,
           universe : Scopes]

---------------------------------------------------------------------------
(* Scope *)

\* Scope::Scope
EmptyScope == [symbols |-> <<>>, indices |-> [n \in Names |-> 0]]

\* Mutant: the position is taken after the push_back, one too far.
ScopeInsertOffByOne(s, n, d) ==
  [symbols |-> Append(s.symbols, d),
   indices |-> IF s.indices[n] = 0
               THEN [s.indices EXCEPT ![n] = Len(s.symbols) + 2]
               ELSE s.indices]

\* Mutant: indices_[name] = idx, the last entry of a name wins.
ScopeInsertLastWins(s, n, d) ==
  [symbols |-> Append(s.symbols, d),
   indices |-> [s.indices EXCEPT ![n] = Len(s.symbols) + 1]]

\* Scope::insert
ScopeInsert(s, n, d) ==
  [symbols |-> Append(s.symbols, d),
   indices |-> IF s.indices[n] = 0
               THEN [s.indices EXCEPT ![n] = Len(s.symbols) + 1]
               ELSE s.indices]

\* Scope::lookup(name, true)
ScopeLookup(s, n) ==
  IF s.indices[n] = 0 THEN NoDecl ELSE s.symbols[s.indices[n]]

\* The levels of a chain, up to and including `top`, whose scope declares n.
DeclaringLevels(chain, top, n) == {l \in 0..top : ScopeLookup(chain[l + 1], n) # NoDecl}

Innermost(L) == CHOOSE l \in L : \A k \in L : k <= l

\* Scope::lookup(name, false): from a scope outwards through the parents.
ChainLookup(chain, top, n) ==
  LET L == DeclaringLevels(chain, top, n)
  IN  IF L = {} THEN NoDecl ELSE ScopeLookup(chain[Innermost(L) + 1], n)

---------------------------------------------------------------------------
(* SymbolTable *)

\* SymbolTable::getModule returns a scope (and not the null pointer).
HasModule(t, m) == t.scopes[m] # <<>>

\* The chain of the module that scope_ belongs to.
Current(t) == t.scopes[t.module]

\* The table with another chain of scopes for one module.
WithChain(t, m, chain) ==
  [scopes  |-> [t.scopes EXCEPT ![m] = chain],
   aliases |-> t.aliases, module |-> t.module, level |-> t.level, universe |-> t.universe]

\* SymbolTable::import, for a module that has a namespace.
Import(t, m, n, d) ==
  WithChain(t, m, [t.scopes[m] EXCEPT ![1] = ScopeInsert(t.scopes[m][1], n, d)])

\* SymbolTable::insert
Insert(t, n, d) ==
  LET i == t.level + 1
  IN  WithChain(t, t.module, [Current(t) EXCEPT ![i] = ScopeInsert(Current(t)[i], n, d)])

\* SymbolTable::insertGlobal
InsertGlobal(t, n, d) ==
  [scopes |-> t.scopes, aliases |-> t.aliases, module |-> t.module, level |-> t.level,
   universe |-> ScopeInsert(t.universe, n, d)]

\* SymbolTable::lookup("", name)
Lookup(t, n) ==
  LET local == IF t.module = NoModule THEN NoDecl
               ELSE ChainLookup(Current(t), t.level, n)
  IN  IF local # NoDecl THEN local ELSE ScopeLookup(t.universe, n)

\* SymbolTable::lookup(qualifier, name): the root scope of the module only.
LookupQualified(t, q, n) ==
  LET m == t.aliases[q]
  IN  IF m # NoModule /\ HasModule(t, m) THEN ScopeLookup(t.scopes[m][1], n)
      ELSE NoDecl

\* SymbolTable::addAlias: the module is no longer known by its own name.
AddAlias(t, a, m) ==
  [scopes |-> t.scopes, module |-> t.module, level |-> t.level, universe |-> t.universe,
   aliases |-> [[t.aliases EXCEPT ![m] = NoModule] EXCEPT ![a] = m]]

\* SymbolTable::isDuplicate
IsDuplicate(t, n) == ScopeLookup(Current(t)[t.level + 1], n) # NoDecl

\* SymbolTable::isGlobal
IsGlobal(t, n) == ScopeLookup(t.universe, n) # NoDecl

\* Mutant: the level of scope_ is not reset with the module.
AddModuleKeepingLevel(t, m, activate) ==
  [scopes   |-> [t.scopes EXCEPT ![m] = <<EmptyScope>>],
   aliases  |-> [t.aliases EXCEPT ![m] = m],
   module   |-> IF activate THEN m ELSE t.module,
   level    |-> t.level,
   universe |-> t.universe]

\* SymbolTable::addModule, for a module that has no namespace yet.
AddModule(t, m, activate) ==
  [scopes   |-> [t.scopes EXCEPT ![m] = <<EmptyScope>>],
   aliases  |-> [t.aliases EXCEPT ![m] = m],
   module   |-> IF activate THEN m ELSE t.module,
   level    |-> IF activate THEN 0 ELSE t.level,
   universe |-> t.universe]

\* scope_ moves to another level of the module it belongs to.
MoveTo(t, level) ==
  [scopes |-> t.scopes, aliases |-> t.aliases, module |-> t.module, level |-> level,
   universe |-> t.universe]

\* SymbolTable::openScope: the new child replaces (and destroys) the old one.
OpenScope(t) ==
  MoveTo(WithChain(t, t.module, Append(SubSeq(Current(t), 1, t.level + 1), EmptyScope)),
         t.level + 1)

\* Mutant: the closed child is destroyed at once.
CloseScopeDestroying(t) ==
  MoveTo(WithChain(t, t.module, SubSeq(Current(t), 1, t.level)), t.level - 1)

\* SymbolTable::closeScope, above the root scope.
CloseScope(t) == MoveTo(t, t.level - 1)

\* SymbolTable::getModule(name)->getChild(), the scope the exporter walks.
ModuleScope(t, m) == t.scopes[m][2]

\* SymbolTable::SymbolTable
EmptyTable ==
  [scopes   |-> [m \in Modules |-> <<>>],
   aliases  |-> [m \in Modules |-> NoModule],
   module   |-> NoModule,
   level    |-> 0,
   universe |-> EmptyScope]

\* Oberon07::initSymbolTable creates the namespace SYSTEM and leaves it: the
\* table starts out with scope_ at the root of SYSTEM.
InitialTable == CloseScope(OpenScope(AddModule(EmptyTable, System, TRUE)))
=============================================================================
