------------------------- MODULE DeclarationsProofs -------------------------
(***************************************************************************)
(* For every set of names, every number of declarations and every depth of *)
(* nesting: the scopes of the symbol table are the blocks being parsed,    *)
(* bodies see pointer types that are complete, references find             *)
(* declarations of open blocks only, and the symbol file holds exactly     *)
(* what the module exports.                                                *)
(***************************************************************************)
EXTENDS Declarations, SymbolTableLemmas, SequenceTheorems, TLAPS

---------------------------------------------------------------------------
(* The operations of the symbol table, in the module.                      *)

\* The symbol table is in the module, and the scope at level l of it holds
\* declarations of S[l] only.
InModule(t, S) ==
  /\ t.module = Self
  /\ t.level \in Nat
  /\ t.scopes = [m \in Modules |-> t.scopes[m]]
  /\ t.scopes[Self] \in Seq(AnyScope)
  /\ t.level < Len(t.scopes[Self])
  /\ ScopeOf(t.universe, {PredefinedDecl})
  /\ \A l \in 0..t.level : ScopeOf(t.scopes[Self][l + 1], S[l])

\* SymbolTable::insert: the current scope has one declaration more.
LEMMA InsertInModule ==
  ASSUME NEW t, NEW S, InModule(t, S), NEW n \in Names, NEW d \in Nat,
         NEW R, \A l \in 0..t.level : S[l] \subseteq R[l], d \in R[t.level]
  PROVE  /\ InModule(Insert(t, n, d), R)
         /\ Insert(t, n, d).level = t.level
         /\ Insert(t, n, d).scopes[Self][t.level + 1].symbols
              = Append(t.scopes[Self][t.level + 1].symbols, d)
         /\ \A l \in 0..t.level : l # t.level =>
              Insert(t, n, d).scopes[Self][l + 1] = t.scopes[Self][l + 1]
<1> DEFINE i == t.level + 1
           s == ScopeInsert(t.scopes[Self][i], n, d)
           u == Insert(t, n, d)
<1>1. /\ Self \in Modules /\ t.module = Self /\ t.level \in Nat
      /\ t.scopes[Self] \in Seq(AnyScope) /\ i \in 1..Len(t.scopes[Self])
      /\ t.scopes = [m \in Modules |-> t.scopes[m]]
  BY SelfAssumption DEF InModule
<1>2. /\ u.module = Self /\ u.level = t.level /\ u.universe = t.universe
      /\ u.scopes = [t.scopes EXCEPT ![Self] = [t.scopes[Self] EXCEPT ![i] = s]]
  BY <1>1 DEF Insert, WithChain, Current
<1>3. ScopeOf(t.scopes[Self][i], S[t.level])
  BY <1>1 DEF InModule
<1>4. ScopeOf(s, R[t.level]) /\ s.symbols = Append(t.scopes[Self][i].symbols, d)
  <2>1. S[t.level] \subseteq R[t.level]
    BY <1>1
  <2> DEFINE x == t.scopes[Self][i]
             D == S[t.level]
             E == R[t.level]
  <2>2. ScopeOf(x, D) /\ D \subseteq E /\ d \in E
    BY <1>3, <2>1
  <2> HIDE DEF x, D, E
  <2>3. ScopeOf(ScopeInsert(x, n, d), E)
    BY <2>2, InsertInScope
  <2>4. ScopeInsert(x, n, d).symbols = Append(x.symbols, d)
    BY DEF ScopeInsert
  <2> QED
    BY <2>3, <2>4 DEF x, E
<1>5. s \in AnyScope
  BY <1>4 DEF ScopeOf
<1> HIDE DEF s, u
<1>6. /\ u.scopes[Self] = [t.scopes[Self] EXCEPT ![i] = s]
      /\ u.scopes = [m \in Modules |-> u.scopes[m]]
  BY <1>1, <1>2
<1>7. /\ u.scopes[Self] \in Seq(AnyScope) /\ Len(u.scopes[Self]) = Len(t.scopes[Self])
      /\ u.scopes[Self][i] = s
      /\ \A j \in 1..Len(t.scopes[Self]) : j # i => u.scopes[Self][j] = t.scopes[Self][j]
  BY <1>1, <1>5, <1>6
<1>8. ASSUME NEW l \in 0..t.level
      PROVE  /\ ScopeOf(u.scopes[Self][l + 1], R[l])
             /\ l # t.level => u.scopes[Self][l + 1] = t.scopes[Self][l + 1]
  <2>1. CASE l = t.level
    BY <1>4, <1>7, <2>1
  <2>2. CASE l # t.level
    <3>1. l + 1 \in 1..Len(t.scopes[Self]) /\ l + 1 # i
      BY <1>1, <2>2
    <3>2. u.scopes[Self][l + 1] = t.scopes[Self][l + 1]
      BY <1>7, <3>1
    <3> QED
      BY <3>2 DEF InModule, ScopeOf
  <2> QED
    BY <2>1, <2>2
<1>9. ScopeOf(u.universe, {PredefinedDecl})
  BY <1>2 DEF InModule
<1> QED
  BY <1>1, <1>2, <1>4, <1>6, <1>7, <1>8, <1>9 DEF InModule, u

\* SymbolTable::openScope: the new scope is empty.
LEMMA OpenInModule ==
  ASSUME NEW t, NEW S, InModule(t, S), NEW R, \A l \in 0..t.level : S[l] = R[l]
  PROVE  /\ InModule(OpenScope(t), R)
         /\ OpenScope(t).level = t.level + 1
         /\ \A l \in 0..t.level : OpenScope(t).scopes[Self][l + 1] = t.scopes[Self][l + 1]
         /\ OpenScope(t).scopes[Self][t.level + 2] = EmptyScope
<1> DEFINE u == OpenScope(t)
           kept == SubSeq(t.scopes[Self], 1, t.level + 1)
           chain == Append(kept, EmptyScope)
<1>1. /\ Self \in Modules /\ t.module = Self /\ t.level \in Nat
      /\ t.scopes[Self] \in Seq(AnyScope) /\ t.level + 1 \in 1..Len(t.scopes[Self])
      /\ t.scopes = [m \in Modules |-> t.scopes[m]]
  BY SelfAssumption DEF InModule
<1>2. /\ u.module = Self /\ u.level = t.level + 1 /\ u.universe = t.universe
      /\ u.scopes = [t.scopes EXCEPT ![Self] = chain]
  BY <1>1 DEF OpenScope, MoveTo, WithChain, Current
<1>3. /\ kept \in Seq(AnyScope) /\ Len(kept) = t.level + 1
      /\ \A i \in 1..t.level + 1 : kept[i] = t.scopes[Self][i]
  BY <1>1
<1>4. EmptyScope \in AnyScope
  BY EmptyScopeOf DEF ScopeOf
<1>5. /\ chain \in Seq(AnyScope) /\ Len(chain) = t.level + 2
      /\ \A i \in 1..t.level + 1 : chain[i] = t.scopes[Self][i]
      /\ chain[t.level + 2] = EmptyScope
  BY <1>1, <1>3, <1>4
<1> HIDE DEF u, chain
<1>6. u.scopes[Self] = chain /\ u.scopes = [m \in Modules |-> u.scopes[m]]
  BY <1>1, <1>2
<1>7. ASSUME NEW l \in 0..u.level
      PROVE  ScopeOf(u.scopes[Self][l + 1], R[l])
  <2>1. CASE l = t.level + 1
    BY <1>1, <1>5, <1>6, <2>1, EmptyScopeOf
  <2>2. CASE l # t.level + 1
    <3>1. l \in 0..(t.level + 1) /\ t.level \in Nat
      BY <1>1, <1>2
    <3>2. l \in 0..t.level /\ l + 1 \in 1..(t.level + 1)
      BY <2>2, <3>1
    <3> QED
      BY <1>5, <1>6, <3>2 DEF InModule
  <2> QED
    BY <2>1, <2>2
<1>8. ScopeOf(u.universe, {PredefinedDecl})
  BY <1>2 DEF InModule
<1>9. u.level \in Nat /\ u.level < Len(u.scopes[Self]) /\ u.scopes[Self] \in Seq(AnyScope)
  <2>1. u.level = t.level + 1 /\ Len(u.scopes[Self]) = t.level + 2 /\ t.level \in Nat
    BY <1>1, <1>2, <1>5, <1>6
  <2> QED
    BY <1>5, <1>6, <2>1
<1>11. InModule(u, R)
  BY <1>2, <1>6, <1>7, <1>8, <1>9 DEF InModule
<1>10. \A l \in 0..t.level : u.scopes[Self][l + 1] = t.scopes[Self][l + 1]
  BY <1>1, <1>5, <1>6
<1> QED
  BY <1>2, <1>5, <1>6, <1>10, <1>11 DEF u

\* SymbolTable::closeScope: the scopes stay.
LEMMA CloseInModule ==
  ASSUME NEW t, NEW S, InModule(t, S), t.level > 0, NEW R,
         \A l \in 0..(t.level - 1) : S[l] \subseteq R[l]
  PROVE  /\ InModule(CloseScope(t), R)
         /\ CloseScope(t).level = t.level - 1
         /\ CloseScope(t).scopes = t.scopes
<1>1. /\ CloseScope(t).module = Self /\ CloseScope(t).level = t.level - 1
      /\ CloseScope(t).scopes = t.scopes /\ CloseScope(t).universe = t.universe
  BY DEF CloseScope, MoveTo, InModule
<1>0. /\ t.level \in Nat /\ t.module = Self /\ t.scopes = [m \in Modules |-> t.scopes[m]]
      /\ t.scopes[Self] \in Seq(AnyScope) /\ t.level < Len(t.scopes[Self])
      /\ ScopeOf(t.universe, {PredefinedDecl})
  BY DEF InModule
<1>3. t.level - 1 \in Nat /\ t.level - 1 < Len(t.scopes[Self])
  BY <1>0
<1>2. ASSUME NEW l \in 0..(t.level - 1) PROVE ScopeOf(t.scopes[Self][l + 1], R[l])
  <2>1. l \in 0..t.level
    BY <1>0
  <2>2. ScopeOf(t.scopes[Self][l + 1], S[l]) /\ S[l] \subseteq R[l]
    BY <2>1 DEF InModule
  <2> QED
    BY <2>2 DEF ScopeOf
<1> QED
  BY <1>0, <1>1, <1>2, <1>3 DEF InModule

\* SymbolTable::lookup finds what is in one of the open scopes, or predefined.
LEMMA LookupInModule ==
  ASSUME NEW t, NEW S, InModule(t, S), NEW n \in Names, Lookup(t, n) # NoDecl
  PROVE  Lookup(t, n) = PredefinedDecl \/ \E l \in 0..t.level : Lookup(t, n) \in S[l]
<1> DEFINE L == DeclaringLevels(t.scopes[Self], t.level, n)
<1>1. t.module = Self /\ Self # NoModule /\ Current(t) = t.scopes[Self] /\ t.level \in Nat
  BY ModulesAssumption, SelfAssumption DEF InModule, Current
<1>2. ScopeLookup(t.universe, n) \in {PredefinedDecl, NoDecl}
  BY LookupInScope DEF InModule
<1>3. CASE L = {}
  BY <1>1, <1>2, <1>3 DEF Lookup, ChainLookup
<1>4. CASE L # {}
  <2>1. L \in SUBSET (0..t.level)
    BY DEF DeclaringLevels
  <2>2. Innermost(L) \in L /\ Innermost(L) \in 0..t.level
    BY <1>1, <1>4, <2>1, InnermostExists
  <2> DEFINE l == Innermost(L)
             x == ScopeLookup(t.scopes[Self][l + 1], n)
  <2> HIDE DEF l
  <2>3. l \in 0..t.level
    BY <2>2 DEF l
  <2>4. ScopeOf(t.scopes[Self][l + 1], S[l])
    BY <2>3 DEF InModule
  <2>5. x \in S[l] \cup {NoDecl}
    BY <2>4, LookupInScope
  <2>6. Lookup(t, n) = IF x # NoDecl THEN x ELSE ScopeLookup(t.universe, n)
    BY <1>1, <1>4 DEF Lookup, ChainLookup, l
  <2> QED
    BY <1>2, <2>3, <2>5, <2>6
<1> QED
  BY <1>3, <1>4

---------------------------------------------------------------------------
(* The inductive invariant.                                                *)

DeclKinds == {"type", "const", "var", "external", "proc", "param"}
TypeKinds == {"notype", "basic", "record", "pointer", "procedure"}

DeclNode == [kind : DeclKinds, name : Names, type : Nat, scope : Nat, exported : BOOLEAN, home : Int]
TypeNode == [kind : TypeKinds, base : Nat, public : BOOLEAN, decl : Nat]

\* The nodes of the AST; a parameter is never exported.
NodesOK ==
  /\ decls \in Seq(DeclNode) /\ types \in Seq(TypeNode)
  /\ PredefinedDecl \in DOMAIN decls /\ decls[PredefinedDecl].home = -1
  /\ NoTy \in DOMAIN types /\ BasicTy \in DOMAIN types /\ types[NoTy].kind = "notype"
  /\ \A d \in DOMAIN decls :
       decls[d].type \in DOMAIN types /\ (decls[d].kind = "param" => ~decls[d].exported)

\* The module is the outermost block; a block around another one is at its procedures.
BlocksOK ==
  /\ blocks \in Seq([proc : Nat, phase : Nat])
  /\ blocks # <<>> => blocks[1].proc = 0
  /\ \A l \in 1..(Len(blocks) - 1) : blocks[l].phase = Procs

\* The declarations of each open block.
Declared ==
  [l \in 0..Len(blocks) |->
     IF l = 0 THEN {} ELSE {d \in DOMAIN decls : decls[d].home = blocks[l].proc /\ decls[d].scope = l}]

\* Every open block has a scope of the table, which holds its declarations only.
ScopesAreBlocks ==
  IF HasModule(table, Self)
  THEN InModule(table, Declared) /\ table.level = Len(blocks)
  ELSE /\ blocks = <<>> /\ used = NoDecl /\ \A d \in DOMAIN decls : ~decls[d].exported
       /\ table.scopes = [m \in Modules |-> table.scopes[m]] /\ ScopeOf(table.universe, {PredefinedDecl})

\* What is exported is in the scope of the module.
ExportsAreInScope ==
  blocks # <<>> /\ ~errors =>
    \A d \in DOMAIN decls : decls[d].exported => d \in Range(table.scopes[Self][2].symbols)

\* A pointer type is complete, or waits for its base; none waits during a body.
PointersAreComplete ==
  /\ forwards \in Seq([ref : Names, pointer : Nat])
  /\ InBody => forwards = <<>>
  /\ ~errors => \A i \in DOMAIN types : types[i].kind = "pointer" =>
       \/ \E f \in Range(forwards) : f.pointer = i
       \/ types[i].base \in DOMAIN types /\ types[types[i].base].kind = "record"

\* The last reference found a declaration.
UsedIsVisible == used # NoDecl => used \in DOMAIN decls /\ decls[used].home \in Open

\* Nothing follows the symbol file.
WrittenLast == written => blocks = <<>> /\ HasModule(table, Self)

IInv ==
  /\ errors \in BOOLEAN
  /\ NodesOK /\ BlocksOK /\ ScopesAreBlocks /\ ExportsAreInScope
  /\ PointersAreComplete /\ UsedIsVisible /\ WrittenLast /\ ExportsAreComplete

\* What a block that is being parsed offers.
LEMMA BlockFacts ==
  ASSUME IInv, blocks # <<>>
  PROVE  /\ InModule(table, Declared) /\ HasModule(table, Self)
         /\ table.level = Len(blocks) /\ Len(blocks) \in Nat \ {0} /\ Len(blocks) \in DOMAIN blocks
         /\ Home = blocks[Len(blocks)].proc /\ Home \in Nat /\ Phase = blocks[Len(blocks)].phase /\ Phase \in Nat
         /\ ~written
<1>1. HasModule(table, Self) /\ InModule(table, Declared) /\ table.level = Len(blocks)
  BY DEF IInv, ScopesAreBlocks
<1>2. ~written
  BY DEF IInv, WrittenLast
<1>3. Len(blocks) \in Nat \ {0} /\ Len(blocks) \in DOMAIN blocks /\ blocks[Len(blocks)] \in [proc : Nat, phase : Nat]
  <2> DEFINE Block == [proc : Nat, phase : Nat]
  <2>1. blocks \in Seq(Block)
    BY DEF IInv, BlocksOK
  <2> HIDE DEF Block
  <2>2. Len(blocks) \in Nat /\ DOMAIN blocks = 1..Len(blocks) /\ Len(blocks) # 0
    BY <2>1
  <2>3. blocks[Len(blocks)] \in Block
    BY <2>1, <2>2
  <2> QED
    BY <2>2, <2>3 DEF Block
<1> QED
  BY <1>1, <1>2, <1>3 DEF Home, Phase, Top, Last

\* A table that is in the module knows it.
LEMMA InModuleHasModule ==
  ASSUME NEW t, NEW S, InModule(t, S)
  PROVE  HasModule(t, Self)
<1>1. t.scopes[Self] \in Seq(AnyScope) /\ t.level \in Nat /\ t.level < Len(t.scopes[Self])
  BY DEF InModule
<1> QED
  BY <1>1 DEF HasModule

---------------------------------------------------------------------------
(* One more declaration: what every declaration of a block has in common.  *)

\* The new sequence has the nodes of the old one, where they were.
Extends(new, old) == \A i \in DOMAIN old : i \in DOMAIN new /\ new[i] = old[i]

\* The open blocks are still open: the procedures are the same.
BlocksStay ==
  /\ Len(blocks') \in Nat /\ Len(blocks) <= Len(blocks')
  /\ \A l \in DOMAIN blocks : blocks'[l].proc = blocks[l].proc

\* Scopes grow with a new declaration: what was declared stays so.
LEMMA DeclaredGrows ==
  ASSUME IInv, blocks # <<>>, Extends(decls', decls), BlocksStay,
         NEW k \in DOMAIN decls', decls'[k].home = Home, decls'[k].scope = table.level
  PROVE  /\ \A l \in 0..table.level : Declared[l] \subseteq Declared'[l]
         /\ k \in Declared'[table.level]
<1>1. table.level = Len(blocks) /\ Len(blocks) \in Nat \ {0} /\ Home = blocks[Len(blocks)].proc
  BY BlockFacts
<1>2. DOMAIN blocks = 1..Len(blocks)
  BY DEF IInv, BlocksOK
<1>3. ASSUME NEW l \in 0..Len(blocks) PROVE Declared[l] \subseteq Declared'[l]
  BY <1>1, <1>2 DEF Declared, Extends, BlocksStay
<1>4. k \in Declared'[Len(blocks)]
  BY <1>1, <1>2 DEF Declared, BlocksStay
<1> QED
  BY <1>1, <1>3, <1>4

\* Sema::assertUnique and checkExport: node k, the only new one that may be
\* exported, is inserted in the current scope of a table that has the scopes
\* of this one.
LEMMA InsertStep ==
  ASSUME IInv, blocks # <<>>, Extends(decls', decls), BlocksStay,
         NEW t, InModule(t, Declared), t.level = table.level,
         \A l \in 0..table.level : t.scopes[Self][l + 1] = table.scopes[Self][l + 1],
         NEW k \in DOMAIN decls', k \in Nat, NEW n \in Names,
         decls'[k].home = Home, decls'[k].scope = table.level,
         decls'[k].exported => errors' \/ table.level = 1,
         \A e \in DOMAIN decls' : e \in DOMAIN decls \/ e = k \/ ~decls'[e].exported,
         errors => errors'
  PROVE  /\ InModule(Insert(t, n, k), Declared')
         /\ Insert(t, n, k).level = Len(blocks)
         /\ ~errors' => \A d \in DOMAIN decls' : decls'[d].exported =>
              d \in Range(Insert(t, n, k).scopes[Self][2].symbols)
<1> DEFINE u == Insert(t, n, k)
<1>0. table.level = Len(blocks) /\ table.level \in Nat \ {0} /\ InModule(table, Declared)
  BY BlockFacts, SMTT(30)
<1>1. /\ InModule(u, Declared') /\ u.level = table.level
      /\ u.scopes[Self][table.level + 1].symbols
           = Append(table.scopes[Self][table.level + 1].symbols, k)
      /\ \A l \in 0..table.level : l # table.level => u.scopes[Self][l + 1] = table.scopes[Self][l + 1]
  <2>1. /\ \A l \in 0..t.level : Declared[l] \subseteq Declared'[l]
        /\ k \in Declared'[t.level]
    BY DeclaredGrows
  <2> HIDE DEF u
  <2>2. /\ InModule(u, Declared') /\ u.level = t.level
        /\ u.scopes[Self][t.level + 1].symbols = Append(t.scopes[Self][t.level + 1].symbols, k)
        /\ \A l \in 0..t.level : l # t.level => u.scopes[Self][l + 1] = t.scopes[Self][l + 1]
    BY <2>1, InsertInModule, ZenonT(40) DEF u
  <2>3. table.level \in 0..table.level
    BY <1>0
  <2> QED
    BY <2>2, <2>3, ZenonT(30)
<1>2. ASSUME ~errors', NEW d \in DOMAIN decls', decls'[d].exported
      PROVE  d \in Range(u.scopes[Self][2].symbols)
  <2> DEFINE old == table.scopes[Self][2].symbols
             new == u.scopes[Self][2].symbols
             ext == Append(old, k)
  <2>1. old \in Seq(Nat)
    <3>1. ScopeOf(table.scopes[Self][1 + 1], Declared[1])
      BY <1>0 DEF InModule
    <3> QED
      BY <3>1 DEF ScopeOf, AnyScope
  <2>2. table.level = 1 => new = ext
    <3>1. table.level = 1 => table.level + 1 = 2
      OBVIOUS
    <3> QED
      BY <1>1, <3>1
  <2>3. table.level # 1 => new = old
    <3>1. 1 \in 0..table.level /\ 1 + 1 = 2
      BY <1>0
    <3> QED
      BY <1>1, <3>1
  <2> HIDE DEF old, new, u
  <2>4. /\ DOMAIN ext = 1..(Len(old) + 1) /\ DOMAIN old = 1..Len(old) /\ Len(old) \in Nat
        /\ ext[Len(old) + 1] = k /\ \A i \in 1..Len(old) : ext[i] = old[i]
    BY <2>1
  <2> HIDE DEF ext
  <2>5. Range(old) \subseteq Range(ext) /\ k \in Range(ext)
    BY <2>4 DEF Range
  <2>6. Range(old) \subseteq Range(new)
    BY <2>2, <2>3, <2>5
  <2>7. CASE d \in DOMAIN decls
    <3>1. decls[d].exported /\ ~errors
      BY <1>2, <2>7 DEF Extends
    <3>2. d \in Range(old)
      BY <2>7, <3>1 DEF IInv, ExportsAreInScope, old
    <3> QED
      BY <2>6, <3>2 DEF new
  <2>8. CASE d = k
    BY <1>2, <2>2, <2>5, <2>8 DEF new
  <2> QED
    BY <1>2, <2>7, <2>8
<1> QED
  BY <1>0, <1>1, <1>2 DEF u

\* Parser::declarations moves on to another part of the block.
LEMMA AdvanceStep ==
  ASSUME IInv, blocks # <<>>, NEW phase \in Nat, Advance(phase)
  PROVE  BlocksOK' /\ BlocksStay /\ Len(blocks') = Len(blocks) /\ Phase' = phase /\ blocks' # <<>>
<1> DEFINE Block == [proc : Nat, phase : Nat]
<1>1. blocks \in Seq(Block) /\ (blocks # <<>> => blocks[1].proc = 0)
  BY DEF IInv, BlocksOK
<1>2. \A l \in 1..(Len(blocks) - 1) : blocks[l].phase = Procs
  BY DEF IInv, BlocksOK
<1>3. Len(blocks) \in Nat \ {0} /\ Len(blocks) \in DOMAIN blocks
  BY BlockFacts
<1> DEFINE top == [blocks[Len(blocks)] EXCEPT !.phase = phase]
<1>4. blocks' = [blocks EXCEPT ![Len(blocks)] = top]
  BY DEF Advance
<1> HIDE DEF Block
<1>5. blocks[Len(blocks)] \in Block
  BY <1>1, <1>3
<1>6. top \in Block /\ top.proc = blocks[Len(blocks)].proc /\ top.phase = phase
  BY <1>5 DEF Block
<1> HIDE DEF top
<1>7. /\ blocks' \in Seq(Block) /\ Len(blocks') = Len(blocks) /\ DOMAIN blocks = 1..Len(blocks)
      /\ blocks'[Len(blocks)] = top
      /\ \A l \in 1..Len(blocks) : l # Len(blocks) => blocks'[l] = blocks[l]
  BY <1>1, <1>3, <1>4, <1>6
<1>8. BlocksStay
  BY <1>3, <1>6, <1>7 DEF BlocksStay
<1>9. \A l \in 1..(Len(blocks') - 1) : blocks'[l].phase = Procs
  BY <1>2, <1>3, <1>7
<1>10. blocks' # <<>>
  BY <1>3, <1>7
<1>11. blocks'[1].proc = 0
  <2>1. 1 \in DOMAIN blocks
    BY <1>3, <1>7
  <2> QED
    BY <1>1, <1>8, <2>1 DEF BlocksStay
<1> QED
  BY <1>6, <1>7, <1>8, <1>9, <1>10, <1>11 DEF BlocksOK, Block, Phase, Top, Last

---------------------------------------------------------------------------
(* Names that are referenced.                                              *)

\* A lookup finds a declaration of an open block, also from the scope of the
\* parameters of a procedure type.
LEMMA LookupIsOpen ==
  ASSUME IInv, blocks # <<>>, NEW t \in {table, OpenScope(table)}, NEW n \in Names,
         Lookup(t, n) # NoDecl
  PROVE  Lookup(t, n) \in DOMAIN decls /\ decls[Lookup(t, n)].home \in Open
<1> DEFINE S == [l \in 0..(table.level + 1) |-> IF l <= table.level THEN Declared[l] ELSE {}]
           d == Lookup(t, n)
<1>1. /\ InModule(table, Declared) /\ table.level = Len(blocks) /\ table.level \in Nat
      /\ DOMAIN blocks = 1..Len(blocks)
  BY BlockFacts DEF IInv, BlocksOK
<1>2. \A l \in 0..(table.level + 1) : \A e \in S[l] :
        e \in DOMAIN decls /\ decls[e].home \in Open
  BY <1>1 DEF Declared, Open
<1>3. \A l \in 0..table.level : Declared[l] = S[l]
  BY <1>1
<1>4. PredefinedDecl \in DOMAIN decls /\ decls[PredefinedDecl].home \in Open
  BY DEF IInv, NodesOK, Open
<1> HIDE DEF S
<1>5. CASE t = table
  <2>1. d = PredefinedDecl \/ \E l \in 0..table.level : d \in Declared[l]
    BY <1>1, <1>5, LookupInModule
  <2> QED
    BY <1>1, <1>2, <1>3, <1>4, <2>1
<1>6. CASE t = OpenScope(table)
  <2>1. InModule(t, S) /\ t.level = table.level + 1
    BY <1>1, <1>3, <1>6, OpenInModule
  <2>2. d = PredefinedDecl \/ \E l \in 0..t.level : d \in S[l]
    BY <2>1, LookupInModule
  <2> QED
    BY <1>2, <1>4, <2>1, <2>2
<1> QED
  BY <1>5, <1>6

\* Sema::onTypeReference returns a type node in any case.
LEMMA TypeReferenceOK ==
  ASSUME IInv, blocks # <<>>, NEW t \in {table, OpenScope(table)}, NEW n \in Names
  PROVE  TypeReference(t, n) \in DOMAIN types
BY LookupIsOpen DEF TypeReference, IInv, NodesOK

\* What a reference found stays visible when it is parsed.
LEMMA UsedStep ==
  ASSUME IInv, blocks # <<>>, Extends(decls', decls), BlocksStay,
         used' = NoDecl \/ \E t \in {table, OpenScope(table)} : \E n \in Names : used' = Lookup(t, n)
  PROVE  UsedIsVisible'
<1> SUFFICES ASSUME used' # NoDecl
             PROVE  used' \in DOMAIN decls' /\ decls'[used'].home \in Open'
  BY DEF UsedIsVisible
<1>1. used' \in DOMAIN decls /\ decls[used'].home \in Open
  BY LookupIsOpen
<1>2. Open \subseteq Open'
  <2>1. blocks \in Seq([proc : Nat, phase : Nat])
    BY DEF IInv, BlocksOK
  <2>2. \A l \in DOMAIN blocks : l \in DOMAIN blocks' /\ blocks'[l].proc = blocks[l].proc
    BY <2>1 DEF BlocksStay
  <2> QED
    BY <2>2 DEF Open
<1> QED
  BY <1>1, <1>2 DEF Extends

---------------------------------------------------------------------------
(* Type nodes.                                                             *)

\* The type nodes stay what they are, but for their declaration.
TypesStay(new) ==
  /\ new \in Seq(TypeNode)
  /\ \A i \in DOMAIN types :
       i \in DOMAIN new /\ new[i].kind = types[i].kind /\ new[i].base = types[i].base

\* A type node is complete, or waits for its base in `pending`.
Complete(new, pending, i) ==
  new[i].kind = "pointer" =>
    \/ \E f \in Range(pending) : f.pointer = i
    \/ new[i].base \in DOMAIN new /\ new[new[i].base].kind = "record"

\* TypeDeclarationNode: a name changes nothing else.
LEMMA NameTypeOK ==
  ASSUME NEW ts \in Seq(TypeNode), NEW i \in DOMAIN ts, NEW d \in Nat
  PROVE  /\ NameType(ts, i, d) \in Seq(TypeNode) /\ DOMAIN NameType(ts, i, d) = DOMAIN ts
         /\ \A k \in DOMAIN ts : /\ NameType(ts, i, d)[k].kind = ts[k].kind
                                 /\ NameType(ts, i, d)[k].base = ts[k].base
<1> DEFINE named == [ts[i] EXCEPT !.decl = d]
<1>1. ts[i] \in TypeNode /\ DOMAIN ts = 1..Len(ts)
  OBVIOUS
<1>2. named \in TypeNode /\ named.kind = ts[i].kind /\ named.base = ts[i].base
  BY <1>1 DEF TypeNode
<1>3. NameType(ts, i, d) = ts \/ NameType(ts, i, d) = [ts EXCEPT ![i] = named]
  BY DEF NameType
<1> HIDE DEF named
<1>4. [ts EXCEPT ![i] = named] \in Seq(TypeNode)
  BY <1>2
<1>5. \A k \in DOMAIN ts : [ts EXCEPT ![i] = named][k] = IF k = i THEN named ELSE ts[k]
  OBVIOUS
<1> QED
  BY <1>2, <1>3, <1>4, <1>5

\* Pointer types are complete when the new ones are.
LEMMA TypesStep ==
  ASSUME IInv, TypesStay(types'), errors => errors',
         forwards' \in Seq([ref : Names, pointer : Nat]), Range(forwards) \subseteq Range(forwards'),
         \A i \in DOMAIN types' : i \in DOMAIN types \/ Complete(types', forwards', i),
         InBody' => forwards' = <<>>
  PROVE  PointersAreComplete'
<1> SUFFICES ASSUME ~errors', NEW i \in DOMAIN types, types'[i].kind = "pointer"
             PROVE  Complete(types', forwards', i)
  BY DEF PointersAreComplete, Complete
<1>1. types[i].kind = "pointer" /\ types'[i].base = types[i].base
  BY DEF TypesStay
<1>2. \/ \E f \in Range(forwards) : f.pointer = i
      \/ types[i].base \in DOMAIN types /\ types[types[i].base].kind = "record"
  BY <1>1 DEF IInv, PointersAreComplete
<1> QED
  BY <1>1, <1>2 DEF Complete, TypesStay

\* New nodes that are well formed leave the AST well formed.
LEMMA NodesStep ==
  ASSUME IInv, TypesStay(types'), decls' \in Seq(DeclNode), Extends(decls', decls),
         \A d \in DOMAIN decls' :
           d \in DOMAIN decls \/ (decls'[d].type \in DOMAIN types' /\ (decls'[d].kind = "param" => ~decls'[d].exported))
  PROVE  NodesOK'
BY DEF IInv, NodesOK, TypesStay, Extends

\* A node at the end of the declarations.
LEMMA AppendStep ==
  ASSUME IInv, NEW node \in DeclNode, decls' = Append(decls, node)
  PROVE  /\ decls' \in Seq(DeclNode) /\ Extends(decls', decls) /\ Len(decls) + 1 \in Nat
         /\ DOMAIN decls' = DOMAIN decls \cup {Len(decls) + 1} /\ decls'[Len(decls) + 1] = node
<1> DEFINE T == DeclNode
<1>1. decls \in Seq(T) /\ node \in T
  BY DEF IInv, NodesOK
<1> HIDE DEF T
<1>2. /\ decls' \in Seq(T) /\ Len(decls) \in Nat /\ DOMAIN decls = 1..Len(decls)
      /\ DOMAIN decls' = 1..(Len(decls) + 1) /\ decls'[Len(decls) + 1] = node
      /\ \A d \in 1..Len(decls) : decls'[d] = decls[d]
  BY <1>1
<1> QED
  BY <1>2 DEF T, Extends

---------------------------------------------------------------------------
(* The actions of a block.                                                 *)

\* A declaration node in the current scope: what the actions below share.
LEMMA NewDeclaration ==
  ASSUME IInv, blocks # <<>>, BlocksStay, BlocksOK', Len(blocks') = Len(blocks), blocks' # <<>>,
         NEW node \in DeclNode, NEW n \in Names,
         node.home = Home, node.scope = table.level, node.kind = "param" => ~node.exported,
         node.exported => errors' \/ table.level = 1,
         decls' = Append(decls, node), table' = Insert(table, n, Len(decls) + 1),
         errors => errors', errors' \in BOOLEAN, written' = written,
         TypesStay(types'), node.type \in DOMAIN types', PointersAreComplete',
         used' = NoDecl \/ \E t \in {table, OpenScope(table)} : \E r \in Names : used' = Lookup(t, r)
  PROVE  IInv'
<1> DEFINE k == Len(decls) + 1
<1>1. /\ decls' \in Seq(DeclNode) /\ Extends(decls', decls) /\ k \in Nat
      /\ DOMAIN decls' = DOMAIN decls \cup {k} /\ decls'[k] = node
  BY AppendStep
<1>2. InModule(table, Declared) /\ ~written
  BY BlockFacts
<1>3. /\ InModule(table', Declared') /\ table'.level = Len(blocks)
      /\ ~errors' => \A d \in DOMAIN decls' : decls'[d].exported => d \in Range(table'.scopes[Self][2].symbols)
  <2> HIDE DEF k
  <2>1. k \in DOMAIN decls' /\ table' = Insert(table, n, k)
    BY <1>1 DEF k
  <2> QED
    BY <1>1, <1>2, <2>1, InsertStep
<1>4. ScopesAreBlocks'
  BY <1>3, InModuleHasModule DEF ScopesAreBlocks
<1>5. ExportsAreInScope'
  BY <1>3 DEF ExportsAreInScope
<1>6. NodesOK'
  BY <1>1, NodesStep
<1>7. UsedIsVisible'
  BY <1>1, UsedStep
<1>8. WrittenLast' /\ ExportsAreComplete'
  BY <1>2 DEF WrittenLast, ExportsAreComplete
<1> QED
  BY <1>4, <1>5, <1>6, <1>7, <1>8 DEF IInv

Parts == {Consts, Types, Vars, Procs}

\* Declare, in one of the parts of a block, with what it adds to types and
\* pending bases.
LEMMA DeclareStep ==
  ASSUME IInv, blocks # <<>>, NEW phase \in Parts, Advance(phase),
         NEW kind \in DeclKinds \ {"param"}, NEW n \in Names, NEW newTypes, NEW type \in DOMAIN newTypes,
         NEW exported \in BOOLEAN, NEW ok \in BOOLEAN, Declare(kind, n, type, exported, newTypes, ok),
         TypesStay(newTypes), \A i \in DOMAIN newTypes : i \in DOMAIN types \/ Complete(newTypes, forwards', i),
         forwards' \in Seq([ref : Names, pointer : Nat]), Range(forwards) \subseteq Range(forwards'),
         used' = NoDecl \/ \E t \in {table, OpenScope(table)} : \E r \in Names : used' = Lookup(t, r)
  PROVE  IInv'
<1> DEFINE d == Len(decls) + 1
           node == [kind |-> kind, name |-> n, type |-> type,
                    scope |-> table.level, exported |-> exported, home |-> Home]
<1>1. BlocksOK' /\ BlocksStay /\ Len(blocks') = Len(blocks) /\ Phase' = phase /\ blocks' # <<>>
  <2>1. phase \in Nat
    BY DEF Parts, Consts, Types, Vars, Procs
  <2> QED
    BY <2>1, AdvanceStep
<1>2. /\ table.level \in Nat /\ Home \in Nat /\ Len(decls) \in Nat /\ newTypes \in Seq(TypeNode)
      /\ type \in Nat
  <2>1. newTypes \in Seq(TypeNode) /\ decls \in Seq(DeclNode)
    BY DEF TypesStay, IInv, NodesOK
  <2> QED
    BY <2>1, BlockFacts
<1>3. node \in DeclNode
  BY <1>2 DEF DeclNode
<1>4. /\ types' \in Seq(TypeNode) /\ DOMAIN types' = DOMAIN newTypes
      /\ \A i \in DOMAIN newTypes : types'[i].kind = newTypes[i].kind /\ types'[i].base = newTypes[i].base
  <2>1. types' = newTypes \/ types' = NameType(newTypes, type, d)
    BY DEF Declare
  <2> HIDE DEF d
  <2>2. d \in Nat
    BY <1>2 DEF d
  <2> DEFINE named == NameType(newTypes, type, d)
  <2>3. /\ named \in Seq(TypeNode) /\ DOMAIN named = DOMAIN newTypes
        /\ \A i \in DOMAIN newTypes : named[i].kind = newTypes[i].kind /\ named[i].base = newTypes[i].base
    BY <1>2, <2>2, NameTypeOK
  <2> HIDE DEF named
  <2> QED
    BY <1>2, <2>1, <2>3 DEF named
<1>5. TypesStay(types')
  BY <1>4 DEF TypesStay
<1>6. \A i \in DOMAIN types' : i \in DOMAIN types \/ Complete(types', forwards', i)
  BY <1>4 DEF Complete
<1>7. errors' \in BOOLEAN /\ (errors => errors') /\ (exported => errors' \/ table.level = 1)
  BY DEF Declare, CheckExport
<1>8. PointersAreComplete'
  <2>1. ~InBody'
    BY <1>1 DEF InBody, Parts, Consts, Types, Vars, Procs, Body
  <2> QED
    BY <1>5, <1>6, <1>7, <2>1, TypesStep
<1>9. decls' = Append(decls, node) /\ table' = Insert(table, n, d) /\ written' = written
  BY DEF Declare
<1>10. /\ node.home = Home /\ node.scope = table.level /\ node.kind # "param"
       /\ node.exported = exported /\ node.type = type
  OBVIOUS
<1> HIDE DEF node
<1> QED
  BY <1>1, <1>3, <1>4, <1>5, <1>7, <1>8, <1>9, <1>10, NewDeclaration

\* New type nodes at the end of the list leave the others alone.
LEMMA AppendTypes ==
  ASSUME IInv, NEW node \in TypeNode
  PROVE  /\ TypesStay(Append(types, node)) /\ Len(types) \in Nat
         /\ DOMAIN Append(types, node) = DOMAIN types \cup {Len(types) + 1}
         /\ Append(types, node)[Len(types) + 1] = node
         /\ TypesStay(types)
<1> DEFINE T == TypeNode
<1>1. types \in Seq(T) /\ node \in T
  BY DEF IInv, NodesOK
<1> HIDE DEF T
<1>2. /\ Append(types, node) \in Seq(T) /\ Len(types) \in Nat /\ DOMAIN types = 1..Len(types)
      /\ DOMAIN Append(types, node) = 1..(Len(types) + 1) /\ Append(types, node)[Len(types) + 1] = node
      /\ \A i \in 1..Len(types) : Append(types, node)[i] = types[i]
  BY <1>1
<1> QED
  BY <1>1, <1>2 DEF T, TypesStay

\* The forward references when nothing is added, and when a pointer is.
LEMMA ForwardsGrow ==
  ASSUME IInv, NEW f \in [ref : Names, pointer : Nat]
  PROVE  /\ forwards \in Seq([ref : Names, pointer : Nat])
         /\ Append(forwards, f) \in Seq([ref : Names, pointer : Nat])
         /\ Range(forwards) \subseteq Range(Append(forwards, f)) /\ f \in Range(Append(forwards, f))
<1> DEFINE T == [ref : Names, pointer : Nat]
<1>1. forwards \in Seq(T) /\ f \in T
  BY DEF IInv, PointersAreComplete
<1> HIDE DEF T
<1>2. /\ Append(forwards, f) \in Seq(T) /\ Len(forwards) \in Nat /\ DOMAIN forwards = 1..Len(forwards)
      /\ DOMAIN Append(forwards, f) = 1..(Len(forwards) + 1) /\ Append(forwards, f)[Len(forwards) + 1] = f
      /\ \A i \in 1..Len(forwards) : Append(forwards, f)[i] = forwards[i]
  BY <1>1
<1> QED
  BY <1>1, <1>2 DEF T, Range

\* The part of the block that each declaration belongs to.
LEMMA InPhaseBlocks ==
  ASSUME NEW phase, InPhase(phase)
  PROVE  blocks # <<>>
BY DEF InPhase

\* Parser::const_declarations
LEMMA ConstDeclarationStep ==
  ASSUME IInv, NEW n \in Names, NEW x \in BOOLEAN, ConstDeclaration(n, x)
  PROVE  IInv'
<1>0. "const" \in DeclKinds \ {"param"}
  BY DEF DeclKinds
<1>1. /\ blocks # <<>> /\ Consts \in Parts /\ Advance(Consts) /\ used' = NoDecl
      /\ Declare("const", n, BasicTy, x, types, TRUE) /\ forwards' = forwards
  BY DEF ConstDeclaration, InPhase, Parts
<1>2. TypesStay(types) /\ BasicTy \in DOMAIN types
  BY DEF IInv, NodesOK, TypesStay
<1>3. forwards' \in Seq([ref : Names, pointer : Nat]) /\ Range(forwards) \subseteq Range(forwards')
  BY <1>1 DEF IInv, PointersAreComplete
<1> QED
  BY <1>0, <1>1, <1>2, <1>3, DeclareStep

\* A record is no pointer: nothing waits for it.
LEMMA RecordDeclarationStep ==
  ASSUME IInv, NEW n \in Names, NEW x \in BOOLEAN, NEW public \in BOOLEAN,
         RecordDeclaration(n, x, public)
  PROVE  IInv'
<1> DEFINE node == [kind |-> "record", base |-> 0, public |-> public, decl |-> 0]
           new == Append(types, node)
           type == Len(types) + 1
<1>0. "type" \in DeclKinds \ {"param"}
  BY DEF DeclKinds
<1>1. /\ blocks # <<>> /\ Types \in Parts /\ Advance(Types) /\ used' = NoDecl
      /\ Declare("type", n, type, x, new, TRUE) /\ forwards' = forwards
  BY DEF RecordDeclaration, InPhase, Parts, NewType
<1>2. node \in TypeNode /\ node.kind = "record"
  BY DEF TypeNode, TypeKinds
<1> HIDE DEF node
<1>3. TypesStay(new) /\ DOMAIN new = DOMAIN types \cup {type} /\ new[type] = node
  BY <1>2, AppendTypes
<1>4. \A i \in DOMAIN new : i \in DOMAIN types \/ Complete(new, forwards', i)
  BY <1>2, <1>3 DEF Complete
<1>5. forwards' \in Seq([ref : Names, pointer : Nat]) /\ Range(forwards) \subseteq Range(forwards')
  BY <1>1 DEF IInv, PointersAreComplete
<1> HIDE DEF new, type
<1> QED
  BY <1>0, <1>1, <1>3, <1>4, <1>5, DeclareStep

\* The type of an alias is one that exists, or NOTYPE.
LEMMA AliasDeclarationStep ==
  ASSUME IInv, NEW n \in Names, NEW x \in BOOLEAN, NEW ref \in Names, AliasDeclaration(n, x, ref)
  PROVE  IInv'
<1> DEFINE type == TypeReference(table, ref)
           ok == type # NoTy
<1>0. "type" \in DeclKinds \ {"param"}
  BY DEF DeclKinds
<1>1. /\ blocks # <<>> /\ Types \in Parts /\ Advance(Types) /\ used' = Lookup(table, ref)
      /\ Declare("type", n, type, x, types, ok) /\ forwards' = forwards
  BY DEF AliasDeclaration, InPhase, Parts
<1>2. type \in DOMAIN types /\ TypesStay(types) /\ ok \in BOOLEAN
  BY <1>1, TypeReferenceOK DEF IInv, NodesOK, TypesStay
<1>3. forwards' \in Seq([ref : Names, pointer : Nat]) /\ Range(forwards) \subseteq Range(forwards')
  BY <1>1 DEF IInv, PointersAreComplete
<1> HIDE DEF type, ok
<1> QED
  BY <1>0, <1>1, <1>2, <1>3, DeclareStep

\* A new pointer type waits in `forwards`, named or not.
LEMMA PointerDeclarationStep ==
  ASSUME IInv, NEW n \in Names, NEW x \in BOOLEAN, NEW ref \in Names,
         PointerDeclaration(n, x, ref) \/ PointerVarDeclaration(n, x, ref)
  PROVE  IInv'
<1> DEFINE node == [kind |-> "pointer", base |-> NoTy, public |-> FALSE, decl |-> 0]
           new == Append(types, node)
           type == Len(types) + 1
           f == [ref |-> ref, pointer |-> type]
<1>1. /\ blocks # <<>> /\ used' = NoDecl /\ forwards' = Append(forwards, f)
      /\ \E phase \in Parts, kind \in {"type", "var"} :
           Advance(phase) /\ Declare(kind, n, type, x, new, TRUE)
  BY DEF PointerDeclaration, PointerVarDeclaration, InPhase, Parts, NewType
<1>2. PICK phase \in Parts, kind \in {"type", "var"} :
        Advance(phase) /\ Declare(kind, n, type, x, new, TRUE)
  BY <1>1
<1>3. node \in TypeNode
  BY DEF TypeNode, TypeKinds, NoTy
<1> HIDE DEF node
<1>4. /\ TypesStay(new) /\ DOMAIN new = DOMAIN types \cup {type} /\ Len(types) \in Nat
  BY <1>3, AppendTypes
<1>5. f \in [ref : Names, pointer : Nat] /\ f.pointer = type
  BY <1>4
<1> HIDE DEF f
<1>6. /\ forwards' \in Seq([ref : Names, pointer : Nat]) /\ Range(forwards) \subseteq Range(forwards')
      /\ f \in Range(forwards')
  BY <1>1, <1>5, ForwardsGrow
<1>7. \A i \in DOMAIN new : i \in DOMAIN types \/ Complete(new, forwards', i)
  BY <1>4, <1>5, <1>6 DEF Complete
<1>8. kind \in DeclKinds \ {"param"}
  BY <1>2 DEF DeclKinds
<1> HIDE DEF new, type
<1> QED
  BY <1>1, <1>2, <1>4, <1>6, <1>7, <1>8, DeclareStep

\* The base of POINTER TO RECORD is the next type node, a record.
LEMMA PointerToRecordDeclarationStep ==
  ASSUME IInv, NEW n \in Names, NEW x \in BOOLEAN, PointerToRecordDeclaration(n, x)
  PROVE  IInv'
<1> DEFINE type == Len(types) + 1
           pointer == [kind |-> "pointer", base |-> Len(types) + 2, public |-> FALSE, decl |-> 0]
           record == [kind |-> "record", base |-> 0, public |-> FALSE, decl |-> 0]
           new == Append(Append(types, pointer), record)
           T == TypeNode
<1>0. "type" \in DeclKinds \ {"param"}
  BY DEF DeclKinds
<1>1. /\ blocks # <<>> /\ Types \in Parts /\ Advance(Types) /\ used' = NoDecl
      /\ Declare("type", n, type, x, new, TRUE) /\ forwards' = forwards
  BY DEF PointerToRecordDeclaration, InPhase, Parts, NewType
<1>2. types \in Seq(T) /\ Len(types) \in Nat
  <2>1. types \in Seq(T)
    BY DEF IInv, NodesOK
  <2> HIDE DEF T
  <2> QED
    BY <2>1
<1>3. pointer \in T /\ record \in T /\ pointer.base = Len(types) + 2 /\ record.kind = "record"
  BY <1>2 DEF TypeNode, TypeKinds
<1> HIDE DEF pointer, record, T
<1>4. /\ new \in Seq(T) /\ DOMAIN types = 1..Len(types) /\ DOMAIN new = 1..(Len(types) + 2)
      /\ \A i \in 1..Len(types) : new[i] = types[i]
      /\ new[Len(types) + 1] = pointer /\ new[Len(types) + 2] = record
  <2> DEFINE one == Append(types, pointer)
  <2>1. /\ one \in Seq(T) /\ Len(one) = Len(types) + 1 /\ one[Len(types) + 1] = pointer
        /\ \A i \in 1..Len(types) : one[i] = types[i]
    BY <1>2, <1>3
  <2> HIDE DEF one
  <2>2. /\ Append(one, record) \in Seq(T) /\ DOMAIN Append(one, record) = 1..(Len(one) + 1)
        /\ Append(one, record)[Len(one) + 1] = record
        /\ \A i \in 1..Len(one) : Append(one, record)[i] = one[i]
    BY <1>3, <2>1
  <2>3. DOMAIN types = 1..Len(types)
    BY <1>2
  <2>4. Len(one) + 1 = Len(types) + 2
    BY <1>2, <2>1
  <2> QED
    BY <1>2, <2>1, <2>2, <2>3, <2>4 DEF one
<1> HIDE DEF new
<1>5. TypesStay(new) /\ type \in DOMAIN new
  BY <1>2, <1>4 DEF TypesStay, T
<1>6. \A i \in DOMAIN new : i \in DOMAIN types \/ Complete(new, forwards', i)
  <2> SUFFICES ASSUME NEW i \in DOMAIN new, i \notin DOMAIN types
               PROVE  Complete(new, forwards', i)
    OBVIOUS
  <2>1. i = Len(types) + 1 \/ i = Len(types) + 2
    BY <1>2, <1>4
  <2>2. Len(types) + 2 \in DOMAIN new
    BY <1>2, <1>4
  <2> QED
    BY <1>3, <1>4, <2>1, <2>2 DEF Complete
<1>7. forwards' \in Seq([ref : Names, pointer : Nat]) /\ Range(forwards) \subseteq Range(forwards')
  BY <1>1 DEF IInv, PointersAreComplete
<1> HIDE DEF type
<1> QED
  BY <1>0, <1>1, <1>5, <1>6, <1>7, DeclareStep

\* Parser::var_declarations, with a named type
LEMMA VarDeclarationStep ==
  ASSUME IInv, NEW n \in Names, NEW x \in BOOLEAN, NEW ref \in Names, VarDeclaration(n, x, ref)
  PROVE  IInv'
<1> DEFINE type == TypeReference(table, ref)
           ok == type # NoTy
<1>0. "var" \in DeclKinds \ {"param"}
  BY DEF DeclKinds
<1>1. /\ blocks # <<>> /\ Vars \in Parts /\ Advance(Vars) /\ used' = Lookup(table, ref)
      /\ Declare("var", n, type, x, types, ok) /\ forwards' = forwards
  BY DEF VarDeclaration, InPhase, Parts
<1>2. type \in DOMAIN types /\ TypesStay(types) /\ ok \in BOOLEAN
  BY <1>1, TypeReferenceOK DEF IInv, NodesOK, TypesStay
<1>3. forwards' \in Seq([ref : Names, pointer : Nat]) /\ Range(forwards) \subseteq Range(forwards')
  BY <1>1 DEF IInv, PointersAreComplete
<1> HIDE DEF type, ok
<1> QED
  BY <1>0, <1>1, <1>2, <1>3, DeclareStep

\* A formal parameter is declared in the block of its procedure.
LEMMA ParameterStep ==
  ASSUME IInv, NEW n \in Names, NEW ref \in Names, Parameter(n, ref)
  PROVE  IInv'
<1> DEFINE type == TypeReference(table, ref)
           node == [kind |-> "param", name |-> n, type |-> type,
                    scope |-> table.level, exported |-> FALSE, home |-> Home]
<1>1. /\ blocks # <<>> /\ decls' = Append(decls, node) /\ table' = Insert(table, n, Len(decls) + 1)
      /\ errors' = (errors \/ type = NoTy \/ ~AssertUnique(table, n))
      /\ used' = Lookup(table, ref) /\ types' = types /\ forwards' = forwards
      /\ blocks' = blocks /\ written' = written /\ Phase = Formals
  BY DEF Parameter, InFormals
<1>2. type \in DOMAIN types /\ type \in Nat
  <2>1. types \in Seq(TypeNode)
    BY DEF IInv, NodesOK
  <2> QED
    BY <1>1, <2>1, TypeReferenceOK
<1> HIDE DEF type
<1>3. node \in DeclNode
  BY <1>1, <1>2, BlockFacts DEF DeclNode, DeclKinds
<1>4. node.home = Home /\ node.scope = table.level /\ ~node.exported /\ node.type = type
  OBVIOUS
<1> HIDE DEF node
<1>5. TypesStay(types') /\ node.type \in DOMAIN types'
  BY <1>1, <1>2, <1>4 DEF IInv, NodesOK, TypesStay
<1>6. (errors => errors') /\ errors' \in BOOLEAN
  BY <1>1
<1>7. PointersAreComplete'
  <2>1. ~InBody'
    BY <1>1 DEF InBody, Phase, Top, Body, Formals
  <2>2. forwards' \in Seq([ref : Names, pointer : Nat])
    BY <1>1 DEF IInv, PointersAreComplete
  <2> QED
    BY <1>1, <1>5, <1>6, <2>1, <2>2, TypesStep
<1>8. BlocksStay /\ BlocksOK' /\ Len(blocks') = Len(blocks)
  BY <1>1, BlockFacts, SMTT(30) DEF BlocksStay, BlocksOK, IInv
<1> QED
  BY <1>1, <1>3, <1>4, <1>5, <1>6, <1>7, <1>8, NewDeclaration

\* The scope of the parameters of a procedure type is opened, filled and
\* closed: the scopes of the blocks are left as they were.
LEMMA ParameterScopeStep ==
  ASSUME IInv, blocks # <<>>, NEW p \in Names, NEW d \in Nat,
         NEW outer, outer = ParameterScope(OpenScope(table), p, d)
  PROVE  /\ InModule(outer, Declared) /\ outer.level = table.level
         /\ \A l \in 0..table.level : outer.scopes[Self][l + 1] = table.scopes[Self][l + 1]
<1> DEFINE inner == OpenScope(table)
           full == Insert(inner, p, d)
           S == [l \in 0..(table.level + 1) |-> IF l <= table.level THEN Declared[l] ELSE {}]
           R == [l \in 0..(table.level + 1) |-> IF l <= table.level THEN Declared[l] ELSE {d}]
<1>1. InModule(table, Declared) /\ table.level \in Nat
  BY BlockFacts
<1>2. /\ \A l \in 0..table.level : Declared[l] = S[l] /\ S[l] = R[l]
      /\ \A l \in 0..(table.level + 1) : S[l] \subseteq R[l]
      /\ d \in R[table.level + 1]
  BY <1>1
<1> HIDE DEF inner, full, S, R
<1>3. /\ InModule(inner, S) /\ inner.level = table.level + 1
      /\ \A l \in 0..table.level : inner.scopes[Self][l + 1] = table.scopes[Self][l + 1]
  BY <1>1, <1>2, OpenInModule DEF inner
<1>4. /\ InModule(full, R) /\ full.level = inner.level
      /\ \A l \in 0..inner.level : l # inner.level =>
           full.scopes[Self][l + 1] = inner.scopes[Self][l + 1]
  BY <1>2, <1>3, InsertInModule, ZenonT(30) DEF full
<1>5. \A l \in 0..(full.level - 1) : R[l] \subseteq Declared[l]
  BY <1>1, <1>2, <1>3, <1>4
<1>6. full.level > 0
  BY <1>1, <1>3, <1>4
<1>7. outer = CloseScope(full)
  BY DEF ParameterScope, full, inner
<1>8. InModule(outer, Declared) /\ outer.level = full.level - 1 /\ outer.scopes = full.scopes
  BY <1>4, <1>5, <1>6, <1>7, CloseInModule
<1>9. ASSUME NEW l \in 0..table.level
      PROVE  outer.scopes[Self][l + 1] = table.scopes[Self][l + 1]
  <2>1. l \in 0..inner.level /\ l # inner.level
    BY <1>1, <1>3
  <2> QED
    BY <1>3, <1>4, <1>8, <2>1
<1> QED
  BY <1>1, <1>3, <1>4, <1>8, <1>9

\* Two nodes at the end of a list leave the others alone.
LEMMA TwoMore ==
  ASSUME NEW T, NEW s \in Seq(T), NEW a \in T, NEW b \in T
  PROVE  /\ s \o <<a, b>> \in Seq(T) /\ Len(s) \in Nat /\ DOMAIN s = 1..Len(s)
         /\ DOMAIN (s \o <<a, b>>) = 1..(Len(s) + 2)
         /\ \A i \in 1..Len(s) : (s \o <<a, b>>)[i] = s[i]
         /\ (s \o <<a, b>>)[Len(s) + 1] = a /\ (s \o <<a, b>>)[Len(s) + 2] = b
OBVIOUS

\* The parameter of a procedure type is a node of no block.
LEMMA ProcedureTypeDeclarationStep ==
  ASSUME IInv, NEW n \in Names, NEW x \in BOOLEAN, NEW p \in Names, NEW ref \in Names,
         ProcedureTypeDeclaration(n, x, p, ref)
  PROVE  IInv'
<1> DEFINE d == Len(decls) + 1
           k == d + 1
           inner == OpenScope(table)
           outer == ParameterScope(inner, p, d)
           type == TypeReference(inner, ref)
           a == [kind |-> "param", name |-> p, type |-> type,
                 scope |-> inner.level, exported |-> FALSE, home |-> -d]
           b == [kind |-> "type", name |-> n, type |-> Len(types) + 1,
                 scope |-> outer.level, exported |-> x, home |-> Home]
           c == [kind |-> "procedure", base |-> 0, public |-> FALSE, decl |-> k]
<1>1. /\ blocks # <<>> /\ Advance(Types) /\ decls' = decls \o <<a, b>>
      /\ types' = Append(types, c) /\ table' = Insert(outer, n, k)
      /\ (errors => errors') /\ errors' \in BOOLEAN /\ (x => errors' \/ outer.level = 1)
      /\ used' = Lookup(inner, ref) /\ forwards' = forwards /\ written' = written
  BY DEF ProcedureTypeDeclaration, InPhase, CheckExport
<1>2. BlocksOK' /\ BlocksStay /\ Len(blocks') = Len(blocks) /\ Phase' = Types /\ blocks' # <<>>
  BY <1>1, AdvanceStep DEF Types
<1>3. InModule(table, Declared) /\ ~written /\ table.level = Len(blocks) /\ table.level \in Nat /\ Home \in Nat
  BY <1>1, BlockFacts
<1>4. decls \in Seq(DeclNode) /\ types \in Seq(TypeNode)
  BY DEF IInv, NodesOK
<1>5. d \in Nat /\ k \in Nat /\ -d \in Int /\ Len(types) \in Nat /\ type \in Nat /\ type \in DOMAIN types
  <2> HIDE DEF type
  <2>1. type \in DOMAIN types
    BY <1>1, TypeReferenceOK DEF type
  <2> QED
    BY <1>4, <2>1
<1>6. /\ InModule(outer, Declared) /\ outer.level = table.level
      /\ \A l \in 0..table.level : outer.scopes[Self][l + 1] = table.scopes[Self][l + 1]
  <2> HIDE DEF d
  <2> QED
    BY <1>1, <1>5, ParameterScopeStep
<1>7. inner.level \in Nat
  BY <1>3 DEF OpenScope, MoveTo
<1> HIDE DEF type, inner, outer
<1>8. a \in DeclNode /\ ~a.exported /\ a.type = type
  BY <1>5, <1>7 DEF DeclNode, DeclKinds
<1>9. /\ b \in DeclNode /\ b.home = Home /\ b.scope = table.level /\ b.exported = x
      /\ b.kind # "param" /\ b.type = Len(types) + 1
  BY <1>3, <1>5, <1>6 DEF DeclNode, DeclKinds
<1>10. c \in TypeNode /\ c.kind # "pointer"
  BY <1>5 DEF TypeNode, TypeKinds
<1> HIDE DEF a, b, c
<1>11. TypesStay(types') /\ DOMAIN types' = DOMAIN types \cup {Len(types) + 1} /\ types'[Len(types) + 1] = c
  BY <1>1, <1>10, AppendTypes
<1>12. /\ decls' \in Seq(DeclNode) /\ Extends(decls', decls) /\ DOMAIN decls' = DOMAIN decls \cup {d, k}
       /\ decls'[d] = a /\ decls'[k] = b
  <2> DEFINE T == DeclNode
  <2>1. decls \in Seq(T) /\ a \in T /\ b \in T
    BY <1>4, <1>8, <1>9
  <2> HIDE DEF T
  <2>2. /\ decls' \in Seq(T) /\ Len(decls) \in Nat /\ DOMAIN decls = 1..Len(decls)
        /\ DOMAIN decls' = 1..(Len(decls) + 2) /\ \A i \in 1..Len(decls) : decls'[i] = decls[i]
        /\ decls'[Len(decls) + 1] = a /\ decls'[Len(decls) + 2] = b
    BY <1>1, <2>1, TwoMore
  <2>3. 1..(Len(decls) + 2) = 1..Len(decls) \cup {Len(decls) + 1, Len(decls) + 2} /\ k = Len(decls) + 2
    BY <2>2
  <2> QED
    BY <2>2, <2>3 DEF T, Extends
<1> HIDE DEF d, k
<1>13. /\ InModule(table', Declared') /\ table'.level = Len(blocks)
       /\ ~errors' => \A e \in DOMAIN decls' : decls'[e].exported => e \in Range(table'.scopes[Self][2].symbols)
  BY <1>1, <1>2, <1>5, <1>6, <1>8, <1>9, <1>12, InsertStep, ZenonT(30)
<1>14. ScopesAreBlocks' /\ ExportsAreInScope'
  BY <1>2, <1>13, InModuleHasModule DEF ScopesAreBlocks, ExportsAreInScope
<1>15. NodesOK'
  BY <1>8, <1>9, <1>11, <1>12, <1>5, NodesStep
<1>16. PointersAreComplete'
  <2>1. ~InBody'
    BY <1>2 DEF InBody, Types, Body
  <2>2. \A i \in DOMAIN types' : i \in DOMAIN types \/ Complete(types', forwards', i)
    BY <1>10, <1>11 DEF Complete
  <2>3. forwards' \in Seq([ref : Names, pointer : Nat])
    BY <1>1 DEF IInv, PointersAreComplete
  <2> QED
    BY <1>1, <1>11, <2>1, <2>2, <2>3, TypesStep
<1>17. UsedIsVisible'
  BY <1>1, <1>2, <1>12, UsedStep DEF inner
<1>18. WrittenLast' /\ ExportsAreComplete'
  BY <1>1, <1>3 DEF WrittenLast, ExportsAreComplete
<1> QED
  BY <1>1, <1>2, <1>14, <1>15, <1>16, <1>17, <1>18 DEF IInv

\* What is in the scopes of the open blocks stays there.
LEMMA ScopesKept ==
  ASSUME IInv, blocks # <<>>, Extends(decls', decls), BlocksStay, NEW t, InModule(t, Declared),
         t.level = table.level
  PROVE  InModule(t, Declared')
<1>1. table.level = Len(blocks) /\ Len(blocks) \in Nat /\ DOMAIN blocks = 1..Len(blocks)
  BY BlockFacts DEF IInv, BlocksOK
<1>2. ASSUME NEW l \in 0..t.level PROVE Declared[l] \subseteq Declared'[l]
  BY <1>1 DEF Declared, Extends, BlocksStay
<1>3. \A l \in 0..t.level : ScopeOf(t.scopes[Self][l + 1], Declared'[l])
  BY <1>2 DEF InModule, ScopeOf
<1> QED
  BY <1>3 DEF InModule

\* The scope of no parameters is opened and closed.
LEMMA EmptyParameterScope ==
  ASSUME IInv, blocks # <<>>, NEW outer, outer = CloseScope(OpenScope(table))
  PROVE  /\ InModule(outer, Declared) /\ outer.level = table.level
         /\ \A l \in 0..table.level : outer.scopes[Self][l + 1] = table.scopes[Self][l + 1]
<1> DEFINE inner == OpenScope(table)
           S == [l \in 0..(table.level + 1) |-> IF l <= table.level THEN Declared[l] ELSE {}]
<1>1. InModule(table, Declared) /\ table.level \in Nat
  BY BlockFacts
<1>2. \A l \in 0..table.level : Declared[l] = S[l] /\ S[l] \subseteq Declared[l]
  BY <1>1
<1> HIDE DEF inner, S
<1>3. /\ InModule(inner, S) /\ inner.level = table.level + 1
      /\ \A l \in 0..table.level : inner.scopes[Self][l + 1] = table.scopes[Self][l + 1]
  BY <1>1, <1>2, OpenInModule DEF inner
<1>4. \A l \in 0..(inner.level - 1) : S[l] \subseteq Declared[l]
  BY <1>1, <1>2, <1>3
<1>5. inner.level > 0 /\ outer = CloseScope(inner)
  BY <1>1, <1>3 DEF inner
<1>6. InModule(outer, Declared) /\ outer.level = inner.level - 1 /\ outer.scopes = inner.scopes
  BY <1>3, <1>4, <1>5, CloseInModule
<1> QED
  BY <1>1, <1>3, <1>6

\* What the external procedures share: no type node, no pending base, and
\* the scopes of the blocks.
LEMMA ExternalStep ==
  ASSUME IInv, blocks # <<>>, Advance(Procs), decls' \in Seq(DeclNode), Extends(decls', decls),
         \A d \in DOMAIN decls' :
           d \in DOMAIN decls \/ (decls'[d].type \in DOMAIN types /\ (decls'[d].kind = "param" => ~decls'[d].exported)),
         types' = types, forwards' = forwards, written' = written, errors => errors', errors' \in BOOLEAN,
         used' = NoDecl \/ \E t \in {table, OpenScope(table)} : \E n \in Names : used' = Lookup(t, n),
         InModule(table', Declared'), table'.level = table.level,
         ~errors' => \A e \in DOMAIN decls' : decls'[e].exported => e \in Range(table'.scopes[Self][2].symbols)
  PROVE  IInv'
<1>1. BlocksOK' /\ BlocksStay /\ Len(blocks') = Len(blocks) /\ Phase' = Procs /\ blocks' # <<>>
  BY AdvanceStep DEF Procs
<1>2. ~written /\ table.level = Len(blocks)
  BY BlockFacts
<1>3. TypesStay(types') /\ forwards' \in Seq([ref : Names, pointer : Nat])
  BY DEF IInv, NodesOK, TypesStay, PointersAreComplete
<1>4. ScopesAreBlocks' /\ ExportsAreInScope'
  BY <1>1, <1>2, InModuleHasModule DEF ScopesAreBlocks, ExportsAreInScope
<1>5. NodesOK'
  BY <1>3, NodesStep
<1>6. PointersAreComplete'
  <2>1. ~InBody'
    BY <1>1 DEF InBody, Procs, Body
  <2> QED
    BY <1>3, <2>1, TypesStep
<1>7. UsedIsVisible'
  BY <1>1, UsedStep
<1>8. WrittenLast' /\ ExportsAreComplete'
  BY <1>2 DEF WrittenLast, ExportsAreComplete
<1> QED
  BY <1>1, <1>4, <1>5, <1>6, <1>7, <1>8 DEF IInv

\* The scope of the parameter is closed again, whether the procedure is
\* declared or not.
LEMMA ExternalProcedureStep ==
  ASSUME IInv, NEW n \in Names, NEW x \in BOOLEAN, NEW p \in Names, NEW ref \in Names,
         NEW named \in BOOLEAN, NEW good \in BOOLEAN, ExternalProcedure(n, x, p, ref, named, good)
  PROVE  IInv'
<1> DEFINE d == Len(decls) + 1
           k == d + 1
           inner == OpenScope(table)
           outer == ParameterScope(inner, p, d)
           type == TypeReference(inner, ref)
           a == [kind |-> "param", name |-> p, type |-> type,
                 scope |-> inner.level, exported |-> FALSE, home |-> -d]
           b == [kind |-> "external", name |-> n, type |-> NoTy,
                 scope |-> outer.level, exported |-> x, home |-> Home]
<1>1. /\ blocks # <<>> /\ Advance(Procs)
      /\ decls' = decls \o (IF named THEN <<a, b>> ELSE <<a>>)
      /\ table' = IF named THEN Insert(outer, n, k) ELSE outer
      /\ (errors => errors') /\ errors' \in BOOLEAN /\ (x => errors') /\ (~named => errors')
      /\ used' = Lookup(inner, ref) /\ types' = types /\ forwards' = forwards /\ written' = written
  BY DEF ExternalProcedure, InPhase
<1>2. BlocksStay
  BY <1>1, AdvanceStep DEF Procs
<1>3. InModule(table, Declared) /\ table.level = Len(blocks) /\ table.level \in Nat /\ Home \in Nat
  BY <1>1, BlockFacts
<1>4. decls \in Seq(DeclNode) /\ NoTy \in DOMAIN types /\ NoTy \in Nat
  BY DEF IInv, NodesOK, NoTy
<1>5. d \in Nat /\ k \in Nat /\ -d \in Int /\ type \in Nat /\ type \in DOMAIN types
  <2> HIDE DEF type
  <2>1. type \in DOMAIN types
    BY <1>1, TypeReferenceOK DEF type
  <2>2. types \in Seq(TypeNode)
    BY DEF IInv, NodesOK
  <2> QED
    BY <1>4, <2>1, <2>2
<1>6. /\ InModule(outer, Declared) /\ outer.level = table.level
      /\ \A l \in 0..table.level : outer.scopes[Self][l + 1] = table.scopes[Self][l + 1]
  <2> HIDE DEF d
  <2> QED
    BY <1>1, <1>5, ParameterScopeStep
<1>7. inner.level \in Nat
  BY <1>3 DEF OpenScope, MoveTo
<1>8. used' = NoDecl \/ \E t \in {table, OpenScope(table)} : \E m \in Names : used' = Lookup(t, m)
  BY <1>1
<1> HIDE DEF type, inner, outer
<1>9. a \in DeclNode /\ ~a.exported /\ a.type = type
  BY <1>5, <1>7 DEF DeclNode, DeclKinds
<1>10. /\ b \in DeclNode /\ b.home = Home /\ b.scope = table.level /\ b.exported = x
       /\ b.kind # "param" /\ b.type = NoTy
  BY <1>3, <1>4, <1>6 DEF DeclNode, DeclKinds
<1> HIDE DEF a, b
<1>11. CASE named
  <2>1. /\ decls' \in Seq(DeclNode) /\ Extends(decls', decls) /\ DOMAIN decls' = DOMAIN decls \cup {d, k}
        /\ decls'[d] = a /\ decls'[k] = b
    <3> DEFINE T == DeclNode
    <3>1. decls \in Seq(T) /\ a \in T /\ b \in T
      BY <1>4, <1>9, <1>10
    <3> HIDE DEF T
    <3>2. /\ decls' \in Seq(T) /\ Len(decls) \in Nat /\ DOMAIN decls = 1..Len(decls)
          /\ DOMAIN decls' = 1..(Len(decls) + 2) /\ \A i \in 1..Len(decls) : decls'[i] = decls[i]
          /\ decls'[Len(decls) + 1] = a /\ decls'[Len(decls) + 2] = b
      BY <1>1, <1>11, <3>1, TwoMore
    <3>3. 1..(Len(decls) + 2) = 1..Len(decls) \cup {Len(decls) + 1, Len(decls) + 2} /\ k = Len(decls) + 2
      BY <3>2
    <3> QED
      BY <3>2, <3>3 DEF T, Extends
  <2> HIDE DEF d, k
  <2>2. /\ InModule(table', Declared') /\ table'.level = Len(blocks)
        /\ ~errors' => \A e \in DOMAIN decls' : decls'[e].exported => e \in Range(table'.scopes[Self][2].symbols)
    BY <1>1, <1>2, <1>5, <1>6, <1>9, <1>10, <1>11, <2>1, InsertStep
  <2> QED
    BY <1>1, <1>3, <1>4, <1>5, <1>8, <1>9, <1>10, <2>1, <2>2, ExternalStep
<1>12. CASE ~named
  <2>1. /\ decls' \in Seq(DeclNode) /\ Extends(decls', decls) /\ DOMAIN decls' = DOMAIN decls \cup {d}
        /\ decls'[d] = a
    <3>1. decls \o <<a>> = Append(decls, a)
      BY <1>4, <1>9
    <3> QED
      BY <1>1, <1>9, <1>12, <3>1, AppendStep
  <2>2. InModule(table', Declared') /\ table'.level = table.level
    BY <1>1, <1>2, <1>6, <1>12, <2>1, ScopesKept
  <2> HIDE DEF d
  <2> QED
    BY <1>1, <1>4, <1>5, <1>8, <1>9, <1>12, <2>1, <2>2, ExternalStep
<1> QED
  BY <1>11, <1>12

\* Without parameters there is an empty scope to close.
LEMMA ExternalCommandStep ==
  ASSUME IInv, NEW n \in Names, NEW x \in BOOLEAN, NEW named \in BOOLEAN, NEW good \in BOOLEAN,
         ExternalCommand(n, x, named, good)
  PROVE  IInv'
<1> DEFINE d == Len(decls) + 1
           outer == CloseScope(OpenScope(table))
           b == [kind |-> "external", name |-> n, type |-> NoTy,
                 scope |-> outer.level, exported |-> x, home |-> Home]
<1>1. /\ blocks # <<>> /\ Advance(Procs)
      /\ decls' = (IF named THEN Append(decls, b) ELSE decls)
      /\ table' = IF named THEN Insert(outer, n, d) ELSE outer
      /\ (errors => errors') /\ errors' \in BOOLEAN /\ (x => errors') /\ (~named => errors')
      /\ used' = NoDecl /\ types' = types /\ forwards' = forwards /\ written' = written
  BY DEF ExternalCommand, InPhase
<1>2. BlocksStay
  BY <1>1, AdvanceStep DEF Procs
<1>3. InModule(table, Declared) /\ table.level = Len(blocks) /\ table.level \in Nat /\ Home \in Nat
  BY <1>1, BlockFacts
<1>4. decls \in Seq(DeclNode) /\ NoTy \in DOMAIN types /\ NoTy \in Nat
  BY DEF IInv, NodesOK, NoTy
<1>5. /\ InModule(outer, Declared) /\ outer.level = table.level
      /\ \A l \in 0..table.level : outer.scopes[Self][l + 1] = table.scopes[Self][l + 1]
  BY <1>1, EmptyParameterScope
<1> HIDE DEF outer
<1>6. /\ b \in DeclNode /\ b.home = Home /\ b.scope = table.level /\ b.exported = x
      /\ b.kind # "param" /\ b.type = NoTy
  BY <1>3, <1>4, <1>5 DEF DeclNode, DeclKinds
<1> HIDE DEF b
<1>7. CASE named
  <2>1. /\ decls' \in Seq(DeclNode) /\ Extends(decls', decls) /\ d \in Nat
        /\ DOMAIN decls' = DOMAIN decls \cup {d} /\ decls'[d] = b
    BY <1>1, <1>6, <1>7, AppendStep
  <2> HIDE DEF d
  <2>2. /\ InModule(table', Declared') /\ table'.level = Len(blocks)
        /\ ~errors' => \A e \in DOMAIN decls' : decls'[e].exported => e \in Range(table'.scopes[Self][2].symbols)
    BY <1>1, <1>2, <1>5, <1>6, <1>7, <2>1, InsertStep
  <2> QED
    BY <1>1, <1>3, <1>4, <1>6, <2>1, <2>2, ExternalStep
<1>8. CASE ~named
  <2>1. decls' \in Seq(DeclNode) /\ Extends(decls', decls) /\ DOMAIN decls' = DOMAIN decls
    BY <1>1, <1>4, <1>8 DEF Extends
  <2>2. InModule(table', Declared') /\ table'.level = table.level
    BY <1>1, <1>2, <1>5, <1>8, <2>1, ScopesKept
  <2> QED
    BY <1>1, <1>8, <2>1, <2>2, ExternalStep
<1> QED
  BY <1>7, <1>8

\* A broken header opens no scope.
LEMMA ExternalHeaderStep ==
  ASSUME IInv, ExternalHeaderMissing
  PROVE  IInv'
<1>1. /\ blocks # <<>> /\ Advance(Procs) /\ used' = NoDecl /\ table' = table /\ decls' = decls
      /\ types' = types /\ forwards' = forwards /\ errors' = TRUE /\ written' = written
  BY DEF ExternalHeaderMissing, InPhase
<1>2. BlocksStay
  BY <1>1, AdvanceStep DEF Procs
<1>3. decls' \in Seq(DeclNode) /\ Extends(decls', decls) /\ DOMAIN decls' = DOMAIN decls
  BY <1>1 DEF Extends, IInv, NodesOK
<1>4. InModule(table', Declared') /\ table'.level = table.level
  BY <1>1, <1>2, <1>3, BlockFacts, ScopesKept
<1> QED
  BY <1>1, <1>3, <1>4, ExternalStep

\* A procedure is declared in the enclosing scope before its own is opened.
LEMMA StartProcedureStep ==
  ASSUME IInv, NEW n \in Names, NEW x \in BOOLEAN, StartProcedure(n, x)
  PROVE  IInv'
<1> DEFINE d == Len(decls) + 1
           u == Insert(table, n, d)
           node == [kind |-> "proc", name |-> n, type |-> NoTy,
                    scope |-> table.level, exported |-> x, home |-> Home]
           B == [proc : Nat, phase : Nat]
           top == [blocks[Len(blocks)] EXCEPT !.phase = Procs]
           outer == [blocks EXCEPT ![Len(blocks)] = top]
           new == [proc |-> d, phase |-> Formals]
<1>1. /\ blocks # <<>> /\ blocks' = Append(outer, new)
      /\ decls' = Append(decls, node) /\ table' = OpenScope(u)
      /\ (errors => errors') /\ errors' \in BOOLEAN /\ (x => errors' \/ table.level = 1)
      /\ used' = NoDecl /\ types' = types /\ forwards' = forwards /\ written' = written
  BY DEF StartProcedure, InPhase, CheckExport
<1>2. /\ InModule(table, Declared) /\ ~written /\ table.level = Len(blocks) /\ table.level \in Nat
      /\ Len(blocks) \in Nat \ {0} /\ Home \in Nat
  BY <1>1, BlockFacts
<1>3. blocks \in Seq(B) /\ (\A l \in 1..(Len(blocks) - 1) : blocks[l].phase = Procs) /\ blocks[1].proc = 0
  BY <1>1 DEF IInv, BlocksOK
<1>4. NoTy \in DOMAIN types /\ NoTy \in Nat
  BY DEF IInv, NodesOK, NoTy
<1>5. node \in DeclNode /\ node.home = Home /\ node.scope = table.level /\ node.exported = x
      /\ node.kind # "param" /\ node.type = NoTy
  BY <1>2, <1>4 DEF DeclNode, DeclKinds
<1> HIDE DEF node, B
<1>6. blocks[Len(blocks)] \in B
  BY <1>2, <1>3
<1>7. top \in B /\ top.proc = blocks[Len(blocks)].proc /\ top.phase = Procs
  BY <1>6 DEF B, Procs
<1>8. /\ decls' \in Seq(DeclNode) /\ Extends(decls', decls) /\ d \in Nat
      /\ DOMAIN decls' = DOMAIN decls \cup {d} /\ decls'[d] = node
  BY <1>1, <1>5, AppendStep
<1>9. new \in B /\ new.phase = Formals
  BY <1>8 DEF B, Formals
<1> HIDE DEF d, top, new
<1>10. /\ outer \in Seq(B) /\ Len(outer) = Len(blocks) /\ DOMAIN blocks = 1..Len(blocks)
       /\ outer[Len(blocks)] = top
       /\ \A l \in 1..Len(blocks) : l # Len(blocks) => outer[l] = blocks[l]
  BY <1>2, <1>3, <1>7
<1> HIDE DEF outer
<1>11. /\ blocks' \in Seq(B) /\ Len(blocks') = Len(blocks) + 1
       /\ blocks'[Len(blocks) + 1] = new
       /\ \A l \in 1..Len(blocks) : blocks'[l] = outer[l]
  BY <1>1, <1>2, <1>9, <1>10
<1>12. BlocksStay
  BY <1>2, <1>7, <1>10, <1>11 DEF BlocksStay
<1>13. BlocksOK' /\ blocks' # <<>>
  <2>1. \A l \in 1..(Len(blocks') - 1) : blocks'[l].phase = Procs
    BY <1>2, <1>3, <1>7, <1>10, <1>11
  <2>2. blocks'[1].proc = 0
    BY <1>2, <1>3, <1>10, <1>12 DEF BlocksStay
  <2>3. blocks' # <<>>
    BY <1>2, <1>11
  <2> QED
    BY <1>11, <2>1, <2>2, <2>3 DEF BlocksOK, B
<1>14. /\ InModule(u, Declared') /\ u.level = Len(blocks)
       /\ ~errors' => \A e \in DOMAIN decls' : decls'[e].exported => e \in Range(u.scopes[Self][2].symbols)
  BY <1>1, <1>2, <1>5, <1>8, <1>12, InsertStep
<1> HIDE DEF u
<1>15. /\ InModule(table', Declared') /\ table'.level = Len(blocks')
       /\ \A l \in 0..Len(blocks) : table'.scopes[Self][l + 1] = u.scopes[Self][l + 1]
  BY <1>1, <1>11, <1>14, OpenInModule
<1>16. table'.scopes[Self][2] = u.scopes[Self][2]
  <2>1. 1 \in 0..Len(blocks) /\ 1 + 1 = 2
    BY <1>2
  <2> QED
    BY <1>15, <2>1
<1>17. ScopesAreBlocks' /\ ExportsAreInScope'
  BY <1>14, <1>15, <1>16, InModuleHasModule DEF ScopesAreBlocks, ExportsAreInScope
<1>18. TypesStay(types')
  BY <1>1 DEF IInv, NodesOK, TypesStay
<1>19. NodesOK'
  BY <1>1, <1>4, <1>5, <1>8, <1>18, NodesStep
<1>20. PointersAreComplete'
  <2>1. blocks'[Len(blocks')].phase # Body
    BY <1>9, <1>11 DEF Formals, Body
  <2>2. ~InBody'
    BY <2>1 DEF InBody, Phase, Top, Last
  <2>3. forwards' \in Seq([ref : Names, pointer : Nat])
    BY <1>1 DEF IInv, PointersAreComplete
  <2> QED
    BY <1>1, <1>18, <2>2, <2>3, TypesStep
<1>21. UsedIsVisible' /\ WrittenLast' /\ ExportsAreComplete'
  BY <1>1, <1>2 DEF UsedIsVisible, WrittenLast, ExportsAreComplete
<1> QED
  BY <1>1, <1>13, <1>17, <1>19, <1>20, <1>21 DEF IInv

---------------------------------------------------------------------------
(* The actions that declare nothing.                                       *)

\* No new declaration, no new scope.
LEMMA NothingDeclared ==
  ASSUME IInv, blocks # <<>>, BlocksStay, Len(blocks') = Len(blocks), blocks' # <<>>,
         table' = table, decls' = decls, types' \in Seq(TypeNode), DOMAIN types' = DOMAIN types,
         \A i \in DOMAIN types : types'[i].kind = types[i].kind,
         written' = written, errors => errors', errors' \in BOOLEAN,
         used' = NoDecl \/ \E n \in Names : used' = Lookup(table, n)
  PROVE  /\ errors' \in BOOLEAN /\ NodesOK' /\ ScopesAreBlocks' /\ ExportsAreInScope'
         /\ UsedIsVisible' /\ WrittenLast' /\ ExportsAreComplete'
<1>1. InModule(table, Declared) /\ ~written /\ table.level = Len(blocks) /\ HasModule(table, Self)
  BY BlockFacts
<1>2. DOMAIN blocks = 1..Len(blocks)
  BY DEF IInv, BlocksOK
<1>3. ASSUME NEW l \in 0..Len(blocks) PROVE Declared'[l] = Declared[l]
  <2>1. Len(blocks) \in Nat /\ l \in 0..Len(blocks')
    BY BlockFacts
  <2>2. l # 0 => l \in DOMAIN blocks
    BY <1>2, <2>1
  <2>3. l # 0 => blocks'[l].proc = blocks[l].proc
    BY <2>2 DEF BlocksStay
  <2> QED
    BY <2>1, <2>3 DEF Declared
<1>4. InModule(table', Declared')
  BY <1>1, <1>3 DEF InModule
<1>5. ScopesAreBlocks' /\ ExportsAreInScope'
  BY <1>1, <1>4 DEF ScopesAreBlocks, ExportsAreInScope, HasModule, IInv
<1>6. NodesOK'
  BY DEF NodesOK, IInv
<1>7. UsedIsVisible'
  BY UsedStep DEF Extends
<1>8. WrittenLast' /\ ExportsAreComplete'
  BY <1>1 DEF WrittenLast, ExportsAreComplete
<1> QED
  BY <1>5, <1>6, <1>7, <1>8

\* The end of the formal parameters declares nothing.
LEMMA EndFormalsStep ==
  ASSUME IInv, EndFormals
  PROVE  IInv'
<1>1. /\ blocks # <<>> /\ Advance(Consts) /\ used' = NoDecl /\ table' = table /\ decls' = decls
      /\ types' = types /\ forwards' = forwards /\ errors' = errors /\ written' = written
  BY DEF EndFormals, InFormals
<1>2. BlocksOK' /\ BlocksStay /\ Len(blocks') = Len(blocks) /\ Phase' = Consts /\ blocks' # <<>>
  BY <1>1, AdvanceStep DEF Consts
<1>3. TypesStay(types') /\ forwards' \in Seq([ref : Names, pointer : Nat]) /\ errors' \in BOOLEAN
  BY <1>1 DEF IInv, NodesOK, TypesStay, PointersAreComplete
<1>4. PointersAreComplete'
  <2>1. ~InBody'
    BY <1>2 DEF InBody, Consts, Body
  <2> QED
    BY <1>1, <1>3, <2>1, TypesStep
<1> QED
  BY <1>1, <1>2, <1>3, <1>4, NothingDeclared DEF IInv, TypesStay

\* A name in a statement: the references of a body are all of this kind.
LEMMA ReferenceStep ==
  ASSUME IInv, NEW n \in Names, Reference(n)
  PROVE  IInv'
<1>1. /\ blocks # <<>> /\ blocks' = blocks /\ used' = Lookup(table, n) /\ table' = table /\ decls' = decls
      /\ types' = types /\ forwards' = forwards /\ (errors => errors') /\ errors' \in BOOLEAN
      /\ written' = written
  BY DEF Reference, InBody
<1>2. BlocksStay /\ Len(blocks') = Len(blocks) /\ BlocksOK'
  BY <1>1, BlockFacts DEF BlocksStay, IInv, BlocksOK
<1>3. TypesStay(types') /\ forwards' \in Seq([ref : Names, pointer : Nat])
  BY <1>1 DEF IInv, NodesOK, TypesStay, PointersAreComplete
<1>4. PointersAreComplete'
  <2>1. InBody' => forwards' = <<>>
    BY <1>1 DEF InBody, Phase, Top, IInv, PointersAreComplete
  <2> QED
    BY <1>1, <1>3, <2>1, TypesStep
<1> QED
  BY <1>1, <1>2, <1>3, <1>4, NothingDeclared DEF IInv, TypesStay

\* Sema::onDeclarations: every base that is looked up is a record, or an error
\* is reported.
LEMMA EndDeclarationsStep ==
  ASSUME IInv, EndDeclarations
  PROVE  IInv'
<1>1. /\ blocks # <<>> /\ Advance(Body) /\ used' = NoDecl /\ table' = table /\ decls' = decls
      /\ types' = ResolvedTypes /\ forwards' = <<>> /\ written' = written
      /\ errors' = (errors \/ \E f \in Range(forwards) : IsBadBase(f))
  BY DEF EndDeclarations, InPhase, RemainingForwards
<1>2. BlocksOK' /\ BlocksStay /\ Len(blocks') = Len(blocks) /\ blocks' # <<>>
  BY <1>1, AdvanceStep DEF Body
<1>3. forwards \in Seq([ref : Names, pointer : Nat]) /\ types \in Seq(TypeNode) /\ NoTy \in DOMAIN types
  BY DEF IInv, NodesOK, PointersAreComplete
<1>4. ASSUME NEW f \in Range(forwards) PROVE f.ref \in Names
  <2> DEFINE T == [ref : Names, pointer : Nat]
  <2>1. forwards \in Seq(T)
    BY <1>3
  <2> HIDE DEF T
  <2>2. f \in T
    BY <1>4, <2>1 DEF Range
  <2> QED
    BY <2>2 DEF T
<1>5. \A f \in Range(forwards) : TypeReference(table, f.ref) \in DOMAIN types
  BY <1>1, <1>4, TypeReferenceOK
<1> DEFINE Waits(i) == \E f \in Range(forwards) : f.pointer = i
           chosen(i) == CHOOSE f \in Range(forwards) : f.pointer = i
           Found(i) == \E f \in Range(forwards) : f.pointer = i /\ TypeReference(table, f.ref) # NoTy
<1>6. ASSUME NEW i \in DOMAIN types
      PROVE  types'[i] = IF Found(i) THEN [types[i] EXCEPT !.base = TypeReference(table, chosen(i).ref)]
                         ELSE types[i]
  BY <1>1, <1>6 DEF ResolvedTypes
<1>7. ASSUME NEW i \in DOMAIN types, Waits(i)
      PROVE  chosen(i) \in Range(forwards)
  BY <1>7
<1>8. ASSUME NEW i \in DOMAIN types
      PROVE  Found(i) => Waits(i)
  OBVIOUS
<1> HIDE DEF Waits, chosen, Found
<1>9. ASSUME NEW i \in DOMAIN types
      PROVE  /\ types'[i] \in TypeNode /\ types'[i].kind = types[i].kind
             /\ Found(i) => types'[i].base = TypeReference(table, chosen(i).ref)
             /\ ~Found(i) => types'[i].base = types[i].base
  <2>1. types[i] \in TypeNode
    BY <1>3, <1>9
  <2>2. CASE Found(i)
    <3> DEFINE b == TypeReference(table, chosen(i).ref)
    <3>1. b \in DOMAIN types
      BY <1>5, <1>7, <1>8, <1>9, <2>2
    <3> HIDE DEF b
    <3>2. b \in Nat
      BY <1>3, <3>1
    <3>3. types'[i] = [types[i] EXCEPT !.base = b]
      BY <1>6, <1>9, <2>2 DEF b
    <3> QED
      BY <2>1, <2>2, <3>2, <3>3 DEF TypeNode, b
  <2>3. CASE ~Found(i)
    BY <1>6, <1>9, <2>1, <2>3
  <2> QED
    BY <2>2, <2>3
<1>10. DOMAIN types' = DOMAIN types /\ types' \in Seq(TypeNode)
  <2>1. types' = [i \in DOMAIN types |-> types'[i]] /\ DOMAIN types' = DOMAIN types
    BY <1>1 DEF ResolvedTypes
  <2>2. DOMAIN types = 1..Len(types) /\ Len(types) \in Nat
    BY <1>3
  <2> DEFINE T == TypeNode
  <2>3. \A i \in 1..Len(types) : types'[i] \in T
    BY <1>9, <2>2
  <2> HIDE DEF T
  <2>4. types' \in [1..Len(types) -> T]
    BY <2>1, <2>2, <2>3
  <2> QED
    BY <2>1, <2>2, <2>4, SeqDef DEF T
<1>11. errors' \in BOOLEAN /\ (errors => errors')
  BY <1>1
<1>12. /\ NodesOK' /\ ScopesAreBlocks' /\ ExportsAreInScope' /\ UsedIsVisible' /\ WrittenLast'
       /\ ExportsAreComplete'
  <2>1. \A i \in DOMAIN types : types'[i].kind = types[i].kind
    BY <1>9
  <2> QED
    BY <1>1, <1>2, <1>10, <1>11, <2>1, NothingDeclared
<1>13. PointersAreComplete'
  <2>1. forwards' \in Seq([ref : Names, pointer : Nat])
    BY <1>1
  <2> SUFFICES ASSUME ~errors', NEW i \in DOMAIN types, types'[i].kind = "pointer"
               PROVE  types'[i].base \in DOMAIN types /\ types[types'[i].base].kind = "record"
    BY <1>1, <1>9, <1>10, <2>1 DEF PointersAreComplete
  <2>2. \A f \in Range(forwards) : types[TypeReference(table, f.ref)].kind = "record"
    BY <1>1 DEF IsBadBase
  <2>3. types[i].kind = "pointer" /\ ~errors
    BY <1>9, <1>11
  <2>4. CASE Found(i)
    <3>1. chosen(i) \in Range(forwards)
      BY <1>7, <1>8, <2>4
    <3> QED
      BY <1>5, <1>9, <2>2, <2>4, <3>1
  <2>5. CASE ~Found(i)
    <3>1. Waits(i) \/ (types[i].base \in DOMAIN types /\ types[types[i].base].kind = "record")
      BY <2>3 DEF IInv, PointersAreComplete, Waits
    <3>2. types[NoTy].kind # "record"
      BY DEF IInv, NodesOK
    <3>3. Waits(i) => Found(i)
      BY <2>2, <3>2 DEF Waits, Found
    <3> QED
      BY <1>9, <2>5, <3>1, <3>3
  <2> QED
    BY <2>4, <2>5
<1> QED
  BY <1>2, <1>11, <1>12, <1>13 DEF IInv

\* Sema::onProcedureDefinitionEnd goes back to the procedures of the block
\* around this one.
LEMMA EndProcedureStep ==
  ASSUME IInv, NEW good \in BOOLEAN, EndProcedure(good)
  PROVE  IInv'
<1> DEFINE B == [proc : Nat, phase : Nat]
<1>1. /\ blocks # <<>> /\ Len(blocks) > 1 /\ blocks' = SubSeq(blocks, 1, Len(blocks) - 1)
      /\ table' = CloseScope(table) /\ (errors => errors') /\ errors' \in BOOLEAN /\ used' = NoDecl
      /\ decls' = decls /\ types' = types /\ forwards' = forwards /\ written' = written
      /\ forwards = <<>>
  BY DEF EndProcedure, InBody, Front, IInv, PointersAreComplete
<1>2. /\ InModule(table, Declared) /\ ~written /\ table.level = Len(blocks)
      /\ Len(blocks) \in Nat \ {0}
  BY <1>1, BlockFacts
<1>3. blocks \in Seq(B) /\ (\A l \in 1..(Len(blocks) - 1) : blocks[l].phase = Procs) /\ blocks[1].proc = 0
  BY <1>1 DEF IInv, BlocksOK
<1> HIDE DEF B
<1>4. /\ blocks' \in Seq(B) /\ Len(blocks') = Len(blocks) - 1 /\ blocks' # <<>>
      /\ \A l \in 1..(Len(blocks) - 1) : blocks'[l] = blocks[l]
  <2> DEFINE k == Len(blocks) - 1
  <2>0. Len(blocks) \in Nat /\ Len(blocks) > 1
    BY <1>1, <1>2
  <2>1. k \in Nat /\ k > 0 /\ k <= Len(blocks)
    <3> DEFINE n == Len(blocks)
    <3>1. n \in Nat /\ n > 1 /\ k = n - 1
      BY <2>0
    <3> HIDE DEF n, k
    <3> QED
      BY <3>1 DEF n
  <2> HIDE DEF k
  <2>2. /\ SubSeq(blocks, 1, k) \in Seq(B) /\ Len(SubSeq(blocks, 1, k)) = k
        /\ \A l \in 1..k : SubSeq(blocks, 1, k)[l] = blocks[l]
    BY <1>3, <2>1
  <2>3. blocks' = SubSeq(blocks, 1, k)
    BY <1>1 DEF k
  <2>4. blocks' # <<>>
    BY <2>1, <2>2, <2>3
  <2> QED
    BY <2>2, <2>3, <2>4 DEF k
<1>5. BlocksOK' /\ blocks'[Len(blocks')].phase = Procs
  <2>1. Len(blocks') \in 1..(Len(blocks) - 1) /\ 1 \in 1..(Len(blocks) - 1)
    BY <1>1, <1>2, <1>4
  <2>2. \A l \in 1..(Len(blocks') - 1) : l \in 1..(Len(blocks) - 1)
    BY <1>1, <1>2, <1>4
  <2> QED
    BY <1>3, <1>4, <2>1, <2>2 DEF BlocksOK, B
<1>6. ASSUME NEW l \in 0..(table.level - 1) PROVE Declared[l] = Declared'[l]
  <2>1. l \in 0..Len(blocks) /\ l \in 0..Len(blocks') /\ (l # 0 => l \in 1..(Len(blocks) - 1))
    BY <1>1, <1>2, <1>4
  <2> QED
    BY <1>1, <1>4, <2>1 DEF Declared
<1>7. InModule(table', Declared') /\ table'.level = table.level - 1 /\ table'.scopes = table.scopes
  <2>1. table.level > 0
    BY <1>2
  <2> QED
    BY <1>1, <1>2, <1>6, <2>1, CloseInModule
<1>8. ScopesAreBlocks' /\ ExportsAreInScope'
  BY <1>1, <1>2, <1>4, <1>7, InModuleHasModule DEF ScopesAreBlocks, ExportsAreInScope, IInv
<1>9. NodesOK'
  BY <1>1 DEF NodesOK, IInv
<1>10. PointersAreComplete'
  BY <1>1 DEF PointersAreComplete, IInv
<1>11. UsedIsVisible' /\ WrittenLast' /\ ExportsAreComplete'
  BY <1>1, <1>2 DEF UsedIsVisible, WrittenLast, ExportsAreComplete
<1> QED
  BY <1>1, <1>5, <1>8, <1>9, <1>10, <1>11 DEF IInv

\* Sema::onModuleEnd and onTranslationUnitEnd: the scope of the module holds
\* its exported declarations, and is read after it was closed.
LEMMA EndModuleStep ==
  ASSUME IInv, NEW good \in BOOLEAN, EndModule(good)
  PROVE  IInv'
<1> DEFINE scope == table.scopes[Self][2]
<1>1. /\ blocks # <<>> /\ Len(blocks) = 1 /\ blocks' = <<>> /\ table' = CloseScope(table)
      /\ (errors => errors') /\ errors' \in BOOLEAN /\ used' = NoDecl
      /\ decls' = decls /\ types' = types /\ forwards' = forwards
      /\ \/ ~errors' /\ symfile' = ExportedSymbols(table'.scopes[Self][2])
         \/ written' = written
  BY DEF EndModule, InBody, WritesSymbolFile, ModuleScope
<1>2. InModule(table, Declared) /\ ~written /\ table.level = 1
  BY <1>1, BlockFacts
<1>3. InModule(table', Declared') /\ table'.level = 0 /\ table'.scopes = table.scopes
  <2>1. \A l \in 0..(table.level - 1) : Declared[l] \subseteq Declared'[l]
    BY <1>1, <1>2 DEF Declared
  <2>2. table.level > 0 /\ table.level - 1 = 0
    BY <1>2
  <2> QED
    BY <1>1, <1>2, <2>1, <2>2, CloseInModule
<1>4. BlocksOK' /\ ScopesAreBlocks' /\ HasModule(table, Self)'
  <2>1. HasModule(table', Self)
    BY <1>3, InModuleHasModule
  <2> QED
    BY <1>1, <1>3, <2>1 DEF BlocksOK, ScopesAreBlocks
<1>5. NodesOK'
  BY <1>1 DEF NodesOK, IInv
<1>6. PointersAreComplete'
  BY <1>1 DEF PointersAreComplete, InBody, IInv
<1>7. UsedIsVisible' /\ WrittenLast' /\ ExportsAreInScope'
  BY <1>1, <1>4 DEF UsedIsVisible, WrittenLast, ExportsAreInScope
<1>8. ASSUME ~errors'
      PROVE  /\ ExportedSymbols(scope) = {d \in DOMAIN decls : decls[d].exported}
             /\ \A d \in ExportedSymbols(scope) : decls[d].home = 0 /\ decls[d].scope = 1
  <2>1. blocks[1].proc = 0
    BY <1>1 DEF IInv, BlocksOK
  <2>2. Range(scope.symbols) \subseteq Declared[1]
    <3>1. ScopeOf(table.scopes[Self][1 + 1], Declared[1])
      BY <1>2 DEF InModule
    <3> QED
      BY <3>1 DEF ScopeOf, Range
  <2>3. Declared[1] = {d \in DOMAIN decls : decls[d].home = 0 /\ decls[d].scope = 1}
    BY <1>1, <2>1 DEF Declared
  <2>4. \A d \in DOMAIN decls : decls[d].exported => d \in Range(scope.symbols) /\ decls[d].kind # "param"
    BY <1>1, <1>8 DEF IInv, ExportsAreInScope, NodesOK
  <2> QED
    BY <2>2, <2>3, <2>4 DEF ExportedSymbols
<1>9. ExportsAreComplete'
  <2> SUFFICES ASSUME written' PROVE ExportsAreComplete'
    BY DEF ExportsAreComplete
  <2>1. ~errors' /\ symfile' = ExportedSymbols(scope)
    BY <1>1, <1>2, <1>3
  <2> HIDE DEF scope
  <2> QED
    BY <1>1, <1>8, <2>1 DEF ExportsAreComplete
<1> QED
  BY <1>1, <1>4, <1>5, <1>6, <1>7, <1>9 DEF IInv

\* Sema::onTranslationUnitStart and onModuleStart.
LEMMA StartModuleStep ==
  ASSUME IInv, StartModule
  PROVE  IInv'
<1> DEFINE t == AddModule(table, Self, TRUE)
           S == [l \in Nat |-> {}]
<1>1. /\ ~HasModule(table, Self) /\ table' = OpenScope(t) /\ blocks' = << [proc |-> 0, phase |-> Consts] >>
      /\ decls' = decls /\ types' = types /\ forwards' = forwards /\ errors' = errors /\ used' = used
      /\ written' = written
  BY DEF StartModule
<1>2. /\ blocks = <<>> /\ used = NoDecl /\ \A d \in DOMAIN decls : ~decls[d].exported
      /\ table.scopes = [m \in Modules |-> table.scopes[m]] /\ ScopeOf(table.universe, {PredefinedDecl})
      /\ ~written
  BY <1>1 DEF IInv, ScopesAreBlocks, WrittenLast
<1>3. /\ t.module = Self /\ t.level = 0 /\ t.universe = table.universe
      /\ t.scopes = [table.scopes EXCEPT ![Self] = <<EmptyScope>>]
  BY DEF AddModule
<1> HIDE DEF t
<1>4. t.scopes[Self] = <<EmptyScope>> /\ t.scopes = [m \in Modules |-> t.scopes[m]]
  BY <1>2, <1>3, SelfAssumption
<1>5. InModule(t, S)
  <2> DEFINE T == AnyScope
  <2>1. EmptyScope \in T
    BY EmptyScopeOf DEF ScopeOf
  <2> DEFINE e == EmptyScope
             chain == t.scopes[Self]
  <2> HIDE DEF T, e, chain
  <2>4. <<e>> \in Seq(T) /\ Len(<<e>>) = 1 /\ <<e>>[1] = e
    BY <2>1 DEF e
  <2>5. chain = <<e>>
    BY <1>4 DEF e, chain
  <2>2. t.scopes[Self] \in Seq(T) /\ Len(t.scopes[Self]) = 1 /\ t.scopes[Self][1] = EmptyScope
    BY <2>4, <2>5 DEF e, chain
  <2>3. \A l \in 0..t.level : ScopeOf(t.scopes[Self][l + 1], S[l])
    <3>1. \A l \in 0..t.level : l + 1 = 1
      BY <1>3
    <3> QED
      BY <2>2, <3>1, EmptyScopeOf
  <2> HIDE DEF S
  <2>6. t.level \in Nat /\ t.level < Len(t.scopes[Self])
    BY <1>3, <2>2
  <2>7. t.scopes[Self] \in Seq(AnyScope) /\ ScopeOf(t.universe, {PredefinedDecl})
    BY <1>2, <1>3, <2>2 DEF T
  <2> QED
    BY <1>3, <1>4, <2>3, <2>6, <2>7 DEF InModule
<1>6. Declared'[0] = {} /\ S[0] = {}
  BY DEF Declared
<1>7. InModule(table', Declared') /\ table'.level = 1
  <2>1. \A l \in 0..t.level : S[l] = Declared'[l]
    BY <1>3, <1>6
  <2> HIDE DEF S
  <2>2. InModule(OpenScope(t), Declared') /\ OpenScope(t).level = t.level + 1
    BY <1>5, <2>1, OpenInModule
  <2> QED
    BY <1>1, <1>3, <2>2
<1>8. Len(blocks') = 1 /\ blocks' # <<>> /\ BlocksOK' /\ Phase' = Consts
  BY <1>1 DEF BlocksOK, Phase, Top, Last, Consts
<1>9. ScopesAreBlocks'
  BY <1>7, <1>8, InModuleHasModule DEF ScopesAreBlocks
<1>10. NodesOK'
  BY <1>1 DEF NodesOK, IInv
<1>11. PointersAreComplete'
  BY <1>1, <1>8 DEF PointersAreComplete, InBody, Consts, Body, IInv
<1>12. ExportsAreInScope' /\ UsedIsVisible' /\ WrittenLast' /\ ExportsAreComplete'
  BY <1>1, <1>2 DEF ExportsAreInScope, UsedIsVisible, WrittenLast, ExportsAreComplete
<1> QED
  BY <1>1, <1>8, <1>9, <1>10, <1>11, <1>12 DEF IInv

---------------------------------------------------------------------------
(* The theorems.                                                           *)

\* Before the module there are the predefined identifiers only.
LEMMA InitIsGood == Init => IInv
<1> SUFFICES ASSUME Init PROVE IInv
  OBVIOUS
<1> DEFINE start == CloseScope(OpenScope(AddModule(EmptyTable, System, TRUE)))
           node == [kind |-> "type", name |-> Predefined, type |-> BasicTy,
                    scope |-> 0, exported |-> FALSE, home |-> -1]
           notype == [kind |-> "notype", base |-> 0, public |-> FALSE, decl |-> 0]
           basic == [kind |-> "basic", base |-> 0, public |-> FALSE, decl |-> PredefinedDecl]
<1>1. /\ table = InsertGlobal(start, Predefined, PredefinedDecl)
      /\ decls = <<node>> /\ types = <<notype, basic>>
      /\ forwards = <<>> /\ blocks = <<>> /\ errors = FALSE /\ used = NoDecl /\ written = FALSE
  BY DEF Init, InitialTable
<1>2. node \in DeclNode /\ ~node.exported /\ node.home = -1 /\ node.type = BasicTy
  BY SelfAssumption DEF DeclNode, DeclKinds, BasicTy
<1>3. /\ notype \in TypeNode /\ basic \in TypeNode /\ notype.kind = "notype" /\ basic.kind = "basic"
  BY DEF TypeNode, TypeKinds, PredefinedDecl
<1> HIDE DEF node, notype, basic
<1>4. /\ decls \in Seq(DeclNode) /\ DOMAIN decls = {1} /\ decls[1] = node
      /\ types \in Seq(TypeNode) /\ DOMAIN types = {1, 2} /\ types[1] = notype /\ types[2] = basic
  <2> DEFINE T == DeclNode
             U == TypeNode
  <2>1. node \in T /\ notype \in U /\ basic \in U
    BY <1>2, <1>3
  <2> HIDE DEF T, U
  <2>2. <<node>> \in Seq(T) /\ DOMAIN <<node>> = {1} /\ <<node>>[1] = node
    BY <2>1
  <2>3. /\ <<notype, basic>> \in Seq(U) /\ DOMAIN <<notype, basic>> = {1, 2}
        /\ <<notype, basic>>[1] = notype /\ <<notype, basic>>[2] = basic
    BY <2>1
  <2> QED
    BY <1>1, <2>2, <2>3 DEF T, U
<1>5. NodesOK
  BY <1>2, <1>3, <1>4 DEF NodesOK, PredefinedDecl, NoTy, BasicTy
<1>6. BlocksOK
  BY <1>1, SMTT(30) DEF BlocksOK
<1>7. start.universe = EmptyScope
  BY DEF CloseScope, OpenScope, MoveTo, WithChain, AddModule, EmptyTable
<1>8. start.scopes = [m \in Modules |-> start.scopes[m]] /\ start.scopes[Self] = <<>>
  <2>1. \E c : start.scopes = [[[m \in Modules |-> <<>>] EXCEPT ![System] = <<EmptyScope>>] EXCEPT ![System] = c]
    BY DEF CloseScope, OpenScope, MoveTo, WithChain, AddModule, EmptyTable
  <2> HIDE DEF start
  <2> QED
    BY <2>1, SelfAssumption
<1> HIDE DEF start
<1>9. ScopeOf(table.universe, {PredefinedDecl}) /\ table.scopes = start.scopes
  <2>1. ScopeOf(ScopeInsert(EmptyScope, Predefined, PredefinedDecl), {PredefinedDecl})
    BY EmptyScopeOf, InsertInScope, SelfAssumption DEF PredefinedDecl
  <2> QED
    BY <1>1, <1>7, <2>1 DEF InsertGlobal
<1>10. ScopesAreBlocks
  <2>1. ~HasModule(table, Self)
    BY <1>8, <1>9 DEF HasModule
  <2>2. \A d \in DOMAIN decls : ~decls[d].exported
    BY <1>2, <1>4
  <2> QED
    BY <1>1, <1>8, <1>9, <2>1, <2>2 DEF ScopesAreBlocks
<1>11. PointersAreComplete
  BY <1>1, <1>3, <1>4 DEF PointersAreComplete, InBody
<1>12. ExportsAreInScope /\ UsedIsVisible /\ WrittenLast /\ ExportsAreComplete
  BY <1>1 DEF ExportsAreInScope, UsedIsVisible, WrittenLast, ExportsAreComplete
<1> QED
  BY <1>1, <1>5, <1>6, <1>10, <1>11, <1>12 DEF IInv

\* Nothing changes.
LEMMA StutterKeeps ==
  ASSUME IInv, UNCHANGED vars
  PROVE  IInv'
<1>1. /\ table' = table /\ decls' = decls /\ types' = types /\ forwards' = forwards /\ blocks' = blocks
      /\ errors' = errors /\ used' = used /\ written' = written /\ symfile' = symfile
  BY DEF vars
<1> QED
  BY <1>1 DEF IInv, NodesOK, BlocksOK, ScopesAreBlocks, Declared, InModule, HasModule, ExportsAreInScope,
              PointersAreComplete, InBody, Phase, Top, UsedIsVisible, Open, WrittenLast, ExportsAreComplete

\* Every action keeps the invariant.
LEMMA NextKeeps ==
  ASSUME IInv, [Next]_vars
  PROVE  IInv'
<1>1. CASE StartModule
  BY <1>1, StartModuleStep
<1>2. ASSUME NEW n \in Names, NEW x \in BOOLEAN, ConstDeclaration(n, x)
      PROVE  IInv'
  BY <1>2, ConstDeclarationStep
<1>3. ASSUME NEW n \in Names, NEW x \in BOOLEAN, NEW public \in BOOLEAN, RecordDeclaration(n, x, public)
      PROVE  IInv'
  BY <1>3, RecordDeclarationStep
<1>4. ASSUME NEW n \in Names, NEW x \in BOOLEAN, PointerToRecordDeclaration(n, x)
      PROVE  IInv'
  BY <1>4, PointerToRecordDeclarationStep
<1>5. ASSUME NEW n \in Names, NEW x \in BOOLEAN, NEW p \in Names, NEW ref \in Names,
             NEW named \in BOOLEAN, NEW good \in BOOLEAN, ExternalProcedure(n, x, p, ref, named, good)
      PROVE  IInv'
  BY <1>5, ExternalProcedureStep
<1>18. ASSUME NEW n \in Names, NEW x \in BOOLEAN, NEW named \in BOOLEAN, NEW good \in BOOLEAN,
              ExternalCommand(n, x, named, good)
       PROVE  IInv'
  BY <1>18, ExternalCommandStep
<1>19. CASE ExternalHeaderMissing
  BY <1>19, ExternalHeaderStep
<1>6. ASSUME NEW n \in Names, NEW x \in BOOLEAN, StartProcedure(n, x)
      PROVE  IInv'
  BY <1>6, StartProcedureStep
<1>7. ASSUME NEW n \in Names, NEW x \in BOOLEAN, NEW ref \in Names, AliasDeclaration(n, x, ref)
      PROVE  IInv'
  BY <1>7, AliasDeclarationStep
<1>8. ASSUME NEW n \in Names, NEW x \in BOOLEAN, NEW ref \in Names,
             PointerDeclaration(n, x, ref) \/ PointerVarDeclaration(n, x, ref)
      PROVE  IInv'
  BY <1>8, PointerDeclarationStep
<1>9. ASSUME NEW n \in Names, NEW x \in BOOLEAN, NEW ref \in Names, VarDeclaration(n, x, ref)
      PROVE  IInv'
  BY <1>9, VarDeclarationStep
<1>10. ASSUME NEW n \in Names, NEW x \in BOOLEAN, NEW ref \in Names, NEW p \in Names,
              ProcedureTypeDeclaration(n, x, p, ref)
       PROVE  IInv'
  BY <1>10, ProcedureTypeDeclarationStep
<1>11. ASSUME NEW n \in Names, NEW ref \in Names, Parameter(n, ref)
       PROVE  IInv'
  BY <1>11, ParameterStep
<1>12. CASE EndFormals
  BY <1>12, EndFormalsStep
<1>13. CASE EndDeclarations
  BY <1>13, EndDeclarationsStep
<1>14. ASSUME NEW n \in Names, Reference(n)
       PROVE  IInv'
  BY <1>14, ReferenceStep
<1>15. ASSUME NEW good \in BOOLEAN, EndProcedure(good)
       PROVE  IInv'
  BY <1>15, EndProcedureStep
<1>16. ASSUME NEW good \in BOOLEAN, EndModule(good)
       PROVE  IInv'
  BY <1>16, EndModuleStep
<1>17. CASE UNCHANGED vars
  BY <1>17, StutterKeeps
<1> QED
  BY <1>1, <1>2, <1>3, <1>4, <1>5, <1>6, <1>7, <1>8, <1>9, <1>10, <1>11, <1>12, <1>13, <1>14, <1>15,
     <1>16, <1>17, <1>18, <1>19 DEF Next

\* In every behaviour the scopes, the nodes and the blocks fit together.
THEOREM Invariance == Spec => []IInv
<1>1. Init => IInv
  BY InitIsGood
<1>2. IInv /\ [Next]_vars => IInv'
  BY NextKeeps
<1> QED
  BY <1>1, <1>2, PTL DEF Spec

\* The level of the symbol table is the nesting of the blocks, for every
\* depth: Sema closes exactly the scopes it opened.
THEOREM NestingTheorem == Spec => []LevelIsNesting
<1>1. IInv => LevelIsNesting
  BY DEF IInv, ScopesAreBlocks, LevelIsNesting
<1> QED
  BY <1>1, Invariance, PTL

\* A body is parsed with every pointer type of the blocks around it resolved,
\* to a record unless an error was reported.
THEOREM PointersTheorem == Spec => []BodiesSeeRecords
<1>1. IInv => BodiesSeeRecords
  <2> SUFFICES ASSUME IInv, InBody PROVE BodiesSeeRecords
    BY DEF BodiesSeeRecords
  <2>1. forwards = <<>>
    BY DEF IInv, PointersAreComplete
  <2>2. \A f \in Range(forwards) : FALSE
    BY <2>1 DEF Range
  <2> QED
    BY <2>1, <2>2 DEF IInv, PointersAreComplete, BodiesSeeRecords
<1> QED
  BY <1>1, Invariance, PTL

\* A name is resolved to a declaration of an open block or a predefined one,
\* however many closed scopes the table still holds.
THEOREM VisibilityTheorem == Spec => []ReferencesAreVisible
<1>1. IInv => ReferencesAreVisible
  BY DEF IInv, UsedIsVisible, ReferencesAreVisible
<1> QED
  BY <1>1, Invariance, PTL

\* A symbol file is written for a module without errors only, and holds
\* exactly the declarations that the module exports.
THEOREM ExportsTheorem == Spec => []ExportsAreComplete
<1>1. IInv => ExportsAreComplete
  BY DEF IInv
<1> QED
  BY <1>1, Invariance, PTL
=============================================================================
