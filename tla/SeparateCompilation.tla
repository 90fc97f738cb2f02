------------------------- MODULE SeparateCompilation -------------------------
(***************************************************************************)
(* Separate compilation: modules are compiled one after the other, each by *)
(* a run of the compiler of its own, and know each other only through the  *)
(* symbol files that SymbolExporter writes and SymbolImporter reads        *)
(* (Parser::import_list, Sema::onImport, Sema::onTranslationUnitEnd).      *)
(*                                                                         *)
(* The text of a module is nondeterministic: an import list and any        *)
(* sequence of the declarations that the project offers for the module m,  *)
(* project.texts[m].  A type expression is one of                          *)
(*   [form |-> "name", ref]         [form |-> "array", of]                 *)
(*   [form |-> "pointer", ref]      [form |-> "record", ref, parts]        *)
(*   [form |-> "procedure", ref, parts]                                    *)
(* where ref = [module, name] is a (qualified) identifier, NoRef for none, *)
(* and every part has a name, exported, var, seqId and a type expression.  *)
(* Only texts that the semantic analysis accepts are exported.             *)
(***************************************************************************)
EXTENDS SymbolExporter, SymbolImporter, FiniteSets

CONSTANTS
  Predefined,   \* a predefined type identifier, INTEGER
  Projects,     \* what may be compiled, records of
                \*   texts, its modules and the declarations that may occur in each
                \*   imports, the modules that a module may import
                \*   size, a bound: declarations in a module
  Aliases,      \* the aliases a module may be imported under
  Recompile     \* whether a module is compiled again after its first time

Idle == <<>>
NoRef == [module |-> NoModule, name |-> NoName]

VARIABLES
  project,      \* the member of Projects that is compiled
  files,        \* the symbol files on disk, <<>> for none
  c,            \* the compilation that runs; Idle: none does
  phase,        \* "idle", "imports" or "declarations"
  imported,     \* the modules it imported, in this order
  interfaces    \* ghost: what the compilation exported that wrote the symbol file

vars == <<project, files, c, phase, imported, interfaces>>

---------------------------------------------------------------------------
(* The front end: from a text to the nodes of the AST.                     *)

\* Sema::onTypeReference; NOTYPE if the name is no type.
Resolve(k, ref) ==
  LET d == IF ref = NoRef THEN NoDecl
           ELSE IF ref.module = NoModule THEN Lookup(k.table, ref.name)
           ELSE LookupQualified(k.table, ref.module, ref.name)
  IN  IF d # NoDecl /\ k.decls[d].kind = NodeType.type THEN k.decls[d].type ELSE TypeKind.NOTYPE

\* The result of a construction: the compilation and the type.
Built(k, type) == [k |-> k, type |-> type]

RECURSIVE Build(_, _)

\* Parser::field_list: the types of the parts of a list, one after the other.
BuildParts(k, parts) ==
  FoldLeft(LAMBDA b, p :
             LET t == IF p.seqId = 0 THEN Build(b.k, p.type)
                      ELSE Built(b.k, Last(b.parts).type)
             IN  [k |-> t.k, parts |-> Append(b.parts, [p EXCEPT !.type = t.type])],
           [k |-> k, parts |-> <<>>], parts)

\* Parser::type with Sema::onArrayType, onRecordType, onProcedureType and
\* onPointerTypeStart; the base of a pointer stays in forwards_.
Build(k, e) ==
  CASE e.form = "name" -> Built(k, Resolve(k, e.ref))
    [] e.form = "array" ->
         LET member == Build(k, e.of)
         IN  Built(NewNode(member.k, TypeKind.ARRAY, member.type, <<>>), NewType(member.k))
    [] e.form = "pointer" ->
         LET p == NewNode(k, TypeKind.POINTER, TypeKind.NOTYPE, <<>>)
         IN  Built([p EXCEPT !.forwards = Append(@, <<e.ref, NewType(k)>>)], NewType(k))
    [] e.form = "record" ->
         LET b == BuildParts(k, e.parts)
             base == IF e.ref = NoRef THEN Null ELSE Resolve(k, e.ref)
         IN  Built(NewNode(b.k, TypeKind.RECORD, base, b.parts), NewType(b.k))
    [] e.form = "procedure" ->
         LET b == BuildParts(k, e.parts)
         IN  Built(NewNode(b.k, TypeKind.PROCEDURE, Resolve(k, e.ref), b.parts), NewType(b.k))

\* The declaration of a text in the current scope; a pointer type is declared
\* before its base is looked at, which makes no difference here.
Enter(k, text) ==
  LET b == Build(k, text.expr)
      d == Len(k.decls) + 1
  IN  [NewDecl(b.k, text.kind, k.unit, text.name, b.type, text.exported)
         EXCEPT !.table = Insert(@, text.name, d)]

\* No part of a text is NOTYPE, the type of an undefined name.
RECURSIVE WellTyped(_, _)
WellTyped(k, e) ==
  CASE e.form = "name" -> Resolve(k, e.ref) # TypeKind.NOTYPE
    [] e.form = "array" -> WellTyped(k, e.of)
    [] e.form = "pointer" -> TRUE
    [] e.form = "record" ->
         /\ e.ref # NoRef => KindOf(k, Resolve(k, e.ref)) = TypeKind.RECORD
         /\ \A i \in DOMAIN e.parts : WellTyped(k, e.parts[i].type)
    [] e.form = "procedure" ->
         /\ e.ref # NoRef => Resolve(k, e.ref) # TypeKind.NOTYPE
         /\ \A i \in DOMAIN e.parts : WellTyped(k, e.parts[i].type)

\* The text is accepted: unique names, defined types, and only an exported
\* record exports fields (Sema::assertUnique, onTypeReference, checkExport).
Legal(k, text) ==
  LET k2 == Enter(k, text)
      type == Last(k2.decls).type
  IN  /\ ~IsDuplicate(k.table, text.name) /\ ~IsGlobal(k.table, text.name)
      /\ WellTyped(k, text.expr)
      /\ text.kind = NodeType.type /\ ~text.exported /\ KindOf(k2, type) = TypeKind.RECORD
           => \A i \in DOMAIN NodeOf(k2, type).parts : ~NodeOf(k2, type).parts[i].exported

\* Sema::onDeclarations: the bases of the pointer types, which must be records.
ResolveForwards(k) ==
  FoldLeft(LAMBDA b, f :
             LET base == Resolve(b, f[1])
                 bad == [b EXCEPT !.errors = @ \/ KindOf(b, base) # TypeKind.RECORD]
             IN  IF base = TypeKind.NOTYPE THEN bad ELSE SetBase(bad, f[2], base),
           [k EXCEPT !.forwards = <<>>], k.forwards)

---------------------------------------------------------------------------
(* The compiler.                                                           *)

\* Sema::onTranslationUnitStart in a new run of the compiler.
NewCompilation(m) ==
  [unit |-> m,
   table |-> OpenScope(AddModule(InsertGlobal(InitialTable, Predefined, 1), m, TRUE)),
   decls |-> << [kind |-> NodeType.type, module |-> System, name |-> Predefined,
                 type |-> TypeKind.INTEGER, exported |-> FALSE] >>,
   heap |-> <<>>, ext |-> {}, forwards |-> <<>>, xrefs |-> <<>>, fwds |-> <<>>,
   errors |-> FALSE, crashed |-> FALSE, sync |-> TRUE]

StartModule(m) ==
  /\ phase = "idle" /\ c = Idle
  /\ m \in DOMAIN project.texts
  /\ files[m] = <<>> \/ Recompile
  /\ c' = NewCompilation(m)
  /\ phase' = "imports"
  /\ imported' = <<>>
  /\ UNCHANGED <<project, files, interfaces>>

\* Sema::onImport: the symbol file is read, then the alias is set.
OnImport(m, alias) ==
  LET r == ReadFile(c, m, files[m])
      k == IF files[m] = <<>> THEN [c EXCEPT !.errors = TRUE]
           ELSE [r.c EXCEPT !.sync = @ /\ r.sync]
  IN  /\ phase = "imports" /\ ~c.crashed
      /\ m \in project.imports[c.unit] /\ m \notin Range(imported)
      /\ c' = IF alias = NoModule THEN k ELSE [k EXCEPT !.table = AddAlias(@, alias, m)]
      /\ imported' = Append(imported, m)
      /\ UNCHANGED <<project, files, phase, interfaces>>

EndImports ==
  /\ phase = "imports" /\ ~c.crashed
  /\ phase' = "declarations"
  /\ UNCHANGED <<project, files, c, imported, interfaces>>

DeclareText(text) ==
  /\ phase = "declarations" /\ ~c.errors
  /\ text \in project.texts[c.unit]
  /\ Len(SelectSeq(c.decls, LAMBDA d : d.module = c.unit)) < project.size
  /\ Legal(c, text)
  /\ c' = Enter(c, text)
  /\ UNCHANGED <<project, files, phase, imported, interfaces>>

\* What the module exports.
Interface(k) == [unit |-> k.unit, heap |-> k.heap, decls |-> k.decls, exports |-> Range(Exports(k))]

\* The end of the declarations and of the module: Sema::onDeclarations, then
\* Sema::onTranslationUnitEnd, which writes the symbol file of a module
\* without errors.
EndModule ==
  LET k == [ResolveForwards(c) EXCEPT !.table = CloseScope(@)]
      w == Write(k)
  IN  /\ phase = "declarations"
      /\ phase' = "idle"
      /\ CASE k.errors  -> c' = Idle /\ UNCHANGED <<files, interfaces>>
           [] ~k.errors /\ w.loops -> c' = [k EXCEPT !.crashed = TRUE] /\ UNCHANGED <<files, interfaces>>
           [] ~k.errors /\ ~w.loops ->
                /\ c' = Idle
                /\ files' = [files EXCEPT ![c.unit] = w.out]
                /\ interfaces' = [interfaces EXCEPT ![c.unit] = Interface(k)]
      /\ imported' = <<>>
      /\ UNCHANGED project

Init ==
  /\ project \in Projects
  /\ files = [m \in Modules |-> <<>>]
  /\ c = Idle
  /\ phase = "idle"
  /\ imported = <<>>
  /\ interfaces = [m \in Modules |-> <<>>]

Next ==
  \/ \E m \in Modules \ {System} : StartModule(m)
  \/ \E m \in Modules, alias \in Aliases \cup {NoModule} : OnImport(m, alias)
  \/ EndImports
  \/ \E text \in UNION Range(project.texts) : DeclareText(text)
  \/ EndModule

Spec == Init /\ [][Next]_vars

---------------------------------------------------------------------------
(* What a client sees of a module.                                         *)

IsLocal(i, t) == ~IsAnonymous(i, t) /\ i.decls[NodeOf(i, t).decl].module = i.unit

\* The same kind of type, with as many parts and VAR where it was.
SameShape(i, j, p) ==
  IF ~IsHeap(p[1]) THEN p[1] = p[2]
  ELSE /\ IsHeap(p[2])
       /\ LET n == NodeOf(i, p[1])  k == NodeOf(j, p[2])
          IN  /\ n.kind = k.kind /\ Len(n.parts) = Len(k.parts)
              /\ \A x \in DOMAIN n.parts : n.parts[x].var = k.parts[x].var

\* A type of the exporting compilation i corresponds to a type of the client
\* j: exported fields keep their names, the client never sees the others'.
Corresponds(i, j, p) ==
  /\ SameShape(i, j, p)
  /\ IsHeap(p[1]) =>
       LET n == NodeOf(i, p[1])  k == NodeOf(j, p[2])
       IN  \A x \in DOMAIN n.parts :
             /\ n.parts[x].exported => k.parts[x].name = n.parts[x].name
             /\ ~n.parts[x].exported /\ n.kind = TypeKind.RECORD /\ IsLocal(i, p[1])
                  => k.parts[x].name = Hidden

\* The pairs of types one step inside two types that correspond.
Inside(i, j, p) ==
  IF ~IsHeap(p[1]) \/ ~SameShape(i, j, p) THEN {}
  ELSE LET n == NodeOf(i, p[1])  k == NodeOf(j, p[2])
       IN  {<<n.base, k.base>>} \cup {<<n.parts[x].type, k.parts[x].type>> : x \in DOMAIN n.parts}

RECURSIVE Closure(_, _, _, _)
Closure(i, j, todo, seen) ==
  IF todo \subseteq seen THEN seen
  ELSE Closure(i, j, UNION {Inside(i, j, p) : p \in todo \ seen}, seen \cup todo)

Exported(m) == interfaces[m].exports
Seen(m, d) == ScopeLookup(c.table.scopes[m][1], interfaces[m].decls[d].name)

\* The types of module m, as it was exported, beside those the client has.
Images(m) ==
  Closure(interfaces[m], c,
          {<<interfaces[m].decls[d].type, c.decls[Seen(m, d)].type>> :
             d \in {e \in Exported(m) : Seen(m, e) # NoDecl}}, {})

\* The types that can be reached from the types T, and from the exports of m.
From(i, T) == {p[1] : p \in Closure(i, i, {<<t, t>> : t \in T}, {})}
Reachable(m) == From(interfaces[m], {interfaces[m].decls[d].type : d \in Exported(m)})

OfKind(m, K) == {t \in Reachable(m) : KindOf(interfaces[m], t) \in K}
BaseOf(m, t) == NodeOf(interfaces[m], t).base

\* Two pointer types never have the same base.
DistinctBases(m) ==
  \A p, q \in OfKind(m, {TypeKind.POINTER}) : p # q => BaseOf(m, p) # BaseOf(m, q)

\* The base of a pointer type is exported if it is a type of the module.
ExportedBases(m) ==
  \A p \in OfKind(m, {TypeKind.POINTER}) :
    LET i == interfaces[m]  b == BaseOf(m, p)
    IN  IsLocal(i, b) => i.decls[NodeOf(i, b).decl].exported

\* No array or procedure type of another module contains itself.
NoForeignCycles(m) ==
  \A t \in OfKind(m, {TypeKind.ARRAY, TypeKind.PROCEDURE}) :
    LET i == interfaces[m]
    IN  IsLocal(i, t) \/ t \notin From(i, {q[1] : q \in Inside(i, i, <<t, t>>)})

\* A type a client can name: exported by its module.
IsVisible(i, t) ==
  /\ IsHeap(t) /\ ~IsAnonymous(i, t)
  /\ IsLocal(i, t) => i.decls[NodeOf(i, t).decl].exported

Portable(m) == DistinctBases(m) /\ ExportedBases(m) /\ NoForeignCycles(m)

\* The imported modules that have a symbol file.
Found == {m \in Range(imported) : files[m] # <<>>}
Clean == phase = "imports" /\ ~c.errors /\ ~c.crashed

VisibleName(i, t) == LET d == i.decls[NodeOf(i, t).decl] IN <<d.module, d.name>>
VisibleImages(m) == {p \in Images(m) : IsVisible(interfaces[m], p[1])}

---------------------------------------------------------------------------
(* Properties *)

\* SymbolImporter reads every token of a symbol file as what SymbolExporter
\* wrote it as: the two agree, although the format has no tags and most of
\* it depends on what was written before.
ReadersInSync == c # Idle => c.sync

\* No compilation dereferences a null type, unless it imports a module with a
\* re-exported array or procedure type that contains itself.
NoCrash == c # Idle /\ (\A m \in Found : NoForeignCycles(m)) => ~c.crashed

\* A client can read the files it imports, and sees of every module what was
\* exported: all exported declarations, and types of the same structure
\* however deep, recursive, re-exported and in whatever order the modules
\* were imported.  Excepted are modules with a pointer type whose base is
\* never written, or is shared, or that re-export a type that contains itself.
ImportsAreFaithful ==
  /\ phase = "imports" /\ Found = Range(imported) /\ (\A m \in Found : Portable(m)) => Clean
  /\ Clean => \A m \in Found : Portable(m) =>
       /\ \A d \in Exported(m) :
            /\ Seen(m, d) # NoDecl
            /\ c.decls[Seen(m, d)].kind = interfaces[m].decls[d].kind
       /\ \A p \in Images(m) : Corresponds(interfaces[m], c, p)

\* A type with a name is one type in a client, whichever and however many
\* modules it was imported through.
TypesAreUnique ==
  Clean => \A m1, m2 \in Found : Portable(m1) /\ Portable(m2) =>
    \A p \in VisibleImages(m1), q \in VisibleImages(m2) :
      VisibleName(interfaces[m1], p[1]) = VisibleName(interfaces[m2], q[1]) => p[2] = q[2]
=============================================================================
