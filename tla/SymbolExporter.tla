--------------------------- MODULE SymbolExporter ---------------------------
(***************************************************************************)
(* The writer of symbol files (lib/data/symtab/SymbolExporter.cpp), as a   *)
(* function of a compilation `c`.  The state of the writer is a record:    *)
(*   c      the compilation, its translation unit is c.unit                *)
(*   out    the file                                                       *)
(*   xref   xref_, the next reference to give                              *)
(*   xrefs  xrefs_, the references of the types already written            *)
(*   fwds   fwds_, the references given to types before they are written   *)
(*   open   the anonymous types being written: the call stack              *)
(*   loops  an anonymous type was met again while it is written; the code  *)
(*          then recurses until its stack overflows                        *)
(***************************************************************************)
EXTENDS SymbolFile

CONSTANT Hidden   \* the name "_" of a field that is not exported

Declaration(w, t) == w.c.decls[NodeOf(w.c, t).decl]

\* SymbolExporter::isExternal
IsExternal(w, t) == Declaration(w, t).module # w.c.unit

\* writePointerType: the base is written later, under this reference.
Forward(w, t) ==
  [WriteChar(w, -w.xref) EXCEPT !.fwds = (t :> w.xref) @@ @, !.xref = @ + 1]

\* Mutant: the reference is not counted.
ReferenceUncounted(w, t) == [WriteChar(w, w.xref) EXCEPT !.xrefs = (t :> w.xref) @@ @]

\* writeType: the reference of a named type, the forward one if it has one.
Reference(w, t) ==
  IF t \in DOMAIN w.fwds
  THEN [WriteChar(w, w.fwds[t]) EXCEPT !.xrefs = (t :> w.fwds[t]) @@ @]
  ELSE [WriteChar(w, w.xref) EXCEPT !.xrefs = (t :> w.xref) @@ @, !.xref = @ + 1]

\* writeType: what precedes the description, 0 for an anonymous type, else
\* the reference and the origin of a re-exported type.
Header(w, t) ==
  IF IsAnonymous(w.c, t) THEN WriteChar(w, 0)
  ELSE IF IsExternal(w, t)
       THEN WriteString(WriteString(Reference(w, t), Declaration(w, t).module),
                        Declaration(w, t).name)
       ELSE WriteString(Reference(w, t), NoName)

\* The guard of writePointerType: a named type of this module not written yet.
IsForward(w, t) == ~IsAnonymous(w.c, t) /\ ~IsExternal(w, t) /\ t \notin DOMAIN w.xrefs

\* writeRecordType: the name of a field that is not exported is hidden, but
\* all names of an external named type are written as they were read.
FieldName(w, t, field) ==
  IF field.exported \/ (~IsAnonymous(w.c, t) /\ IsExternal(w, t)) THEN field.name ELSE Hidden

RECURSIVE WriteType(_, _)

\* writeParameter: only the first of a list of parameters has its type.
WriteParameter(w, p) ==
  LET h == WriteChar(WriteChar(w, NodeType.parameter), IF p.var THEN 0 ELSE 1)
  IN  WriteType(h, IF p.seqId = 0 THEN p.type ELSE Null)

\* The loop of writeRecordType over the fields of t.
WriteField(w, t, field) ==
  LET h == WriteString(WriteInt(WriteChar(w, NodeType.field)), FieldName(w, t, field))
  IN  WriteInt(WriteType(h, IF field.seqId = 0 THEN field.type ELSE Null))

WriteArrayType(w, n) == WriteInt(WriteInt(WriteType(w, n.base)))

WritePointerType(w, n) ==
  IF IsForward(w, n.base) THEN Forward(w, n.base) ELSE WriteType(w, n.base)

\* Mutant: the list of parameters has no end.
WriteProcedureTypeUnterminated(w, n) ==
  FoldLeft(LAMBDA v, p : WriteParameter(v, p), WriteType(w, n.base), n.parts)

WriteProcedureType(w, n) ==
  WriteChar(FoldLeft(LAMBDA v, p : WriteParameter(v, p), WriteType(w, n.base), n.parts), 0)

WriteRecordType(w, t, n) ==
  LET base == WriteType(w, n.base)
      exno == WriteChar(base, IF IsAnonymous(w.c, t) THEN 0 ELSE -1)
      counts == WriteInt(WriteInt(exno))
  IN  WriteChar(FoldLeft(LAMBDA v, f : WriteField(v, t, f), counts, n.parts), 0)

\* The description of a type that was not written before.
Describe(w, t) ==
  LET n == NodeOf(w.c, t)
      v == WriteChar(Header(w, t), n.kind)
  IN  CASE n.kind = TypeKind.ARRAY     -> WriteArrayType(v, n)
        [] n.kind = TypeKind.POINTER   -> WritePointerType(v, n)
        [] n.kind = TypeKind.PROCEDURE -> WriteProcedureType(v, n)
        [] n.kind = TypeKind.RECORD    -> WriteRecordType(v, t, n)

WriteType(w, t) ==
  IF t \in {Null, TypeKind.NOTYPE} THEN WriteChar(w, -TypeKind.NOTYPE)
  ELSE IF ~IsHeap(t) THEN WriteChar(w, -t)
  ELSE IF t \in DOMAIN w.xrefs THEN WriteChar(w, -w.xrefs[t])
  ELSE IF t \in w.open THEN [w EXCEPT !.loops = TRUE]
  ELSE IF IsAnonymous(w.c, t)
       THEN [Describe([w EXCEPT !.open = @ \cup {t}], t) EXCEPT !.open = w.open]
       ELSE Describe(w, t)

\* writeDeclaration: the value of a constant is written by its type, a
\* constant procedure and a variable have an export number.  Four basic types
\* stand for all that have constants.
ValueTag == (TypeKind.BOOLEAN :> "char") @@ (TypeKind.CHAR :> "char")
            @@ (TypeKind.INTEGER :> "int") @@ (TypeKind.SET :> "int")

WriteDeclaration(w, d) ==
  LET decl == w.c.decls[d]
      v == WriteType(WriteString(WriteChar(w, decl.kind), decl.name), decl.type)
  IN  CASE decl.kind = NodeType.variable -> WriteChar(v, -1)
        [] decl.kind = NodeType.constant ->
             IF KindOf(w.c, decl.type) = TypeKind.PROCEDURE THEN WriteChar(v, -1)
             ELSE Put(v, ValueTag[decl.type], 0)
        [] OTHER -> v

\* Scope::getExportedSymbols, in the order of their declaration.
Exports(c) ==
  SelectSeq(ModuleScope(c.table, c.unit).symbols, LAMBDA d : c.decls[d].exported)

\* SymbolExporter::write
Write(c) ==
  LET start == [c |-> c, out |-> <<>>, xref |-> TypeKind.TYPE + 1, xrefs |-> <<>>,
                fwds |-> <<>>, open |-> {}, loops |-> FALSE]
      header == WriteChar(WriteString(Put(start, "long", 0), c.unit), Version)
  IN  WriteChar(FoldLeft(LAMBDA w, d : WriteDeclaration(w, d), header, Exports(c)), 0)
=============================================================================
