--------------------------- MODULE SymbolImporter ---------------------------
(***************************************************************************)
(* The reader of symbol files (lib/data/symtab/SymbolImporter.cpp).  It    *)
(* adds declarations and types to the compilation it works for; its state  *)
(* is a record:                                                            *)
(*   c        the compilation; c.xrefs and c.fwds are the members xrefs_   *)
(*            (reference -> type) and fwds_ (reference -> pointer that     *)
(*            waits for its base), which outlive a call of read()          *)
(*   in, pos  the file and the position in it                              *)
(*   v        the value read last                                          *)
(*   sync     every token was read as what it was written as               *)
(*   module   module_, the module that is imported                         *)
(*   type     the result of readType                                       *)
(* A null pointer that is dereferenced sets c.crashed, a message of the    *)
(* logger sets c.errors.                                                   *)
(***************************************************************************)
EXTENDS SymbolFile

Fail(r) == [r EXCEPT !.c.errors = TRUE]
Crash(r) == [r EXCEPT !.c.crashed = TRUE]
Result(r, type) == [r EXCEPT !.type = type]

\* The node module_ points to exists: getExternalModule() was not null.
HasNode(c, m) == m \in c.ext

\* getOrCreateModule: the namespace of the module being compiled exists, but
\* it is not an external module of the ASTContext.
GetOrCreateModule(c, m) ==
  IF HasModule(c.table, m) THEN c
  ELSE [c EXCEPT !.table = AddModule(@, m, FALSE), !.ext = @ \cup {m}]

\* The TypeDeclarationNode a module has for a name, or none.  The lookup goes
\* through the aliases of the symbol table.
FindType(c, m, n) ==
  LET d == IF n = NoName THEN NoDecl ELSE LookupQualified(c.table, m, n)
  IN  IF d # NoDecl /\ c.decls[d].kind = NodeType.type THEN d ELSE NoDecl

\* A declaration node of module m, entered into its root scope.
Declare(r, kind, m, name, type) ==
  LET d == Len(r.c.decls) + 1
  IN  IF ~r.sync \/ ~HasNode(r.c, m) THEN Crash(r)
      ELSE [r EXCEPT !.c = [NewDecl(r.c, kind, m, name, type, FALSE)
                              EXCEPT !.table = Import(@, m, name, d)]]

\* getXRef
GetXRef(r, ref) ==
  IF ref \in TypeKind.SET..TypeKind.STRING THEN ref
  ELSE IF ref >= TypeKind.TYPE /\ ref \in DOMAIN r.c.xrefs THEN r.c.xrefs[ref] ELSE Null

SetXRef(r, ref, type) == [r EXCEPT !.c.xrefs = (ref :> type) @@ @]

\* readType: the type resolves a forward reference.
Settle(r, ref, type) ==
  IF ref \in DOMAIN r.c.fwds
  THEN LET fwds == r.c.fwds
       IN  [r EXCEPT !.c = [SetBase(@, fwds[ref], type)
                              EXCEPT !.fwds = [k \in DOMAIN fwds \ {ref} |-> fwds[k]]]]
  ELSE r

\* readType, a reference: only a pointer type can wait for its base.
ReadReference(r, ref, ptr) ==
  IF ref = TypeKind.NOTYPE THEN Result(r, TypeKind.NOTYPE)
  ELSE IF GetXRef(r, ref) # Null THEN Result(r, GetXRef(r, ref))
  ELSE IF ptr # Null THEN Result([r EXCEPT !.c.fwds = (ref :> ptr) @@ @], Null)
  ELSE Result(Fail(r), Null)

RECURSIVE ReadType(_, _, _), ReadParameters(_, _, _), ReadFields(_, _, _)

\* The result is a new node of the ASTContext.
Create(r, kind, base, parts) == Result([r EXCEPT !.c = NewNode(@, kind, base, parts)], NewType(r.c))

ReadArrayType(r) ==
  LET member == ReadType(r, NoDecl, Null)
      sized == ReadInt(ReadInt(member))
  IN  IF member.type = Null THEN Crash(sized)
      ELSE Create(sized, TypeKind.ARRAY, member.type, <<>>)

\* Mutant: the pointer is known only after its base was read.
ReadPointerTypeLate(r, ref) ==
  LET ptr == NewType(r.c)
      base == ReadType([r EXCEPT !.c = NewNode(@, TypeKind.POINTER, Null, <<>>)], NoDecl, ptr)
  IN  Result(IF base.type = Null THEN base ELSE [base EXCEPT !.c = SetBase(@, ptr, base.type)], ptr)

\* readPointerType: the pointer is known before its base is read.
ReadPointerType(r, ref) ==
  LET ptr == NewType(r.c)
      created == SetXRef(Create(r, TypeKind.POINTER, Null, <<>>), ref, ptr)
      base == ReadType(created, NoDecl, ptr)
  IN  Result(IF base.type = Null THEN base ELSE [base EXCEPT !.c = SetBase(@, ptr, base.type)], ptr)

NewPart(name, var, parts, type) ==
  LET repeated == type \in {Null, TypeKind.NOTYPE}
  IN  [name |-> name, exported |-> FALSE, var |-> var,
       seqId |-> IF ~repeated THEN 0 ELSE IF parts = <<>> THEN 1 ELSE Last(parts).seqId + 1,
       type |-> IF ~repeated THEN type ELSE IF parts = <<>> THEN Null ELSE Last(parts).type]

\* readProcedureType, the loop over the parameters
ReadParameters(r0, ret, parts) ==
  LET r == ReadChar(r0)
      var == ReadChar(r)
      type == ReadType(var, NoDecl, Null)
  IN  IF r.v = 0 THEN Create(r, TypeKind.PROCEDURE, ret, parts)
      ELSE ReadParameters(type, ret, Append(parts, NewPart(NoName, var.v = 0, parts, type.type)))

ReadProcedureType(r) ==
  LET ret == ReadType(r, NoDecl, Null) IN ReadParameters(ret, ret.type, <<>>)

\* readRecordType, the loop over the fields
ReadFields(r0, base, parts) ==
  LET r == ReadChar(r0)
      name == ReadString(ReadInt(r))
      type == ReadType(name, NoDecl, Null)
      next == ReadInt(IF type.type = Null THEN Crash(type) ELSE type)
  IN  IF r.v = 0 THEN Create(r, TypeKind.RECORD, base, parts)
      ELSE ReadFields(next, base, Append(parts, NewPart(name.v, FALSE, parts, type.type)))

ReadRecordType(r) ==
  LET base == ReadType(r, NoDecl, Null)
      isRecord == KindOf(base.c, base.type) = TypeKind.RECORD
  IN  ReadFields(ReadInt(ReadInt(ReadChar(base))), IF isRecord THEN base.type ELSE Null, <<>>)

\* Mutant: a type that exists already is not preferred to the one just read.
FinishFresh(r, ref, decl, m, name) ==
  LET declared == IF m # NoName
                  THEN Declare([r EXCEPT !.c = GetOrCreateModule(@, m)], NodeType.type, m, name, r.type)
                  ELSE r
  IN  Result(Settle(SetXRef(declared, ref, r.type), ref, r.type), r.type)

\* readType, after the description: a type that exists already replaces the
\* one just read; a re-exported one is declared in its own module.
Finish(r, ref, decl, m, name) ==
  LET type == IF decl # NoDecl THEN r.c.decls[decl].type ELSE r.type
      declared == IF decl = NoDecl /\ m # NoName
                  THEN Declare([r EXCEPT !.c = GetOrCreateModule(@, m)], NodeType.type, m, name, type)
                  ELSE r
  IN  IF type = Null THEN Result(r, Null)
      ELSE Result(Settle(SetXRef(declared, ref, type), ref, type), type)

\* readType, a description: reference, origin, kind and contents.
ReadDescription(r, ref, decl) ==
  LET m == IF ref = 0 THEN [r EXCEPT !.v = NoName] ELSE ReadString(r)
      n == IF m.v = NoName THEN m ELSE ReadString(m)
      found == IF m.v = NoName THEN decl ELSE FindType(r.c, m.v, n.v)
      k == Result(ReadChar(n), Null)
      type == CASE k.v = TypeKind.ARRAY     -> ReadArrayType(k)
                [] k.v = TypeKind.POINTER   -> ReadPointerType(k, ref)
                [] k.v = TypeKind.PROCEDURE -> ReadProcedureType(k)
                [] k.v = TypeKind.RECORD    -> ReadRecordType(k)
                [] OTHER                    -> k
  IN  Finish(type, ref, found, m.v, n.v)

ReadType(r0, decl, ptr) ==
  LET r == ReadChar(r0)
  IN  IF r.v < 0 THEN ReadReference(r, -r.v, ptr) ELSE ReadDescription(r, r.v, decl)

\* readDeclaration: the value of a constant.
ReadValue(r, kind) ==
  CASE kind \in {TypeKind.PROCEDURE, TypeKind.BOOLEAN, TypeKind.CHAR} -> ReadChar(r)
    [] kind \in {TypeKind.INTEGER, TypeKind.SET} -> ReadInt(r)
    [] OTHER -> Fail(r)

\* readDeclaration
ReadDeclaration(r0, kind) ==
  LET n == ReadString(r0)
      decl == FindType(n.c, r0.module, n.v)
      r == ReadType(n, decl, Null)
  IN  CASE kind = NodeType.constant ->
             IF r.type = Null THEN Crash(r)
             ELSE LET value == ReadValue(r, KindOf(r.c, r.type))
                  IN  IF KindOf(r.c, r.type) = TypeKind.PROCEDURE THEN value
                      ELSE Declare(value, kind, r0.module, n.v, r.type)
        [] kind = NodeType.type /\ decl = NoDecl ->
             IF r.type = Null THEN Crash(r) ELSE Declare(r, kind, r0.module, n.v, r.type)
        [] kind = NodeType.variable -> Declare(ReadChar(r), kind, r0.module, n.v, r.type)
        [] kind = NodeType.procedure -> Declare(r, kind, r0.module, n.v, r.type)
        [] OTHER -> r

RECURSIVE ReadDeclarations(_)
ReadDeclarations(r0) ==
  LET r == ReadChar(r0)
  IN  IF r.v = 0 THEN r ELSE ReadDeclarations(ReadDeclaration(r, r.v))

\* SymbolImporter::read, after the last declaration.
EndOfFile(r) ==
  [r EXCEPT !.c.xrefs = <<>>, !.c.errors = @ \/ DOMAIN r.c.fwds # {}, !.c.fwds = <<>>]

\* SymbolImporter::read, for a file that was found.
ReadFile(c, m, file) ==
  LET start == [c |-> c, in |-> file, pos |-> 1, v |-> 0, sync |-> TRUE, module |-> m, type |-> Null]
      version == ReadChar(ReadString(Read(start, "long", 0)))
      body == [version EXCEPT !.c = GetOrCreateModule(@, m)]
  IN  IF version.v # Version THEN Fail(version)
      ELSE EndOfFile(ReadDeclarations(body))
=============================================================================
