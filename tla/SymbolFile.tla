----------------------------- MODULE SymbolFile -----------------------------
(***************************************************************************)
(* Symbol files (lib/data/symtab/SymbolFile.cpp) and the data that is      *)
(* written to them and read back.                                          *)
(*                                                                         *)
(* A file is a sequence of tokens <<tag, value>>; the tag is the C++ type  *)
(* that was written.  The file itself has no tags: what is read as another *)
(* type than it was written as is garbage, and a reader that does so is no *)
(* longer `sync`.  A char is signed and CharBits wide.  The other integers   *)
(* (lengths, sizes, offsets, values of constants) are all written as 0.    *)
(*                                                                         *)
(* The compilation of a module (ASTContext, Sema, SymbolTable and the      *)
(* members of SymbolImporter) is a record `c`; a type is a number:         *)
(*   0 the null pointer, 1..20 the TypeKind of a shared basic type,        *)
(*   20 + i the node c.heap[i].                                            *)
(***************************************************************************)
EXTENDS SymbolTable, Integers, SequencesExt

CONSTANTS
  NoName,    \* the empty string
  CharBits   \* the width of a char, 8 in the code

ASSUME CharAssumption == CharBits \in Nat \ {0}

Null == 0

TypeKind == [NOTYPE |-> 1, ARRAY |-> 6, POINTER |-> 7, PROCEDURE |-> 8, RECORD |-> 9,
             SET |-> 10, BOOLEAN |-> 11, CHAR |-> 13, INTEGER |-> 15, STRING |-> 19, TYPE |-> 20]

NodeType == [procedure |-> 3, field |-> 15, parameter |-> 16, variable |-> 17,
             constant |-> 18, type |-> 19]

Version == 5

---------------------------------------------------------------------------
(* Types and declarations.                                                 *)

\* A field of a record or a parameter of a procedure.  seqId # 0: it shares
\* the type of its predecessor.
Part == [name : Names, exported : BOOLEAN, var : BOOLEAN, seqId : Nat, type : Nat]

\* base: the member of an array, the base of a pointer or of a record, the
\* result of a procedure; decl: the declaration that names the type.
Node == [kind : Nat, base : Nat, parts : Seq(Part), decl : Nat]

IsHeap(t) == t > TypeKind.TYPE
NodeOf(c, t) == c.heap[t - TypeKind.TYPE]
KindOf(c, t) == IF IsHeap(t) THEN NodeOf(c, t).kind ELSE t

\* getOrInsertArrayType, ..PointerType, ..ProcedureType, ..RecordType: a new
\* node every time.
NewNode(c, kind, base, parts) ==
  [c EXCEPT !.heap = Append(@, [kind |-> kind, base |-> base, parts |-> parts, decl |-> NoDecl])]
NewType(c) == TypeKind.TYPE + Len(c.heap) + 1

SetBase(c, pointer, base) == [c EXCEPT !.heap[pointer - TypeKind.TYPE].base = base]

\* TypeNode::isAnonymous
IsAnonymous(c, t) == IsHeap(t) /\ NodeOf(c, t).decl = NoDecl

\* A declaration node; a TypeDeclarationNode names a type that has no name.
NewDecl(c, kind, module, name, type, exported) ==
  LET d == Len(c.decls) + 1
      named == [c EXCEPT !.decls = Append(@, [kind |-> kind, module |-> module, name |-> name,
                                              type |-> type, exported |-> exported])]
  IN  IF kind = NodeType.type /\ IsAnonymous(c, type)
      THEN [named EXCEPT !.heap[type - TypeKind.TYPE].decl = d] ELSE named

---------------------------------------------------------------------------
(* Writing: w.out is the file.                                             *)

\* The conversion to a signed char, int8_t.
Half == 2 ^ (CharBits - 1)
Char(v) == ((v + Half) % (2 * Half)) - Half

Put(w, tag, v) == [w EXCEPT !.out = Append(@, <<tag, v>>)]
WriteChar(w, v) == Put(w, "char", Char(v))
WriteInt(w) == Put(w, "int", 0)
WriteString(w, s) == Put(w, "string", s)

---------------------------------------------------------------------------
(* Reading: r.in is the file, r.pos the next token, r.v the value read; at *)
(* the end of the file, and for the garbage read out of sync, 0.           *)

Read(r, tag, zero) ==
  LET good == r.sync /\ r.pos <= Len(r.in) /\ r.in[r.pos][1] = tag
  IN  [r EXCEPT !.pos = @ + 1, !.sync = good, !.v = IF good THEN r.in[r.pos][2] ELSE zero]
ReadChar(r) == Read(r, "char", 0)
ReadInt(r) == Read(r, "int", 0)
ReadString(r) == Read(r, "string", NoName)
=============================================================================
