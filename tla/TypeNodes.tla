------------------------------ MODULE TypeNodes ------------------------------
(***************************************************************************)
(* Type nodes of the AST and how the code generator lays them out.         *)
(*                                                                         *)
(* A node is a record: its kind; the name of the declaration that gave it  *)
(* its identifier, NoName if it is anonymous; base, which is the extended  *)
(* type of a record, the type that a pointer points to, and for an array   *)
(* the array type it was last made a part of (ArrayTypeNode::setBase); the *)
(* fields of a record; the lengths of an array in all its dimensions, 0    *)
(* where it is open, with the type after each index; the parameters of a   *)
(* procedure type, which has no result.                                    *)
(***************************************************************************)
EXTENDS Naturals, SequencesExt

CONSTANT Types     \* the type nodes of a program, by an identifier of their own

NoName == ""
NoType == "NOTYPE"

Node(kind, name, base) ==
  [kind |-> kind, name |-> name, base |-> base, fields |-> <<>>, lengths |-> <<>>,
   types |-> <<>>, parameters |-> <<>>]
BasicType(kind) == Node(kind, kind, NoType)
RecordType(name, base, fields) == [Node("RECORD", name, base) EXCEPT !.fields = fields]
PointerType(name, base) == Node("POINTER", name, base)
ArrayType(name, base, lengths, types) ==
  [Node("ARRAY", name, base) EXCEPT !.lengths = lengths, !.types = types]
ProcedureType(name, parameters) == [Node("PROCEDURE", name, NoType) EXCEPT !.parameters = parameters]

Kind(t) == Types[t].kind
Base(t) == Types[t].base
IsArray(t) == Kind(t) = "ARRAY"
IsRecord(t) == Kind(t) = "RECORD"
IsPointer(t) == Kind(t) = "POINTER"
IsProcedure(t) == Kind(t) = "PROCEDURE"
IsStructured(t) == IsArray(t) \/ IsRecord(t)

\* ArrayTypeNode
Lengths(t) == Types[t].lengths
Dimensions(t) == Len(Lengths(t))
IsOpen(t) == IsArray(t) /\ Lengths(t)[1] = 0
ElementType(t) == Last(Types[t].types)

\* A record type and those it extends, the nearest first.
Extended[t \in DOMAIN Types] ==
  IF ~IsRecord(t) THEN <<>> ELSE <<t>> \o (IF Base(t) = NoType THEN <<>> ELSE Extended[Base(t)])

\* RecordTypeNode::extends and PointerTypeNode::extends; other types extend nothing.
Extends(t, u) ==
  \/ u \in Range(Extended[t])
  \/ IsPointer(t) /\ IsPointer(u) /\ Base(u) \in Range(Extended[Base(t)])

\* RecordTypeNode::getField: the record that declares the field, and its index; NoField if none does.
NoField == [record |-> NoType, index |-> 0]
Declares(t, name) == \E i \in DOMAIN Types[t].fields : Types[t].fields[i].name = name
Field(t, name) ==
  LET R == SelectSeq(Extended[t], LAMBDA r : Declares(r, name))
  IN  IF R = <<>> THEN NoField
      ELSE [record |-> R[1],
            index |-> SelectInSeq(Types[R[1]].fields, LAMBDA f : f.name = name)]

FieldType(f) == Types[f.record].fields[f.index].type

---------------------------------------------------------------------------
(* LLVMIRBuilder::visit(RecordTypeNode) and visit(ArrayTypeNode): one cell  *)
(* for every basic type, pointer and procedure; a record starts with the    *)
(* record it extends, an array is as many elements as all dimensions have.  *)

Product(lengths) == FoldLeft(LAMBDA p, n : p * n, 1, lengths)

Cells[t \in DOMAIN Types] ==
  CASE IsRecord(t) -> (IF Base(t) = NoType THEN <<>> ELSE Cells[Base(t)]) \o
                        FlattenSeq([i \in DOMAIN Types[t].fields |-> Cells[Types[t].fields[i].type]])
    [] IsArray(t) -> FlattenSeq([i \in 1..Product(Lengths(t)) |-> Cells[ElementType(t)]])
    [] OTHER -> <<t>>

Layout == [t \in DOMAIN Types |-> IF IsOpen(t) THEN <<>> ELSE Cells[t]]
Size(t) == Len(Layout[t])

\* The offset of a field from the start of the record that declares it.
Offset(f) ==
  (IF Base(f.record) = NoType THEN 0 ELSE Size(Base(f.record)))
    + FoldLeft(LAMBDA n, g : n + Size(g.type), 0, SubSeq(Types[f.record].fields, 1, f.index - 1))
=============================================================================
