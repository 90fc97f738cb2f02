---------------------------- MODULE TypeRelations ----------------------------
(***************************************************************************)
(* What Sema accepts: selectors, assignments and calls, for the default    *)
(* language standard TurboOberon.  Numbers are of one type.                *)
(*                                                                         *)
(* An expression is a designator, with the declaration it starts from, its *)
(* selectors and the type they lead to; or NIL, a number, or a string.     *)
(***************************************************************************)
EXTENDS TypeNodes

CONSTANT ByName   \* types with the same name are the same: TRUE in the code

---------------------------------------------------------------------------
(* Relations on types.                                                     *)

\* Sema::isSameIdent, for the identifiers of two type declarations, which
\* are never qualified.
IsSameIdent(t, u) == ByName /\ Types[t].name # NoName /\ Types[t].name = Types[u].name

IsSameType(t, u) == IF t = u THEN ~IsOpen(t) ELSE IsSameIdent(t, u)

\* Pointers point to records and arrays only.
IsSameVirtualType(formal, actual) ==
  \/ IsSameType(formal, actual)
  \/ IsPointer(formal) /\ IsPointer(actual) /\ IsSameType(Base(formal), Base(actual))

\* Sema::isParameterListMatching and, for its parameters, isEqualType.
RECURSIVE IsEqualType(_, _), IsParameterListMatching(_, _)
IsEqualType(t, u) ==
  \/ IsSameType(t, u)
  \/ /\ IsOpen(t) /\ IsOpen(u) /\ Dimensions(t) = Dimensions(u)
     /\ IsEqualType(ElementType(t), ElementType(u))
  \/ IsProcedure(t) /\ IsProcedure(u) /\ IsParameterListMatching(t, u)

\* Mutant: value and variable parameters match each other.
AnyKindMatches(t, u) ==
  LET P == Types[t].parameters  Q == Types[u].parameters
  IN  Len(P) = Len(Q) /\ \A i \in DOMAIN P : IsEqualType(P[i].type, Q[i].type)

IsParameterListMatching(t, u) ==
  LET P == Types[t].parameters  Q == Types[u].parameters
  IN  /\ Len(P) = Len(Q)
      /\ \A i \in DOMAIN P : IsEqualType(P[i].type, Q[i].type) /\ P[i].var = Q[i].var

\* The element types have to be looked at one by one: an actual array with
\* fewer dimensions has another type after its first index.
IsEqualArrayType(formal, actual) ==
  /\ Dimensions(formal) >= Dimensions(actual)
  /\ \A i \in 1..Dimensions(actual) :
       /\ IsSameType(Types[formal].types[i], Types[actual].types[i])
       /\ ~IsOpen(formal) => Lengths(formal)[i] >= Lengths(actual)[i]

---------------------------------------------------------------------------
(* Expressions: designators and their selectors.                           *)

IsVarParameter(e) ==
  e.form = "designator" /\ e.selectors = <<>> /\ e.declaration.node = "parameter" /\ e.declaration.var

\* Sema::assertAssignable; variables of other modules are not modelled.
IsAssignable(e) ==
  /\ e.form = "designator"
  /\ e.declaration.node = "parameter" /\ IsStructured(e.declaration.type) => e.declaration.var

\* QualifiedExpression before its selectors; context is the declaration that
\* onSelectors hands on: the root, or the last field.
Designator(name, declaration) ==
  [form |-> "designator", name |-> name, declaration |-> declaration, context |-> declaration,
   selectors |-> <<>>, type |-> declaration.type]

Select(d, sel, type) == [d EXCEPT !.selectors = Append(@, sel), !.type = type]

\* The designators that one more selector makes of d: an empty set if Sema
\* reports an error.  Indices one after the other are combined before.
OnDereference(d) ==
  {Select(d, [node |-> "dereference"], Base(d.type)) : x \in {y \in {d} : IsPointer(y.type)}}

OnRecordField(d, sel) ==
  LET f == Field(d.type, sel.name)
      context == [node |-> "field", var |-> FALSE, type |-> FieldType(f)]
  IN  IF IsRecord(d.type) /\ f # NoField
      THEN {[Select(d, sel, FieldType(f)) EXCEPT !.context = context]}
      ELSE {}

OnArrayIndex(d, sel) ==
  IF /\ IsArray(d.type) /\ Len(sel.indices) <= Dimensions(d.type)
     /\ d.selectors # <<>> => Last(d.selectors).node # "index"
  THEN {Select(d, sel, Types[d.type].types[Len(sel.indices)])} ELSE {}

OnTypeguard(d, sel) ==
  LET actual == IF IsPointer(d.type) THEN d.type ELSE d.context.type
  IN  IF /\ \/ IsPointer(actual)
            \/ IsRecord(actual) /\ d.context.node = "parameter" /\ d.context.var
         /\ Extends(sel.type, actual)
      THEN {Select(d, sel, sel.type)} ELSE {}

OnSelector(d, sel) ==
  CASE sel.node = "dereference" -> OnDereference(d)
    [] sel.node = "field" -> IF IsRecord(d.type) THEN OnRecordField(d, sel) ELSE {}
    [] sel.node = "index" -> OnArrayIndex(d, sel)
    [] sel.node = "guard" -> OnTypeguard(d, sel)

---------------------------------------------------------------------------
(* Compatibility.                                                          *)

\* Everything that is not a string, and everything for an array that is not
\* one of characters, passes.
IsStringCompatible(array, e) ==
  Kind(ElementType(array)) = "CHAR" /\ Kind(e.type) \in {"STRING", "CHAR"} =>
    /\ Dimensions(array) = 1
    /\ Kind(e.type) = "CHAR" => e.form # "designator"
    /\ ~IsOpen(array) /\ e.form = "string" => e.size < Lengths(array)[1]

IsArrayCompatible(formal, e) ==
  \/ IsSameType(formal, e.type)
  \/ /\ IsArray(e.type) /\ IsOpen(formal)
     /\ Dimensions(formal) = Dimensions(e.type)
     /\ IsSameType(ElementType(formal), ElementType(e.type))
  \/ IsArray(e.type) /\ ~IsOpen(formal) /\ IsEqualArrayType(formal, e.type)
  \/ ~IsArray(e.type) /\ IsStringCompatible(formal, e)

IsAssignmentCompatible(t, isVarParam, e) ==
  \/ IsSameType(t, e.type)
  \/ IsRecord(t) /\ IsRecord(e.type) /\ isVarParam /\ Extends(e.type, t)
  \/ IsPointer(t) /\ IsPointer(e.type) /\ Extends(e.type, t)
  \/ (IsPointer(t) \/ IsProcedure(t)) /\ e.form = "nil"
  \/ IsArray(t) /\ IsArray(e.type) /\ IsEqualArrayType(t, e.type)
  \/ IsArray(t) /\ ~IsArray(e.type) /\ IsStringCompatible(t, e)
  \/ IsProcedure(t) /\ IsProcedure(e.type) /\ IsParameterListMatching(t, e.type)

IsParameterCompatible(p, e) ==
  /\ p.var => IsAssignable(e)
  /\ CASE IsArray(p.type) -> IsArrayCompatible(p.type, e)
       [] p.var /\ IsRecord(p.type) /\ IsRecord(e.type) -> Extends(e.type, p.type)
       [] p.var /\ ~(IsRecord(p.type) /\ IsRecord(e.type)) -> IsSameVirtualType(p.type, e.type)
       [] OTHER -> IsAssignmentCompatible(p.type, FALSE, e)

\* Sema::onAssignment, and onActualParameters for a call.  NEW takes any pointer
\* variable.
Accepts(st) ==
  CASE st.node = "assignment" ->
         IsAssignable(st.lvalue) /\ IsAssignmentCompatible(st.lvalue.type, IsVarParameter(st.lvalue), st.rvalue)
    [] st.node = "new" -> IsAssignable(st.lvalue) /\ IsPointer(st.lvalue.type)
    [] st.node = "call" ->
         LET P == Types[st.procedure.type].parameters
         IN  /\ IsProcedure(st.procedure.type) /\ Len(st.actuals) = Len(P)
             /\ \A i \in DOMAIN P : IsParameterCompatible(P[i], st.actuals[i])
=============================================================================
