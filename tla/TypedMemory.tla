----------------------------- MODULE TypedMemory -----------------------------
(***************************************************************************)
(* Variables, parameters and types while a program runs: the code that     *)
(* LLVMIRBuilder makes of designators, assignments and calls, with every   *)
(* trap switched on, which is the default.                                 *)
(*                                                                         *)
(* The code knows addresses: an object and an offset into its cells, with  *)
(* type descriptors and dope vectors beside them.  A procedure returns at  *)
(* any time, a trap ends the program.  A program that reads a cell before  *)
(* it was written has no meaning and is not run.                           *)
(***************************************************************************)
EXTENDS TypedPrograms

---------------------------------------------------------------------------
(* Designators: LLVMIRBuilder::visit(QualifiedExpression) and selectors.   *)

\* Where a designator has got to: an address, and the type that the code takes
\* what is there for.
Place(how, object, offset, type) == [how |-> how, object |-> object, offset |-> offset, type |-> type]
Stop(p, how) == [p EXCEPT !.how = how]

InObject(p, n) == p.object \in DOMAIN memory /\ p.offset + n <= Len(memory[p.object])
CellAt(p) == IF InObject(p, 1) THEN memory[p.object][p.offset + 1] ELSE <<"outside", NoName>>

\* Variable and structured parameters are references, which are loaded first.
Root(d) ==
  IF IsBound(d.name) THEN Place("ok", Binding(d.name).object, Binding(d.name).offset, d.declaration.type)
  ELSE Place("ok", d.name, 0, d.declaration.type)

\* What a pointer that was loaded from p leads to.
AfterLoad(p, value, type) ==
  CASE value = Nil -> Stop(p, "trap")
    [] value = Undefined -> Stop(p, "undefined")
    [] value[1] = "reference" -> Place("ok", value[2], 0, type)
    [] OTHER -> Stop(p, "crash")

\* The length of an array in a dimension: that of its type, or from the dope
\* vector of the parameter, which has the dimensions of the whole array.
Dimension(d, t, i) ==
  IF IsOpen(t) THEN Binding(d.name).dope[i + Dimensions(Base(t)) - Dimensions(t)] ELSE Lengths(t)[i]

\* The number of elements before the one with these indices.
ElementsBefore(d, t, indices) ==
  FoldLeft(LAMBDA sum, i :
             sum + indices[i] * Product([j \in 1..(Dimensions(t) - i) |-> Dimension(d, t, i + j)]),
           0, [i \in DOMAIN indices |-> i])

ArrayIndex(d, p, indices) ==
  IF \E i \in DOMAIN indices : indices[i] >= Dimension(d, p.type, i) THEN Stop(p, "trap")
  ELSE Place("ok", p.object,
             p.offset + ElementsBefore(d, p.type, indices) * Size(ElementType(p.type)),
             Types[p.type].types[Len(indices)])

\* Mutant: the static types are compared the other way round.
GuardExtends(t, guard, descriptor) ==
  Extends(guard, t) \/ Extends(descriptor, IF IsPointer(guard) THEN Base(guard) ELSE guard)

\* Only a test against a type that t does not extend looks at the descriptor: that
\* of the record pointed to, or of the variable parameter.
TypeTest(t, guard, descriptor) ==
  Extends(t, guard) \/ Extends(descriptor, IF IsPointer(guard) THEN Base(guard) ELSE guard)

Typeguard(d, p, guard) ==
  LET value == CellAt(p)
      Tested(descriptor) == IF TypeTest(p.type, guard, descriptor) THEN [p EXCEPT !.type = guard] ELSE Stop(p, "trap")
  IN  CASE IsRecord(guard) -> Tested(Binding(d.name).descriptor)
        [] IsPointer(guard) /\ value = Undefined -> Stop(p, "undefined")
        [] IsPointer(guard) /\ value = Nil -> Stop(p, "trap")
        [] OTHER -> IF value[1] = "reference" THEN Tested(tags[value[2]]) ELSE Stop(p, "crash")

Selector(d, p, sel) ==
  CASE p.how # "ok" -> p
    [] p.how = "ok" /\ sel.node = "dereference" -> AfterLoad(p, CellAt(p), Base(p.type))
    [] p.how = "ok" /\ sel.node = "index" -> ArrayIndex(d, p, sel.indices)
    [] p.how = "ok" /\ sel.node = "field" ->
         LET f == Field(p.type, sel.name)
         IN  Place("ok", p.object, p.offset + Offset(f), FieldType(f))
    [] p.how = "ok" /\ sel.node = "guard" -> Typeguard(d, p, sel.type)

\* The address of an expression; a string literal is an object.
Address(e) ==
  IF e.form = "string" THEN Place("ok", e.name, 0, e.type)
  ELSE FoldLeft(LAMBDA p, sel : Selector(e, p, sel), Root(e), e.selectors)

\* The value of an expression that is neither structured nor a string.
Result(how, value) == [how |-> IF how = "ok" /\ value = Undefined THEN "undefined" ELSE how, value |-> value]
Loaded(p) == IF p.how = "ok" THEN Result("ok", CellAt(p)) ELSE Result(p.how, Undefined)
Value(e) ==
  CASE e.form \in {"nil", "number"} -> Result("ok", e.value)
    [] IsName(e) -> Result("ok", Procedure(e.name))
    [] OTHER -> Loaded(Address(e))

---------------------------------------------------------------------------
(* LLVMIRBuilder::visit(AssignmentNode).                                   *)

Stored(how) == Outcome(how, memory, tags)

\* n cells are copied from q to p.
Copy(p, q, n) ==
  IF ~InObject(p, n) \/ ~InObject(q, n) THEN Stored("crash")
  ELSE Outcome("ok",
         [memory EXCEPT ![p.object] =
            [i \in DOMAIN @ |-> IF i \in (p.offset + 1)..(p.offset + n)
                                THEN memory[q.object][q.offset + i - p.offset] ELSE @[i]]], tags)

\* The length of an array is looked up if one of them is open; of more than one
\* dimension only the first counts.
ArrayAssignment(st, p, q) ==
  LET l == st.lvalue.type  r == st.rvalue.type
      lLen == Dimension(st.lvalue, l, 1)  rLen == Dimension(st.rvalue, r, 1)
  IN  IF (IsOpen(l) \/ IsOpen(r)) /\ lLen < rLen THEN Stored("trap")
      ELSE Copy(p, q, (IF lLen < rLen THEN lLen ELSE rLen) * Size(ElementType(l)))

\* The descriptors are compared if the variable is a variable parameter.
RecordAssignment(st, p, q) ==
  LET isVar == Named!IsVarParameter(st.rvalue)
      type == IF isVar THEN Binding(st.rvalue.name).descriptor ELSE st.rvalue.type
  IN  IF ~Named!IsVarParameter(st.lvalue) THEN Copy(p, q, Size(st.rvalue.type))
      ELSE IF Binding(st.lvalue.name).descriptor # type THEN Stored("trap")
      ELSE Copy(p, q, Size(type))

Store(p, value) ==
  IF ~InObject(p, 1) THEN Stored("crash")
  ELSE Outcome("ok", [memory EXCEPT ![p.object][p.offset + 1] = value], tags)

Stores(st, p, q) ==
  LET kind == Kind(st.rvalue.type)
  IN  CASE q.how # "ok" -> Stored(q.how)
        [] q.how = "ok" /\ p.how # "ok" -> Stored(p.how)
        [] OTHER -> CASE kind = "ARRAY" -> ArrayAssignment(st, p, q)
                      [] kind = "RECORD" -> RecordAssignment(st, p, q)
                      [] kind = "STRING" -> Copy(p, q, st.rvalue.size + 1)
                      [] OTHER -> Store(p, q.value)

\* The right-hand side comes first.
Assignment(st) ==
  Stores(st, Address(st.lvalue),
         IF Kind(st.rvalue.type) \in {"ARRAY", "RECORD", "STRING"} THEN Address(st.rvalue) ELSE Value(st.rvalue))

\* LLVMIRBuilder::createNewCall: nothing but the descriptor is initialised.
Allocates(p, stored, t) ==
  CASE p.how # "ok" -> Stored(p.how)
    [] p.how = "ok" /\ stored.how # "ok" -> stored
    [] OTHER -> Outcome("ok", [stored.memory EXCEPT ![NewObject] = Fresh(t)], [tags EXCEPT ![NewObject] = t])
StoresNew(p, t) == Allocates(p, Store(p, Reference(NewObject)), t)
New(st) == StoresNew(Address(st.lvalue), Base(st.lvalue.type))

---------------------------------------------------------------------------
(* Calls: LLVMIRBuilder::parameters, and the entry of a procedure.         *)

\* A record whose dynamic type the caller does not know: a variable parameter,
\* or what a pointer points to.
OfDynamicType(e) ==
  IF e.selectors = <<>> THEN e.declaration.node = "parameter" /\ e.declaration.var
  ELSE LET rest == SelectSeq(e.selectors, LAMBDA sel : sel.node # "guard")
       IN  IF rest = <<>> THEN e.declaration.node = "parameter" /\ e.declaration.var
           ELSE Last(rest).node = "dereference"

Argument(kind, how) == [kind |-> kind, how |-> how]
AddressOf(e, place) ==
  Argument("address", place.how) @@
    [place |-> place, variable |-> Denotes(e).variable,
     passedOn |-> e.form = "designator" /\ OfDynamicType(e)]
\* Mutant: the lengths of the whole array, for a row of it.
LengthsOfWhole(e) ==
  Argument("dope", "ok") @@
    [lengths |-> IF e.form = "string" THEN <<e.size + 1>>
                 ELSE [i \in 1..Dimensions(e.type) |->
                         IF IsOpen(e.type) THEN Binding(e.name).dope[i] ELSE Lengths(Base(e.type))[i]]]

\* There are dope vectors for types that are part of no open array.
HasDope(t) == IsOpen(t) \/ ~IsOpen(Base(t))
DopeOf(e) ==
  Argument("dope", IF e.form = "string" \/ HasDope(e.type) THEN "ok" ELSE "crash") @@
    [lengths |-> IF e.form = "string" THEN <<e.size + 1>>
                 ELSE [i \in 1..Dimensions(e.type) |-> Dimension(e, e.type, i)]]
ValueOfArgument(x) == Argument("value", x.how) @@ [value |-> x.value]

\* The arguments for one parameter.  The descriptor is that of the static type.
Arguments(formal, e) ==
  (IF formal.var \/ IsStructured(e.type) \/ e.form = "string"
   THEN <<AddressOf(e, Address(e))>> ELSE <<ValueOfArgument(Value(e))>>)
    \o (IF IsOpen(formal.type) THEN <<DopeOf(e)>> ELSE <<>>)
    \o (IF IsRecord(formal.type) /\ formal.var
         THEN <<Argument("descriptor", "ok") @@ [type |-> e.type]>> ELSE <<>>)

\* The arguments that a procedure expects for its parameters.
Expected(formals) ==
  FlattenSeq([i \in DOMAIN formals |->
    (IF ByReference(formals[i]) THEN <<"address">> ELSE <<"value">>)
      \o (IF IsOpen(formals[i].type) THEN <<"dope">> ELSE <<>>)
      \o (IF IsRecord(formals[i].type) /\ formals[i].var THEN <<"descriptor">> ELSE <<>>)])
Kinds(arguments) == [i \in DOMAIN arguments |-> arguments[i].kind]

Bound(formal, address, next) ==
  [object |-> address.place.object, offset |-> address.place.offset,
   dope |-> IF IsOpen(formal.type) THEN next.lengths ELSE <<>>,
   descriptor |-> IF IsRecord(formal.type) /\ formal.var THEN next.type ELSE NoType,
   variable |-> address.variable, passedOn |-> address.passedOn]

\* The first of the arguments for the formal parameter i.
First(formals, i) == Len(Expected(SubSeq(formals, 1, i - 1))) + 1

\* The frame of a procedure that is entered with these arguments.
Frame(procedure, formals, arguments) ==
  LET references == {i \in DOMAIN formals : ByReference(formals[i])}
      At(i) == First(formals, i)
  IN  [procedure |-> procedure,
       bindings |-> [n \in {formals[i].name : i \in references} |->
                       LET i == CHOOSE j \in references : formals[j].name = n
                       IN  Bound(formals[i], arguments[At(i)],
                                 arguments[IF At(i) < Len(arguments) THEN At(i) + 1 ELSE At(i)])]]

\* Value parameters that are not structured have a cell of their own.
Entered(formals, arguments) ==
  [o \in DOMAIN memory |->
     IF ValueParameter(formals, o) = {} THEN memory[o]
     ELSE LET i == CHOOSE j \in ValueParameter(formals, o) : TRUE
          IN  <<arguments[First(formals, i)].value>>]

PassedTo(st) ==
  LET formals == Formals(st.procedure.type)
  IN  FlattenSeq([i \in DOMAIN formals |-> Arguments(formals[i], st.actuals[i])])

\* A statement loads a parameter that it calls, and the value loads once more.
Callee(st) ==
  IF st.procedure.declaration.node = "parameter" /\ ~ByReference(st.procedure.declaration)
  THEN Result("crash", Undefined) ELSE Value(st.procedure)

\* The arguments first, then the procedure, which is loaded from a variable.
CallHow(arguments, callee) ==
  LET hows == [i \in DOMAIN arguments |-> arguments[i].how] \o <<callee.how>>
      bad == {i \in DOMAIN hows : hows[i] # "ok"}
  IN  CASE bad # {} -> hows[CHOOSE i \in bad : \A j \in bad : i <= j]
        [] bad = {} /\ callee.value = Nil -> "trap"
        [] OTHER -> IF /\ callee.value[1] = "procedure"
                       /\ Kinds(arguments) = Expected(Formals(Program.procedures[callee.value[2]]))
                    THEN "ok" ELSE "crash"

CallOutcome(arguments, callee) ==
  IF CallHow(arguments, callee) # "ok" THEN Stored(CallHow(arguments, callee))
  ELSE Outcome("ok", Entered(Formals(Program.procedures[callee.value[2]]), arguments), tags)

Execution(st) ==
  CASE st.node = "assignment" -> Assignment(st)
    [] st.node = "new" -> New(st)
    [] st.node = "call" -> CallOutcome(PassedTo(st), Callee(st))

---------------------------------------------------------------------------
(* The program.                                                            *)

Running == IF frames = <<>> THEN Module ELSE Last(frames).procedure
Offered == IF crashed \/ steps >= Program.steps THEN {} ELSE Statements[project][Running]

\* The statement has room: no procedure is active twice, or too many are.
HasRoom(st) ==
  CASE st.node = "assignment" -> TRUE
    [] st.node = "new" -> FreeObjects # {}
    [] st.node = "call" ->
         Len(frames) < MaxDepth /\ \A i \in DOMAIN frames : frames[i].procedure # MeantValue(st.procedure).value[2]

Effect(x) ==
  /\ x.how \in {"ok", "crash"}
  /\ memory' = x.memory
  /\ tags' = x.tags
  /\ crashed' = (x.how = "crash")
  /\ steps' = steps + 1
  /\ UNCHANGED project

OnAssignment(st) == st.node = "assignment" /\ Effect(Assignment(st)) /\ UNCHANGED frames

OnNew(st) == st.node = "new" /\ Effect(New(st)) /\ UNCHANGED frames

Call(procedure, arguments, x) ==
  /\ Effect(x)
  /\ frames' = IF x.how = "crash" THEN frames
               ELSE Append(frames, Frame(procedure, Formals(Program.procedures[procedure]), arguments))

CallOf(arguments, callee) == Call(callee.value[2], arguments, CallOutcome(arguments, callee))
OnCall(st) == st.node = "call" /\ CallOf(PassedTo(st), Callee(st))

\* The value parameters are gone.
OnReturn ==
  LET own == Range(Formals(Program.procedures[Running]))
  IN  /\ frames # <<>> /\ ~crashed
      /\ frames' = Front(frames)
      /\ memory' = [o \in DOMAIN memory |->
                      IF \E f \in own : f.name = o /\ ~ByReference(f) THEN <<Undefined>> ELSE memory[o]]
      /\ UNCHANGED <<project, tags, crashed, steps>>

\* Variables of the module start with zeros.
Init ==
  /\ project \in DOMAIN Projects
  /\ tags = [o \in Program.heap |-> Free]
  /\ memory = [o \in DOMAIN Program.variables |->
                 [i \in DOMAIN Layout[Program.variables[o]] |-> Zero(Layout[Program.variables[o]][i])]]
                @@ [o \in Program.heap |-> <<>>]
                @@ [o \in DOMAIN Program.strings |-> Program.strings[o].cells]
                @@ [o \in {f.name : f \in ValueParameters(Program)} |-> <<Undefined>>]
  /\ frames = <<>>
  /\ crashed = FALSE
  /\ steps = 0

Next ==
  \/ \E st \in Offered : OnAssignment(st)
  \/ \E st \in Offered : HasRoom(st) /\ OnNew(st)
  \/ \E st \in Offered : HasRoom(st) /\ OnCall(st)
  \/ OnReturn

Spec == Init /\ [][Next]_vars

---------------------------------------------------------------------------
(* Properties *)

\* A procedure with parameters of type u may be called for one of type t.
SameParameters(t, u) ==
  /\ Len(Formals(t)) = Len(Formals(u))
  /\ \A i \in DOMAIN Formals(t) :
       LET f == Formals(t)[i]  g == Formals(u)[i]
       IN  f.var = g.var /\ (f.type = g.type \/ (IsOpen(f.type) /\ IsOpen(g.type) /\ ElementType(f.type) = ElementType(g.type)))

Fits(value, t) ==
  CASE value = Undefined -> TRUE
    [] value = Nil -> IsPointer(t) \/ IsProcedure(t)
    [] value[1] = "reference" -> IsPointer(t) /\ Extends(tags[value[2]], Base(t))
    [] value[1] = "procedure" -> IsProcedure(t) /\ SameParameters(t, Program.procedures[value[2]])
    [] value[1] = "number" -> Kind(t) = "INTEGER"
    [] OTHER -> Kind(t) = "CHAR"

\* A variable may be used as a parameter: a record is an extension, an array has
\* the dimensions and elements, everything else the same type.
Serves(t, formal) ==
  CASE IsRecord(formal.type) -> Extends(t, formal.type)
    [] IsArray(formal.type) ->
         /\ Dimensions(t) = Dimensions(formal.type) /\ ElementType(t) = ElementType(formal.type)
         /\ \A i \in DOMAIN Lengths(t) : Lengths(formal.type)[i] \in {0, Lengths(t)[i]}
    [] OTHER -> t = formal.type \/ (Base(t) = Base(formal.type) /\ IsPointer(t) /\ IsPointer(formal.type))

FormalOf(frame, n) ==
  LET formals == Formals(Program.procedures[frame.procedure])
  IN  formals[CHOOSE i \in DOMAIN formals : formals[i].name = n]

\* Programs that Sema accepts stay inside their objects, and every cell holds a
\* value of its type, whatever was assigned, passed, guarded and called: a
\* pointer leads to a record of its base type or an extension of it, a procedure
\* variable to a procedure with the parameters of its type, and a parameter to a
\* variable that has at least what the type of the parameter has.  Left out are
\* the statements that are not Sound, which Sema accepts as well.
MemoryIsTyped ==
  /\ ~crashed
  /\ \A o \in DOMAIN memory : o \notin Program.heap \/ tags[o] # Free =>
       \A i \in DOMAIN memory[o] : Fits(memory[o][i], Layout[ObjectType(o)][i])
  /\ \A i \in DOMAIN frames : \A n \in DOMAIN frames[i].bindings :
       Serves(frames[i].bindings[n].variable.type, FormalOf(frames[i], n))

\* What a procedure gets beside a reference is true of the variable that was
\* passed, however many calls it went through: the address, the lengths of an open
\* array, and the dynamic type of a record, unless the caller passed on a variable
\* parameter or a record behind a pointer; then it is the static type.
BindingsAreTrue ==
  \A i \in DOMAIN frames : \A n \in DOMAIN frames[i].bindings :
    LET b == frames[i].bindings[n]
        formal == FormalOf(frames[i], n)
        paths == Paths[ObjectType(b.variable.object)]
    IN  /\ b.object = b.variable.object
        /\ b.offset + 1 \in DOMAIN paths /\ IsPrefix(b.variable.path, paths[b.offset + 1])
        /\ b.offset > 0 => ~IsPrefix(b.variable.path, paths[b.offset])
        /\ IsOpen(formal.type) => b.dope = Lengths(b.variable.type)
        /\ IsRecord(formal.type) /\ formal.var =>
             b.descriptor = b.variable.type \/ (b.passedOn /\ Extends(b.variable.type, b.descriptor))

\* An assignment of arrays of more than one dimension copies its first row only.
PartOfMatrix(st) ==
  st.node = "assignment" /\ IsArray(st.rvalue.type) /\ Dimensions(st.rvalue.type) > 1

\* The statement uses a record whose descriptor is not that of its dynamic type.
LostDescriptor(st) ==
  \E d \in DesignatorsOf(st) :
    IsBound(d.name) /\ IsRecord(d.declaration.type) /\ d.declaration.var
      /\ Binding(d.name).descriptor # Binding(d.name).variable.type

\* Wherever a program has got to, the code of each statement that may come next
\* does what the statement means: it traps exactly if a pointer is NIL, an index
\* is out of bounds, a guard fails, or a record or an array does not fit; otherwise
\* memory holds what it should.
Agree(meant, does) ==
  meant.how = "undefined" \/ (does.how = meant.how /\ (meant.how = "ok" => does = meant))
DoesWhatIsMeant ==
  \A st \in Offered :
    HasRoom(st) /\ ~PartOfMatrix(st) /\ ~LostDescriptor(st) => Agree(Meaning(st), Execution(st))
=============================================================================
