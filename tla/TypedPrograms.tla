---------------------------- MODULE TypedPrograms ----------------------------
(***************************************************************************)
(* Programs that Sema accepts, and what their designators and statements   *)
(* mean while they run.                                                    *)
(*                                                                         *)
(* A program is any sequence of statements over the declarations of a      *)
(* project, in its module and its procedures.  The meaning knows variables *)
(* only: an object of a type, and a path of fields and indices into it.    *)
(* An index is a number that the compiler does not know.                   *)
(***************************************************************************)
EXTENDS TypeNodes, FiniteSets

CONSTANTS
  Projects,       \* name |-> [variables, procedures, strings, heap, selectors,
                  \* expressions, steps]; steps is a bound: statements that are executed
  MaxSelectors,   \* bound: selectors of a designator
  MaxDepth        \* bound: active procedures

Module == "module"
Free == "free"

VARIABLES
  project,        \* which of the projects runs
  memory,         \* object |-> its cells
  tags,           \* object of the heap |-> the type of its descriptor, or Free
  frames,         \* the active procedures, the last one runs
  crashed,        \* the code left an object, or took a value for another one
  steps

vars == <<project, memory, tags, frames, crashed, steps>>

---------------------------------------------------------------------------
(* Statements over the declarations of a project that Sema accepts.        *)

Named == INSTANCE TypeRelations WITH ByName <- TRUE
Declared == INSTANCE TypeRelations WITH ByName <- FALSE

Formals(t) == Types[t].parameters
Declaration(node, var, type) == [node |-> node, var |-> var, type |-> type]

\* The declarations that are visible in the module, or in one of its procedures.
Scope(p, scope) ==
  LET formals == IF scope = Module THEN <<>> ELSE Formals(p.procedures[scope])
  IN  [n \in DOMAIN p.variables |-> Declaration("variable", FALSE, p.variables[n])]
        @@ [n \in DOMAIN p.procedures |-> Declaration("procedure", FALSE, p.procedures[n])]
        @@ [n \in {f.name : f \in Range(formals)} |->
              LET f == CHOOSE x \in Range(formals) : x.name = n
              IN  Declaration("parameter", f.var, f.type)]

\* A guard is not repeated, which bounds the designators.
IsRepeated(d, sel) ==
  sel.node = "guard" /\ \E i \in DOMAIN d.selectors : d.selectors[i].node = "guard"
WithSelector(p, D) ==
  D \cup UNION {Named!OnSelector(x[1], x[2]) : x \in {y \in D \X p.selectors : ~IsRepeated(y[1], y[2])}}

Designators(p, scope) ==
  FoldLeft(LAMBDA D, i : WithSelector(p, D),
           {Named!Designator(n, Scope(p, scope)[n]) : n \in DOMAIN Scope(p, scope)},
           [i \in 1..MaxSelectors |-> i])

\* The statements that are tried.  Of the designators of numbers only those without
\* selectors are read, which bounds the statements but no property.
Candidates(p, D) ==
  LET E == {d \in D : Kind(d.type) # "INTEGER" \/ d.selectors = <<>>} \cup p.expressions
      callees == {d \in D : Kind(d.type) = "PROCEDURE"}
  IN  {[node |-> "assignment", lvalue |-> x[1], rvalue |-> x[2]] : x \in D \X E}
        \cup {[node |-> "new", lvalue |-> d] : d \in D}
        \cup UNION {{[node |-> "call", procedure |-> d, actuals |-> a] :
                       a \in [DOMAIN Formals(d.type) -> E \cup D]} : d \in callees}

\* What is given to what: pairs of a type and an expression.
Transfers(st) ==
  CASE st.node = "assignment" -> {<<st.lvalue.type, st.rvalue>>}
    [] st.node = "new" -> {}
    [] st.node = "call" ->
         {<<Formals(st.procedure.type)[i].type, st.actuals[i]>> : i \in DOMAIN st.actuals}
DesignatorsOf(st) ==
  {e \in {x[2] : x \in Transfers(st)} : e.form = "designator"} \cup
    (IF st.node = "call" THEN {st.procedure} ELSE {st.lvalue})

---------------------------------------------------------------------------
(* Statements that Sema should not accept, or that have no sound code.     *)

\* Two types are taken for one because their names are the same.
Namesakes(st) == ~Declared!Accepts(st)

\* An array gets what is neither an array nor a string.
NotAString(st) ==
  \E x \in Transfers(st) :
    /\ IsArray(x[1]) /\ ~IsArray(x[2].type)
    /\ ~(Kind(ElementType(x[1])) = "CHAR" /\ x[2].form = "string")

\* A string is assigned to an open array, whose length is not looked at.
StringToOpenArray(st) ==
  st.node = "assignment" /\ st.rvalue.form = "string" /\ IsOpen(st.lvalue.type)

\* An array parameter gets an array of another length, or with rows of another
\* length, or a string of another length.
SameLengths(P, Q) == DOMAIN P = DOMAIN Q /\ \A i \in DOMAIN P : P[i] = Q[i] \/ \A j \in 1..i : P[j] = 0
OtherLengths(st) ==
  st.node = "call" /\ \E x \in Transfers(st) :
    /\ IsArray(x[1]) /\ (IsArray(x[2].type) \/ x[2].form = "string")
    /\ ~SameLengths(Lengths(x[1]), IF x[2].form = "string" THEN <<x[2].size + 1>> ELSE Lengths(x[2].type))

\* A procedure is assigned to, or passed as a variable.
ProcedureAsVariable(st) ==
  \/ st.node = "assignment" /\ st.lvalue.declaration.node = "procedure"
  \/ st.node = "call" /\ \E i \in DOMAIN st.actuals :
       /\ Formals(st.procedure.type)[i].var
       /\ st.actuals[i].declaration.node = "procedure"

\* p^(T) with a pointer type T guards the record as if it were the pointer.
GuardAfterDereference(st) ==
  \E d \in DesignatorsOf(st) : \E i \in 2..Len(d.selectors) :
    d.selectors[i].node = "guard" /\ d.selectors[i - 1].node = "dereference"

\* A statement calls a value parameter, or through one: it is loaded once more
\* than it is a reference.
CallOfValueParameter(st) ==
  /\ st.node = "call" /\ st.procedure.declaration.node = "parameter"
  /\ ~st.procedure.declaration.var /\ ~IsStructured(st.procedure.declaration.type)

\* An array whose type is also the type of the rows of an open array has no dope vector.
RowsOfOpenArray(st) ==
  st.node = "call" /\ \E x \in Transfers(st) :
    IsOpen(x[1]) /\ IsArray(x[2].type) /\ ~IsOpen(x[2].type) /\ IsOpen(Base(x[2].type))

Sound(st) ==
  ~(Namesakes(st) \/ NotAString(st) \/ StringToOpenArray(st) \/ OtherLengths(st) \/ ProcedureAsVariable(st)
      \/ GuardAfterDereference(st) \/ CallOfValueParameter(st) \/ RowsOfOpenArray(st))

Statements ==
  [name \in DOMAIN Projects |->
     LET p == Projects[name]
     IN  [scope \in {Module} \cup DOMAIN p.procedures |->
            {st \in Candidates(p, Designators(p, scope)) : Named!Accepts(st) /\ Sound(st)}]]

---------------------------------------------------------------------------
(* Values, objects and frames.                                             *)

Undefined == <<"undefined", NoName>>
Nil == <<"nil", NoName>>
Number(n) == <<"number", n>>
Char(c) == <<"char", c>>
Reference(object) == <<"reference", object>>
Procedure(name) == <<"procedure", name>>

Zero(t) ==
  CASE Kind(t) = "INTEGER" -> Number(0)
    [] Kind(t) = "CHAR" -> Char(0)
    [] OTHER -> Nil

\* Variable and structured parameters are passed by reference.
ByReference(formal) == formal.var \/ IsStructured(formal.type)

Program == Projects[project]
ValueParameters(p) ==
  {f \in UNION {Range(Formals(p.procedures[q])) : q \in DOMAIN p.procedures} : ~ByReference(f)}

\* The type of an object: of a variable, of what NEW made, of a string, or of a
\* value parameter.
ObjectType(object) ==
  CASE object \in DOMAIN Program.variables -> Program.variables[object]
    [] object \in Program.heap -> tags[object]
    [] object \in DOMAIN Program.strings -> Program.strings[object].type
    [] OTHER -> (CHOOSE f \in ValueParameters(Program) : f.name = object).type

Variable(object, type, path) == [object |-> object, type |-> type, path |-> path]

\* What the frame of the procedure that runs binds a name to.
IsBound(name) == frames # <<>> /\ name \in DOMAIN Last(frames).bindings
Binding(name) == Last(frames).bindings[name]

---------------------------------------------------------------------------
(* What designators mean.                                                  *)

Leaf(x, paths) == [j \in DOMAIN paths |-> <<x>> \o paths[j]]

\* The paths to the cells of a type, in the order of the cells.
PathsOf[t \in DOMAIN Types] ==
  CASE IsRecord(t) -> (IF Base(t) = NoType THEN <<>> ELSE PathsOf[Base(t)]) \o
                        FlattenSeq([i \in DOMAIN Types[t].fields |->
                          Leaf(<<"field", Types[t].fields[i].name>>, PathsOf[Types[t].fields[i].type])])
    [] IsArray(t) -> FlattenSeq([i \in 1..Lengths(t)[1] |->
                       Leaf(<<"index", i - 1>>, PathsOf[Types[t].types[1]])])
    [] OTHER -> << <<>> >>
Paths == [t \in DOMAIN Types |-> PathsOf[t]]

CellOf(object, path) ==
  LET paths == Paths[ObjectType(object)] IN CHOOSE i \in DOMAIN paths : paths[i] = path
ValueOf(v) == memory[v.object][CellOf(v.object, v.path)]

\* The variable a designator denotes, with its dynamic type, or what prevents it.
Denoted(how, v) == [how |-> how, variable |-> v]

Pointee(r, value) ==
  CASE value = Nil -> Denoted("trap", r.variable)
    [] value[1] = "reference" -> Denoted("ok", Variable(value[2], tags[value[2]], <<>>))
    [] OTHER -> Denoted("undefined", r.variable)

Component(v, i) ==
  IF i >= Lengths(v.type)[1] THEN Denoted("trap", v)
  ELSE Denoted("ok", Variable(v.object, Types[v.type].types[1], Append(v.path, <<"index", i>>)))
Indexed(v, indices) ==
  FoldLeft(LAMBDA r, i : IF r.how = "ok" THEN Component(r.variable, i) ELSE r, Denoted("ok", v), indices)

\* A guard of a pointer looks at the type of what it points to.
Guarded(r, record, guard) ==
  CASE record.how # "ok" -> record
    [] record.how = "ok" /\ Extends(record.variable.type, guard) -> r
    [] OTHER -> Denoted("trap", r.variable)

MeantSelector(r, sel) ==
  CASE r.how # "ok" -> r
    [] r.how = "ok" /\ sel.node = "field" ->
         Denoted("ok", Variable(r.variable.object, FieldType(Field(r.variable.type, sel.name)),
                                Append(r.variable.path, <<"field", sel.name>>)))
    [] r.how = "ok" /\ sel.node = "index" -> Indexed(r.variable, sel.indices)
    [] r.how = "ok" /\ sel.node = "guard" /\ IsRecord(sel.type) -> Guarded(r, r, sel.type)
    [] OTHER -> LET pointee == Pointee(r, ValueOf(r.variable))
                IN  IF sel.node = "guard" THEN Guarded(r, pointee, Base(sel.type)) ELSE pointee

\* The variable an expression denotes; a string is a variable of its own.
Start(e) ==
  CASE e.form = "string" -> Variable(e.name, ObjectType(e.name), <<>>)
    [] e.form = "designator" /\ IsBound(e.name) -> Binding(e.name).variable
    [] OTHER -> Variable(e.name, e.declaration.type, <<>>)
SelectorsOf(e) == IF e.form = "string" THEN <<>> ELSE e.selectors
Denotes(e) == FoldLeft(MeantSelector, Denoted("ok", Start(e)), SelectorsOf(e))

IsName(e) == e.form = "designator" /\ e.declaration.node = "procedure"

\* The value of an expression that is not structured.
Meant(how, value) == [how |-> IF how = "ok" /\ value = Undefined THEN "undefined" ELSE how, value |-> value]
ValueAt(r) == IF r.how = "ok" THEN Meant("ok", ValueOf(r.variable)) ELSE Meant(r.how, Undefined)
MeantValue(e) ==
  CASE e.form \in {"nil", "number"} -> Meant("ok", e.value)
    [] IsName(e) -> Meant("ok", Procedure(e.name))
    [] OTHER -> ValueAt(Denotes(e))

\* A variable if the expression is structured or passed by reference, and a value
\* if it is not.
Operand(e, isReference) == IF isReference THEN Denotes(e) ELSE MeantValue(e)

---------------------------------------------------------------------------
(* What statements mean: whether they are executed, and what memory holds   *)
(* afterwards.                                                              *)

Outcome(how, m, t) == [how |-> how, memory |-> m, tags |-> t]
Worst(hows) ==
  IF "undefined" \in hows THEN "undefined" ELSE IF "trap" \in hows THEN "trap" ELSE "ok"

\* What the object of the variable v holds when the components of type t have
\* been copied from the variable w.
Rest(v, path) == SubSeq(path, Len(v.path) + 1, Len(path))
Copied(v, w, t) ==
  [i \in DOMAIN memory[v.object] |->
     LET path == Paths[ObjectType(v.object)][i]
     IN  IF IsPrefix(v.path, path) /\ Rest(v, path) \in Range(Paths[t])
         THEN ValueOf(Variable(w.object, t, w.path \o Rest(v, path)))
         ELSE memory[v.object][i]]

\* A variable parameter of a record type takes its dynamic type only.  An array
\* takes as many elements as are given, if it has as many.
Mismatch(st, v, w) ==
  \/ Named!IsVarParameter(st.lvalue) /\ IsRecord(v.type) /\
       v.type # (IF Named!IsVarParameter(st.rvalue) THEN w.type ELSE st.rvalue.type)
  \/ IsArray(v.type) /\ Lengths(v.type)[1] < Lengths(w.type)[1]

CopiedType(st, v, w) ==
  CASE IsArray(v.type) -> w.type
    [] IsRecord(v.type) /\ Named!IsVarParameter(st.lvalue) -> v.type
    [] OTHER -> st.lvalue.type

StructureAssigned(st, v, w) ==
  IF Mismatch(st, v, w) THEN Outcome("trap", memory, tags)
  ELSE Outcome("ok", [memory EXCEPT ![v.object] = Copied(v, w, CopiedType(st, v, w))], tags)

Assigned(st, l, r) ==
  CASE Worst({l.how, r.how}) # "ok" -> Outcome(Worst({l.how, r.how}), memory, tags)
    [] Worst({l.how, r.how}) = "ok" /\ IsStructured(st.lvalue.type) ->
         StructureAssigned(st, l.variable, r.variable)
    [] OTHER -> Outcome("ok", [memory EXCEPT ![l.variable.object][CellOf(l.variable.object, l.variable.path)] = r.value],
                        tags)
MeantAssignment(st) == Assigned(st, Denotes(st.lvalue), Operand(st.rvalue, IsStructured(st.lvalue.type)))

FreeObjects == {o \in Program.heap : tags[o] = Free}
NewObject == CHOOSE o \in FreeObjects : TRUE
Fresh(t) == [i \in DOMAIN Layout[t] |-> Undefined]

Allocated(l, t) ==
  IF l.how # "ok" THEN Outcome(l.how, memory, tags)
  ELSE Outcome("ok", [memory EXCEPT ![l.variable.object][CellOf(l.variable.object, l.variable.path)] = Reference(NewObject),
                                    ![NewObject] = Fresh(t)],
               [tags EXCEPT ![NewObject] = t])
MeantNew(st) == Allocated(Denotes(st.lvalue), Base(st.lvalue.type))

\* What the value parameters of a procedure are given.
ValueParameter(own, object) == {i \in DOMAIN own : own[i].name = object /\ ~ByReference(own[i])}
Given(own, operands) ==
  [o \in DOMAIN memory |->
     IF ValueParameter(own, o) = {} THEN memory[o]
     ELSE <<operands[CHOOSE i \in ValueParameter(own, o) : TRUE].value>>]

MeantArguments(st) ==
  LET formals == Formals(st.procedure.type)
  IN  [i \in DOMAIN formals |-> Operand(st.actuals[i], ByReference(formals[i]))]

CalledWith(callee, operands, hows) ==
  CASE Worst(hows) # "ok" -> Outcome(Worst(hows), memory, tags)
    [] Worst(hows) = "ok" /\ callee = Nil -> Outcome("trap", memory, tags)
    [] OTHER -> Outcome("ok", Given(Formals(Program.procedures[callee[2]]), operands), tags)
HowsOf(callee, operands) == {callee.how} \cup {operands[i].how : i \in DOMAIN operands}
MeantCallOf(callee, operands) == CalledWith(callee.value, operands, HowsOf(callee, operands))
MeantCall(st) == MeantCallOf(MeantValue(st.procedure), MeantArguments(st))

Meaning(st) ==
  CASE st.node = "assignment" -> MeantAssignment(st)
    [] st.node = "new" -> MeantNew(st)
    [] st.node = "call" -> MeantCall(st)
=============================================================================
