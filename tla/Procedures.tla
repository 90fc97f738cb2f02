----------------------------- MODULE Procedures -----------------------------
(***************************************************************************)
(* Modules with nested procedures, as the parser leaves them in the AST    *)
(* and as the lambda lifter leaves them.  A procedure sees its own         *)
(* declarations, those of the procedures around it and those of the        *)
(* module, and a lifted procedure has nothing around it.                   *)
(*                                                                         *)
(* A variable is an INTEGER or an environment, i.e. a record with a field  *)
(* for each parameter and variable of a procedure.  The type of the        *)
(* environment of P is named P.  Expressions are a variable, or a field of *)
(* it, plus a number.  Statements are in a row as they are in the text: a  *)
(* branch is followed by the statements that it guards.                    *)
(***************************************************************************)
EXTENDS Integers, Sequences, SequencesExt

CONSTANTS Module,       \* owner of the module's own variables
          Integer,      \* the type INTEGER
          Literal,      \* the "variable" of an expression that has none
          None          \* no expression

Decl(p, x) == [proc |-> p, name |-> x]

Formal(x, var, type) == [name |-> x, var |-> var, type |-> type]
Variable(x, type) == [name |-> x, type |-> type]

(* QualifiedExpression: a declaration and its selectors. *)
Ref(decl, path, add) == [decl |-> decl, path |-> path, add |-> add]
Plain(decl) == Ref(decl, <<>>, 0)
Number(n) == Ref(Literal, <<>>, n)

Assign(lhs, rhs) == [op |-> "assign", lhs |-> lhs, rhs |-> rhs]
CallTo(to, p, args) == [op |-> "call", proc |-> p, args |-> args, to |-> to]
\* Guards the next n statements.
If(cond, n) == [op |-> "if", cond |-> cond, then |-> n]
Return(value) == [op |-> "return", value |-> value]

(* ProcedureDefinitionNode: scope is the level it is declared at. *)
Procedure(scope, params, vars, nested, body) ==
    [scope |-> scope, params |-> params, vars |-> vars, nested |-> nested,
     body |-> body]

(* ModuleNode: order is the list of its procedures. *)
Program(procs, order, globals, records, body) ==
    [procs |-> procs, order |-> order, globals |-> globals, records |-> records, body |-> body]

-----------------------------------------------------------------------------
(* What a program mentions. *)

Names(fields) == {fields[i].name : i \in DOMAIN fields}
FieldOf(fields, x) == fields[CHOOSE i \in DOMAIN fields : fields[i].name = x]

Own(procs, p) ==
    {Decl(p, x) : x \in Names(procs[p].params) \cup Names(procs[p].vars)}

Expressions(body) ==
    (UNION {CASE s.op = "assign" -> {s.lhs, s.rhs}
              [] s.op = "call" -> ToSet(s.args) \cup {s.to}
              [] s.op = "if" -> {s.cond}
              [] s.op = "return" -> {s.value} : s \in ToSet(body)}) \ {None}

Mentions(body) == {e.decl : e \in Expressions(body)} \ {Literal}

Calls(body) == {s \in ToSet(body) : s.op = "call"}

(* The procedures declared in p, at any depth. *)
Inside(procs, p) ==
    {q \in DOMAIN procs : \A S \in SUBSET DOMAIN procs :
        (\A r \in S \cup {p} : ToSet(procs[r].nested) \subseteq S) => q \in S}

Around(procs, p) == {q \in DOMAIN procs : p \in Inside(procs, q)}

DeclType(procs, d) ==
    IF d.proc = Module THEN Integer
    ELSE FieldOf(procs[d.proc].params \o procs[d.proc].vars, d.name).type

TypeOf(program, e) ==
    LET type[n \in 0 .. Len(e.path)] ==
            IF n = 0 THEN DeclType(program.procs, e.decl)
            ELSE FieldOf(program.records[type[n - 1]], e.path[n]).type
    IN  IF e.decl = Literal THEN Integer ELSE type[Len(e.path)]

(* The actual parameters are as many as the formal ones and of their types. *)
Fits(program, s) ==
    LET formals == program.procs[s.proc].params
    IN  /\ Len(s.args) = Len(formals)
        /\ \A i \in DOMAIN formals : TypeOf(program, s.args[i]) = formals[i].type

-----------------------------------------------------------------------------
(* What the semantic analysis accepts. *)

IsSequence(s) == s \in Seq(ToSet(s))
Distinct(s) == \A i, j \in DOMAIN s : s[i] = s[j] => i = j

(* Every procedure of a scope deeper than the module's is in one other.    *)
NestingOK(procs) ==
    /\ \A p \in DOMAIN procs :
          /\ procs[p].scope \in Nat \ {0}
          /\ IsSequence(procs[p].nested) /\ Distinct(procs[p].nested)
          /\ ToSet(procs[p].nested) \subseteq DOMAIN procs
          /\ \A q \in ToSet(procs[p].nested) : procs[q].scope = procs[p].scope + 1
          /\ procs[p].scope > 1 => \E q \in DOMAIN procs : p \in ToSet(procs[q].nested)
    /\ \A p, q \in DOMAIN procs : ToSet(procs[p].nested) \cap ToSet(procs[q].nested) # {} => p = q

(* The declarations of a procedure have names of their own. *)
DeclarationsOK(node) ==
    /\ IsSequence(node.params) /\ IsSequence(node.vars)
    /\ \A f \in ToSet(node.params) : f = Formal(f.name, f.var, Integer)
    /\ \A v \in ToSet(node.vars) : v = Variable(v.name, Integer)
    /\ \A i, j \in DOMAIN (node.params \o node.vars) :
          (node.params \o node.vars)[i].name = (node.params \o node.vars)[j].name => i = j

Sees(procs, p) == {p} \cup Around(procs, p)

ExpressionOK(program, p, e) ==
    /\ e = Ref(e.decl, <<>>, e.add)
    /\ e.decl \in {Literal} \cup {Decl(Module, x) : x \in ToSet(program.globals)}
                 \cup UNION {Own(program.procs, q) : q \in Sees(program.procs, p)}

StatementOK(program, p, s) ==
    LET accepted(e) == ExpressionOK(program, p, e)
        optional(e) == e = None \/ accepted(e)
        procs == program.procs
    IN  \/ s.op = "assign" /\ s = Assign(s.lhs, s.rhs) /\ accepted(s.lhs) /\ accepted(s.rhs)
        \/ s.op = "if" /\ s = If(s.cond, s.then) /\ accepted(s.cond)
        \/ s.op = "return" /\ s = Return(s.value) /\ optional(s.value)
        \/ /\ s.op = "call" /\ s = CallTo(s.to, s.proc, s.args) /\ optional(s.to)
           /\ s.proc \in DOMAIN procs
           /\ procs[s.proc].scope = 1 \/ \E q \in Sees(procs, p) : s.proc \in ToSet(procs[q].nested)
           /\ IsSequence(s.args) /\ Len(s.args) = Len(procs[s.proc].params)
           /\ \A i \in DOMAIN s.args : accepted(s.args[i])

Accepted(program) ==
    LET procs == program.procs IN
    /\ program = Program(procs, program.order, program.globals, program.records, program.body)
    /\ {Module, Integer} \cap DOMAIN procs = {}
    /\ IsSequence(program.order) /\ Distinct(program.order)
    /\ ToSet(program.order) = {p \in DOMAIN procs : procs[p].scope = 1}
    /\ NestingOK(procs)
    /\ \A p \in DOMAIN procs :
          /\ procs[p] = Procedure(procs[p].scope, procs[p].params, procs[p].vars,
                                  procs[p].nested, procs[p].body)
          /\ DeclarationsOK(procs[p])
          /\ IsSequence(procs[p].body)
          /\ \A s \in ToSet(procs[p].body) : StatementOK(program, p, s)
=============================================================================
