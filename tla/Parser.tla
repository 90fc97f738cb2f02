------------------------------- MODULE Parser -------------------------------
(***************************************************************************)
(* The recursive-descent parser, run on the tokens of a file.  The stack   *)
(* of C++ calls is a list of what is left to do; the trees under           *)
(* construction are a stack of values.  A step consumes a token, and does  *)
(* all that follows up to the next one.                                    *)
(*                                                                         *)
(* Of the semantic actions the machine has what decides the course of the  *)
(* parser or depends on it: the null results they report and return, those *)
(* they dereference, reported or not, the loops and scopes they count, and *)
(* the names that must agree.  Names have whatever declaration lets these  *)
(* actions get furthest, but that in some places, which belong to the      *)
(* input, a left operand and the labels of a CASE are no constants.        *)
(***************************************************************************)
EXTENDS Productions, SequencesExt

CONSTANTS Inputs,       \* the files: tokens, the tree they were written from, what was changed since, and
                        \* the positions behind an operation with a left operand, or a CASE with labels,
                        \* that are no constants and no types
          Procedures,   \* the identifiers that name procedures
          Modules,      \* the identifiers that no declaration defines
          Burst         \* a step executes so many instructions at most

(* The nodes that are told from others by their kind are no tokens. *)
NodeKinds == {"null", "designator", "index", "parameters", "heading"}
ASSUME ParserAssumption ==
    /\ \A i \in Inputs : i.tokens \in Seq(STRING \ NodeKinds)
    /\ Burst \in Nat \ {0}

ErrorBound == 2                             \* errors are counted up to this

VARIABLES input, parser
vars == <<input, parser>>

(* A node is a kind and its children; the kind of a leaf is its token. *)
Node(kind, kids) == [kind |-> kind, kids |-> kids]
Leaf(token) == Node(token, <<>>)

(* Logger::error *)
Report(m) == [m EXCEPT !.errors = IF @ < ErrorBound THEN @ + 1 ELSE @]
Top(m) == Last(m.values)
Below(m, n) == m.values[Len(m.values) - n]
Pop(m, n) == [m EXCEPT !.values = SubSeq(@, 1, Len(@) - n)]
Push(m, node) == [m EXCEPT !.values = Append(@, node)]
Operands(m, n) == SubSeq(m.values, Len(m.values) - n + 1, Len(m.values))
(* a null pointer is dereferenced: the process ends *)
Crash(m) == [m EXCEPT !.crashed = TRUE, !.todo = <<>>]
(* the same by a semantic action that neither finds nor reports an error *)
Lapse(m) == [Crash(m) EXCEPT !.lapsed = TRUE]

(* scanner_.peek(), scanner_.next(): the end of the file is never consumed *)
Peeked(m) == IF m.at \in DOMAIN input.tokens THEN input.tokens[m.at] ELSE "eof"
Skipped(m) == [m EXCEPT !.at = IF @ \in DOMAIN input.tokens THEN @ + 1 ELSE @]

Holds(m, test) ==
    CASE test.on = "peek" -> Peeked(m) \in test.in
      [] test.on = "member" -> m.member \in test.in
      [] test.on = "local" -> m.local \in test.in
      [] test.on = "value" -> Top(m).kind \in test.in
      [] test.on = "module" -> Top(m).kind \in Modules \cup {"undef"}
      [] test.on = "empty" -> Top(m).kids = <<>>
      [] test.on = "varargs" -> \E n \in Range(Top(m).kids) : n.kind = "varargs"

-----------------------------------------------------------------------------
(* The semantic actions. *)
(* Those that report a missing operand and return null in turn *)
Needed ==
    [negation |-> {1}, not |-> {1}, range |-> {1, 2}, if |-> {1}]
HasNull(nodes) == \E n \in Range(nodes) : n.kind = "null"
(* onSelectors: an index is looked at, and so is the one parameter of a    *)
(* type guard                                                              *)
SelectsNull(n) ==
    LET name == Last(<<n.kids[1]>> \o n.kids[1].kids).kind IN
    \E s \in Range(n.kids[2].kids) :
        /\ s.kind \in {"index", "parameters"}
        /\ HasNull(s.kids[1].kids)
        /\ s.kind = "index" \/ (name \notin Procedures /\ Len(s.kids[1].kids) = 1)
(* onQualifiedStatement: parameters, or the name of a procedure *)
IsCall(n) ==
    LET name == Last(<<n.kids[1]>> \o n.kids[1].kids).kind
        selectors == n.kids[2].kids IN
    IF selectors = <<>> THEN name \in Procedures ELSE Last(selectors).kind = "parameters"
NameOf(n) == Last(<<n>> \o n.kids).kind
NoConstant(m, n) == n.kind \notin Literals /\ m.at \in input.variables
(* The name of the procedure whose header is being parsed: it is declared, *)
(* and has no type before its body.                                        *)
Untyped(m, name) ==
    /\ call("procedure_body") \in Range(m.todo)
    /\ LET h == SelectLastInSeq(m.values, LAMBDA n : n.kind = "heading")
       IN  h # 0 /\ NameOf(m.values[h].kids[1]) = name
(* Each takes the machine before, the operands, and the machine after. *)
onOperands(m, kids, done, n, positions) ==
    IF \E i \in positions : kids[i].kind = "null" THEN Push(Pop(Report(m), n), Leaf("null")) ELSE done
(* x IN s: with a constant set, x is taken to be a literal by the folding. *)
onBinaryExpression(m, kids, done) ==
    IF kids[2].kind = "IN" /\ NoConstant(m, kids[1]) /\ kids[3].kind \notin Literals THEN Lapse(m) ELSE done
onCaseLabel(m, labels) == IF HasNull(labels.kids) THEN Crash(m) ELSE m
onSetExpression(m, elements, done) == IF HasNull(elements.kids) THEN Crash(m) ELSE done
(* CASE on a pointer or a record: a name that labels an arm is taken to be *)
(* that of a type.                                                         *)
onCaseOfEnd(m, arms, done) ==
    IF \E arm \in Range(arms) : LET label == arm.kids[1].kids[1]
                                IN  label.kind = "qualified" /\ NoConstant(m, label)
    THEN Lapse(m) ELSE done
onQualifiedExpression(m, designated, done) ==
    IF SelectsNull(designated) THEN Crash(m)
    ELSE IF designated.kids[2].kids = <<>> /\ Untyped(m, designated.kids[1].kind) THEN Lapse(m) ELSE done
onQualifiedStatement(m, designated, done) ==
    IF SelectsNull(designated) THEN Crash(m)
    ELSE IF IsCall(designated) THEN done ELSE Push(Pop(Report(m), 1), Leaf("null"))
onExit(m, done) == IF m.loops = 0 THEN Report(done) ELSE done
onForLoop(low, high, done) == IF HasNull(<<low, high>>) THEN Report(done) ELSE done
onArrayType(indices, type_, done) ==
    IF indices.kids = <<>> \/ HasNull(indices.kids \o <<type_>>) THEN Report(done) ELSE done
onModuleEnd(start, end, done) == IF start # end THEN Report(done) ELSE done
onProcedureDefinitionEnd(start, end, done) ==
    IF NameOf(start.kids[1]) # end.kind THEN Report(done) ELSE done
Sema(m, kind, n) ==
    LET k == Operands(m, n)
        done == Push(Pop(m, n), Node(kind, k)) IN
    CASE kind \in DOMAIN Needed -> onOperands(m, k, done, n, Needed[kind])
      [] kind = "binary" -> onOperands(m, k, onBinaryExpression(m, k, done), n, {1, 3})
      [] kind = "labels" -> onCaseLabel(m, k[1])
      [] kind = "case" -> onCaseOfEnd(m, k[2].kids, done)
      [] kind = "set" -> onSetExpression(m, k[1], done)
      [] kind = "qualified" -> onQualifiedExpression(m, k[1], done)
      [] kind = "call" -> onQualifiedStatement(m, k[1], done)
      [] kind = "exit" -> onExit(m, done)
      [] kind = "for" -> onForLoop(k[2], k[3], done)
      [] kind = "array" -> onArrayType(k[1], k[2], done)
      [] kind = "module" -> onModuleEnd(k[1], k[5], done)
      [] kind = "procedure" -> onProcedureDefinitionEnd(k[1], k[5], done)

(* vector::push_back *)
Appended(m, node) == Push(Pop(m, 2), [Below(m, 1) EXCEPT !.kids = Append(@, node)])
(* StatementSequenceNode::addStatement drops a null. *)
addStatement(m, node) == IF node.kind = "null" THEN Pop(m, 1) ELSE Appended(m, node)

-----------------------------------------------------------------------------
(* What instruction i does, `rest' being what is left to do after it.      *)
Leaves(i) == i.op \in {"next", "resync"}
AfterLoop(rest) ==
    LET loops == {k \in DOMAIN rest : rest[k].op \in {"while", "forever"}}
    IN SubSeq(rest, 1 + CHOOSE k \in loops : \A j \in loops : k <= j, Len(rest))
Continue(m, i, rest) ==
    CASE i.op = "call" -> Production[i.of] \o rest
      [] i.op = "when" -> (IF Holds(m, i.test) THEN i.then ELSE i.else) \o rest
      [] i.op = "while" -> IF Holds(m, i.test) THEN i.body \o <<i>> \o rest ELSE rest
      [] i.op = "forever" -> i.body \o <<i>> \o rest
      [] i.op = "break" -> AfterLoop(rest)
      [] OTHER -> rest
Effect(m, i) ==
    CASE i.op = "look" -> [m EXCEPT !.local = Peeked(m)]
      [] i.op = "report" -> Report(m)
      [] i.op = "leaf" -> Push(m, Leaf(m.member))
      [] i.op = "value" -> Push(m, Leaf(Peeked(m)))
      [] i.op = "push" -> Push(m, Leaf(i.kind))
      [] i.op = "append" -> Appended(m, Top(m))
      [] i.op = "add" -> addStatement(m, Top(m))
      [] i.op = "drop" -> Pop(m, i.n)
      [] i.op = "make" -> Push(Pop(m, i.n), Node(i.kind, Operands(m, i.n)))
      [] i.op = "sema" -> Sema(m, i.kind, i.n)
      [] i.op = "count" -> IF i.of = "loops" THEN [m EXCEPT !.loops = @ + i.by]
                                             ELSE [m EXCEPT !.scopes = @ + i.by]
      [] i.op = "deref" -> IF Below(m, i.depth - 1).kind # "null" THEN m
                           ELSE Crash(IF i.report THEN Report(m) ELSE m)
      [] i.op = "stale" -> [(IF i.report THEN Report(m) ELSE m) EXCEPT !.dangling = @ \/ i.report \/ m.skipped]
      [] i.op = "when" -> IF i.report /\ ~Holds(m, i.test) THEN Report(m) ELSE m
      [] OTHER -> m
Performed(m) ==
    LET i == Head(m.todo) IN Effect([m EXCEPT !.todo = Continue(m, i, Tail(m.todo))], i)
Stops(m) == m.todo = <<>> \/ Leaves(Head(m.todo))
(* What is done before the next token is consumed: all of it, or the first *)
(* Burst instructions.                                                     *)
Stepped(m) == IF Stops(m) THEN m ELSE Performed(m)
Advance(machine) ==
    LET after[n \in 0 .. Burst] ==
            IF n = 0 THEN machine
            ELSE CHOOSE m \in {Stepped(before) : before \in {after[n - 1]}} : TRUE
    IN  after[Burst]

Init == /\ input \in Inputs
        /\ parser = [todo |-> <<call("module")>>, at |-> 1, member |-> "none", local |-> "none",
                     values |-> <<>>, errors |-> 0, crashed |-> FALSE, lapsed |-> FALSE, loops |-> 0, scopes |-> 0,
                     skipped |-> FALSE, dangling |-> FALSE, silent |-> FALSE]

(* The parser starts with the production of a module; it has more to do   *)
(* than a burst.                                                           *)
Proceed == /\ ~Stops(parser)
           /\ parser' = Advance(parser)
           /\ UNCHANGED input
(* scanner_.next(), kept in token_, in a local variable or not at all *)
Consume ==
    /\ parser.todo # <<>>
    /\ LET i == Head(parser.todo)
           m == [Skipped(parser) EXCEPT !.todo = Tail(@)] IN
       /\ i.op = "next"
       /\ parser' = Advance(CASE i.to = "member" -> [m EXCEPT !.member = Peeked(parser)]
                              [] i.to = "local" -> [m EXCEPT !.local = Peeked(parser)]
                              [] OTHER -> m)
    /\ UNCHANGED input
(* resync(types): one more token is skipped, or the right one is there *)
Unwanted(i) == Peeked(parser) \notin i.types \cup {"eof"}
Skip == /\ parser.todo # <<>>
        /\ Head(parser.todo).op = "resync"
        /\ Unwanted(Head(parser.todo))
        /\ parser' = [Skipped(parser) EXCEPT !.skipped = TRUE, !.silent = @ \/ parser.errors = 0]
        /\ UNCHANGED input
Synced == /\ parser.todo # <<>>
          /\ Head(parser.todo).op = "resync"
          /\ ~Unwanted(Head(parser.todo))
          /\ parser' = [Advance([parser EXCEPT !.todo = Tail(@)]) EXCEPT !.skipped = FALSE]
          /\ UNCHANGED input

Next == Proceed \/ Consume \/ Skip \/ Synced
(* The parser is a thread that does nothing but run. *)
Spec == Init /\ [][Next]_vars /\ WF_vars(Next)

-----------------------------------------------------------------------------
Ended == parser.todo = <<>>

(* The counts that semantic actions keep for the whole file are back where *)
(* they were, after whatever errors: a loop or a scope is left once for    *)
(* each time it is entered.                                                *)
CountsAreBalanced ==
    (Ended /\ ~parser.crashed) => parser.loops = 0 /\ parser.scopes = 0 /\ Len(parser.values) = 1

(* A null pointer or a token that is gone is used after a reported error   *)
(* only: a program without errors is compiled by defined steps, but for    *)
(* three uses of names that semantic analysis does not look into, where    *)
(* it falls over a null in silence: the left operand of IN before a        *)
(* constant set that is no constant itself (Sema.cpp:2029), the label of a *)
(* CASE on a pointer or record that names no type (Sema.cpp:652), and a    *)
(* procedure's own name in an array length of its result (Sema.cpp:885).   *)
UndefinedOnlyAfterError ==
    (parser.crashed \/ parser.dangling) => parser.errors > 0 \/ parser.lapsed

(* Whatever the file, the parser gets to its end. *)
ParsingEnds == <>Ended
=============================================================================
