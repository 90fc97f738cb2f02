------------------------------ MODULE Grammar ------------------------------
(***************************************************************************)
(* What a syntax tree says, written out again: the reference the parser is *)
(* held against, and what the parser does with texts that were written so. *)
(***************************************************************************)
EXTENDS Parser

List(kids) == Node("list", kids)
Statements(kids) == Node("statements", kids)

(* The looser an operator binds, the smaller its level: a comparison, a    *)
(* sum or a sign before it, a product, a negation, all else.               *)
Level(n) ==
    IF n.kind = "negation" THEN 1
    ELSE IF n.kind = "not" THEN 3
    ELSE IF n.kind # "binary" THEN 4
    ELSE IF n.kids[2].kind \in {"+", "-", "OR"} THEN 1
    ELSE IF n.kids[2].kind \in {"*", "/", "DIV", "MOD", "&"} THEN 2 ELSE 0

Joined(texts, separator) ==
    IF texts = <<>> THEN <<>> ELSE FoldLeft(LAMBDA t, u : t \o separator \o u, Head(texts), Tail(texts))
Optional(before, text) == IF text = <<>> THEN <<>> ELSE before \o text

RECURSIVE Text(_)
TextAt(level, n) == IF Level(n) < level THEN <<"(">> \o Text(n) \o <<")">> ELSE Text(n)
Texts(n) == [i \in DOMAIN n.kids |-> Text(n.kids[i])]
Listed(n, separator) == Joined(Texts(n), separator)
Section(keyword, n) ==
    Optional(<<keyword>>, FlattenSeq([i \in DOMAIN n.kids |-> Text(n.kids[i]) \o <<";">>]))
Elsifs(n, keyword) ==
    FlattenSeq([i \in DOMAIN n.kids |->
        <<"ELSIF">> \o Text(n.kids[i].kids[1]) \o <<keyword>> \o Text(n.kids[i].kids[2])])

TextOfDeclaration(n) ==
    LET K(i) == Text(n.kids[i]) IN
    CASE n.kind = "module" ->
            <<"MODULE">> \o K(1) \o <<";">>
              \o (IF n.kids[2].kids = <<>> THEN <<>> ELSE <<"IMPORT">> \o Listed(n.kids[2], <<",">>) \o <<";">>)
              \o K(3) \o Optional(<<"BEGIN">>, K(4)) \o <<"END">> \o K(5) \o <<".">>
      [] n.kind = "alias" -> K(1) \o <<":=">> \o K(2)
      [] n.kind = "declarations" ->
            Section("CONST", n.kids[1]) \o Section("TYPE", n.kids[2]) \o Section("VAR", n.kids[3])
              \o FlattenSeq(Texts(n.kids[4]))
      [] n.kind \in {"const", "type"} -> K(1) \o <<"=">> \o K(2)
      [] n.kind \in {"var", "fields"} -> Listed(n.kids[1], <<",">>) \o <<":">> \o K(2)
      [] n.kind = "procedure" ->
            <<"PROCEDURE">> \o K(1) \o K(2) \o <<";">> \o K(3) \o Optional(<<"BEGIN">>, K(4))
              \o <<"END">> \o K(5) \o <<";">>
      [] n.kind = "external" ->
            <<"PROCEDURE", "[">> \o K(1) \o <<"]">> \o K(2) \o K(3) \o <<";", "EXTERNAL", "[">> \o K(4)
              \o <<"]", ";">>
TextOfType(n) ==
    LET K(i) == Text(n.kids[i]) IN
    CASE n.kind = "array" -> <<"ARRAY">> \o Listed(n.kids[1], <<",">>) \o <<"OF">> \o K(2)
      [] n.kind = "record" ->
            <<"RECORD">> \o (IF n.kids[1].kind = "none" THEN <<>> ELSE <<"(">> \o K(1) \o <<")">>)
              \o Listed(n.kids[2], <<";">>) \o <<"END">>
      [] n.kind = "pointer" -> <<"POINTER", "TO">> \o K(1)
      [] n.kind = "signature" -> <<"PROCEDURE">> \o K(1)
      [] n.kind = "formals" -> <<"(">> \o Listed(n.kids[1], <<";">>) \o <<")">> \o Optional(<<":">>, K(2))
      [] n.kind = "section" -> K(1) \o Listed(n.kids[2], <<",">>) \o <<":">> \o K(3)
      [] n.kind = "formal_type" -> FlattenSeq(Texts(n.kids[1])) \o K(2)
      [] n.kind = "dimension" -> <<"ARRAY", "OF">>
      [] n.kind = "varargs" -> <<"...">>
TextOfStatement(n) ==
    LET K(i) == Text(n.kids[i]) IN
    CASE n.kind = "assignment" -> K(1) \o <<":=">> \o K(2)
      [] n.kind = "exit" -> <<"EXIT">>
      [] n.kind = "return" -> <<"RETURN">> \o K(1)
      [] n.kind = "if" ->
            <<"IF">> \o K(1) \o <<"THEN">> \o K(2) \o Elsifs(n.kids[3], "THEN") \o Optional(<<"ELSE">>, K(4))
              \o <<"END">>
      [] n.kind = "loop" -> <<"LOOP">> \o K(1) \o <<"END">>
      [] n.kind = "while" -> <<"WHILE">> \o K(1) \o <<"DO">> \o K(2) \o Elsifs(n.kids[3], "DO") \o <<"END">>
      [] n.kind = "repeat" -> <<"REPEAT">> \o K(1) \o <<"UNTIL">> \o K(2)
      [] n.kind = "for" ->
            <<"FOR">> \o K(1) \o <<":=">> \o K(2) \o <<"TO">> \o K(3) \o Optional(<<"BY">>, K(4)) \o <<"DO">>
              \o K(5) \o <<"END">>
      [] n.kind = "case" ->
            <<"CASE">> \o K(1) \o <<"OF">> \o Listed(n.kids[2], <<"|">>) \o Optional(<<"ELSE">>, K(3)) \o <<"END">>
      [] n.kind = "arm" -> Listed(n.kids[1], <<",">>) \o <<":">> \o K(2)
TextOfExpression(n) ==
    LET K(i) == Text(n.kids[i])
        From(level, i) == TextAt(level, n.kids[i]) IN
    CASE n.kind = "binary" ->
            LET l == Level(n) IN From(IF l = 0 THEN 1 ELSE l, 1) \o K(2) \o From(l + 1, 3)
      [] n.kind = "negation" -> <<"-">> \o From(2, 1)
      [] n.kind = "not" -> <<"~">> \o From(4, 1)
      [] n.kind = "range" -> From(0, 1) \o <<"..">> \o From(0, 2)
      [] n.kind = "set" -> <<"{">> \o Listed(n.kids[1], <<",">>) \o <<"}">>
      [] n.kind = "designator" -> K(1) \o FlattenSeq(Texts(n.kids[2]))
      [] n.kind = "qualident" -> K(1) \o <<".">> \o K(2)
      [] n.kind = "exported" -> K(1) \o <<"*">>
      [] n.kind = "field" -> <<".">> \o K(1)
      [] n.kind = "index" -> <<"[">> \o Listed(n.kids[1], <<",">>) \o <<"]">>
      [] n.kind = "dereference" -> <<"^">>
      [] n.kind = "parameters" -> <<"(">> \o Listed(n.kids[1], <<",">>) \o <<")">>
Text(n) ==
    CASE n.kind \in {"none", "null"} -> <<>>
      [] n.kind = "statements" -> Listed(n, <<";">>)
      [] n.kind \in {"import", "qualified", "call", "heading"} -> Text(n.kids[1])
      [] n.kind \in {"module", "alias", "declarations", "const", "type", "var", "fields", "procedure",
                     "external"} -> TextOfDeclaration(n)
      [] n.kind \in {"array", "record", "pointer", "signature", "formals", "section", "formal_type",
                     "dimension", "varargs"} -> TextOfType(n)
      [] n.kind \in {"assignment", "exit", "return", "if", "loop", "while", "repeat", "for", "case",
                     "arm"} -> TextOfStatement(n)
      [] n.kind \in {"binary", "negation", "not", "range", "set", "designator", "qualident", "exported",
                     "field", "index", "dereference", "parameters"} -> TextOfExpression(n)
      [] OTHER -> <<n.kind>>

-----------------------------------------------------------------------------
(* What a text says, but for what the language or the parser lets one      *)
(* leave out or add: parentheses, semicolons, a plus sign, a bar before    *)
(* the first case, and BEGIN and ELSE when nothing follows.                *)
Kept(tokens, Keep(_, _)) ==
    FoldLeftDomain(LAMBDA kept, i : IF Keep(tokens, i) THEN Append(kept, tokens[i]) ELSE kept, <<>>, tokens)
At(tokens, i) == IF i \in DOMAIN tokens THEN tokens[i] ELSE "eof"
IsSign(operands, tokens, i) == tokens[i] = "+" /\ At(tokens, i - 1) \notin operands \cup {")", "]", "}", "^"}
Says(operands, tokens) ==
    LET signless == Kept(tokens, LAMBDA t, i : ~IsSign(operands, t, i))
        bare == Kept(signless, LAMBDA t, i : t[i] \notin {"(", ")", ";"})
    IN Kept(bare, LAMBDA t, i : /\ ~(t[i] = "|" /\ At(t, i - 1) = "OF")
                                /\ ~(t[i] \in {"BEGIN", "ELSE"} /\ At(t, i + 1) = "END"))
-----------------------------------------------------------------------------
Tree == parser.values[1]
Consumed == SubSeq(input.tokens, 1, parser.at - 1)

(* A program that is written as the language demands is parsed without an  *)
(* error, into the tree it was written from: precedence, associativity,    *)
(* the dangling cases of selectors and module names, optional parts.  A    *)
(* forgotten semicolon costs exactly one message: what follows is parsed   *)
(* as if it were there.                                                    *)
RoundTrip ==
    Ended /\ input.edit \in {"none", "semicolon"} =>
        /\ parser.errors = IF input.edit = "none" THEN 0 ELSE 1
        /\ ~parser.crashed /\ Tree = input.tree

(* A file that is accepted says what its tree says: no token is lost,      *)
(* invented or moved, whatever the file is, but for tokens that            *)
(* resynchronisation skips where nothing was wrong: after the type of a    *)
(* field and between the END of a procedure and its name.                  *)
AcceptedIsMeant ==
    (Ended /\ parser.errors = 0 /\ ~parser.crashed /\ ~parser.silent) =>
        Says(Idents \cup Literals, Text(Tree)) = Says(Idents \cup Literals, Consumed)
=============================================================================
