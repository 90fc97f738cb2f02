---------------------------- MODULE Productions ----------------------------
(***************************************************************************)
(* The productions of the recursive-descent parser, as the code has them:  *)
(* each is the list of what it does, in order.  Logging is left out but    *)
(* for errors, and so are positions.                                       *)
(*                                                                         *)
(* A token is its type, but for identifiers and literals, which are the    *)
(* members of Idents and Literals.  Configuration flags are set.           *)
(***************************************************************************)
EXTENDS Integers, Sequences

CONSTANTS Idents, Literals

(* What a test looks at: the next token, the member token_, the local      *)
(* token, the value on the top of the stack.                               *)
Peek(types) == [on |-> "peek", in |-> types]
Member(types) == [on |-> "member", in |-> types]
Local(types) == [on |-> "local", in |-> types]
IsNull == [on |-> "value", in |-> {"null"}]
IsModule == [on |-> "module", in |-> {}]
IsEmpty == [on |-> "empty", in |-> {}]
HasVarargs == [on |-> "varargs", in |-> {}]

next == [op |-> "next", to |-> "nothing"]           \* scanner_.next()
take == [op |-> "next", to |-> "member"]            \* token_ = scanner_.next()
fetch == [op |-> "next", to |-> "local"]            \* token = scanner_.next()
look == [op |-> "look"]                             \* token = scanner_.peek()
resync(types) == [op |-> "resync", types |-> types]
report == [op |-> "report"]
leaf == [op |-> "leaf"]                             \* the token in token_ as a value
value == [op |-> "value"]                           \* the next token as a value
push(kind) == [op |-> "push", kind |-> kind]
list == push("list")
statements == push("statements")                    \* a sequence that drops null statements
null == push("null")
append == [op |-> "append"]
add == [op |-> "add"]                               \* the same, in a sequence of statements
drop(n) == [op |-> "drop", n |-> n]
make(kind, n) == [op |-> "make", kind |-> kind, n |-> n]
sema(kind, n) == [op |-> "sema", kind |-> kind, n |-> n]
deref(depth) == [op |-> "deref", depth |-> depth, report |-> FALSE]  \* a pointer on the stack of values
needs(depth) == [deref(depth) EXCEPT !.report = TRUE]                \* the same, and a null is reported first
stale == [op |-> "stale", report |-> FALSE]         \* the token that was peeked is read again
report_stale == [stale EXCEPT !.report = TRUE]      \* an error at a token that is gone
scope(d) == [op |-> "count", of |-> "scopes", by |-> d]
loop(d) == [op |-> "count", of |-> "loops", by |-> d]
call(p) == [op |-> "call", of |-> p]
when(c, then, else) == [op |-> "when", test |-> c, report |-> FALSE, then |-> then, else |-> else]
unless(c, else) == when(c, <<>>, else)
while(c, body) == [op |-> "while", test |-> c, body |-> body]
forever(body) == [op |-> "forever", body |-> body]
break == [op |-> "break"]
(* assertToken: an error unless the test holds *)
assert(c, then, else) == [op |-> "when", test |-> c, report |-> TRUE, then |-> then, else |-> else]
expect(types) == assert(Peek(types), <<>>, <<resync(types)>>)

Enders == {"END", "ELSIF", "ELSE", "UNTIL", "|"}
Starters == Idents \cup {"IF", "CASE", "LOOP", "REPEAT", "FOR", "WHILE", "EXIT", "RETURN"}
AfterType == {";", ")", "END"}
Sections == <<"CONST", "TYPE", "VAR", "PROCEDURE", "BEGIN", "END">>
SectionsFrom(k) == {Sections[i] : i \in k .. Len(Sections)}

-----------------------------------------------------------------------------
ident ==
    <<assert(Peek(Idents), <<take, leaf>>,
        <<resync({"END", "ELSE", "ELSIF", "THEN", "UNTIL", "BY", "DO", "TO", "MOD", "DIV", "OR",
                  "<=", "<", "=", "#", ">", ">=", "+", "-", "*", "&", ":=", "]", "[", ")", "(",
                  ";", ":", ",", "."}), stale, push("undef")>>)>>
qualident ==
    <<call("ident"),
      when(IsModule, <<when(Peek({"."}),
        <<next, assert(Peek(Idents), <<call("ident"), make("qualident", 2)>>, <<>>)>>, <<>>)>>, <<>>)>>
identdef == <<call("ident"), when(Peek({"*"}), <<next, make("exported", 1)>>, <<>>)>>
ident_list ==
    <<list, forever(<<
        when(Peek(Idents), <<call("identdef"), append>>, <<report, break>>),
        when(Peek({","}), <<next>>, <<when(Peek(Idents), <<report>>,
          <<when(Peek({":"}), <<break>>, <<report, resync({":"}), break>>)>>)>>)>>)>>

module ==
    <<take, assert(Member({"MODULE"}), <<>>, <<resync({"eof"})>>),
      call("ident"), scope(1),
      take, assert(Member({";"}), <<>>, <<resync({"IMPORT"} \cup SectionsFrom(1))>>),
      when(Peek({"IMPORT"}), <<call("import_list")>>, <<list>>),
      call("declarations"),
      take, when(Member({"BEGIN"}), <<call("statement_sequence"), take>>, <<statements>>),
      assert(Member({"END"}), <<>>, <<resync({"eof"})>>),
      call("ident"),
      take, assert(Member({"."}), <<>>, <<resync({"eof"})>>),
      scope(-1), sema("module", 5)>>
import_list ==
    <<next, list, forever(<<
        call("import"),
        when(Peek({","}), <<next>>, <<when(Peek(Idents), <<report>>,
          <<when(Peek({";"}), <<next, break>>,
              <<report, resync(SectionsFrom(1) \ {"END"}), break>>)>>)>>)>>)>>
import ==
    <<assert(Peek(Idents),
        <<call("ident"), when(Peek({":="}),
            <<next, assert(Peek(Idents), <<call("ident"), make("alias", 2), append>>, <<drop(1)>>)>>,
            <<make("import", 1), append>>)>>, <<>>)>>

declarations ==
    <<when(Peek({"CONST"}), <<call("const_declarations")>>, <<list>>), expect(SectionsFrom(2)),
      when(Peek({"TYPE"}), <<call("type_declarations")>>, <<list>>), expect(SectionsFrom(3)),
      when(Peek({"VAR"}), <<call("var_declarations")>>, <<list>>), expect(SectionsFrom(4)),
      list, while(Peek({"PROCEDURE"}), <<call("procedure")>>), expect(SectionsFrom(5)),
      make("declarations", 4)>>
const_declarations ==
    <<next, list, while(Peek(Idents),
        <<call("identdef"), fetch, assert(Local({"="}),
            <<call("expression"), make("const", 2), append, fetch, unless(Local({";"}), <<report>>)>>,
            <<drop(1)>>)>>),
      when(IsEmpty, <<report>>, <<>>)>>
type_declarations ==
    <<next, list, while(Peek(Idents),
        <<call("identdef"), assert(Peek({"="}),
            <<next, when(Peek({"POINTER"}), <<call("pointer_type")>>, <<call("type")>>),
              make("type", 2), append, assert(Peek({";"}), <<next>>, <<>>)>>, <<drop(1)>>)>>),
      when(IsEmpty, <<report>>, <<>>)>>
var_declarations ==
    <<next, list, while(Peek(Idents),
        <<call("ident_list"), assert(Peek({":"}),
            <<next, call("type"), make("var", 2), append, assert(Peek({";"}), <<next>>, <<>>)>>,
            <<drop(1)>>)>>),
      when(IsEmpty, <<report>>, <<>>)>>

type ==
    <<when(Peek(Idents), <<call("qualident")>>,
      <<when(Peek({"ARRAY"}), <<call("array_type")>>,
      <<when(Peek({"RECORD"}), <<call("record_type")>>,
      <<when(Peek({"POINTER"}), <<call("pointer_type")>>,
      <<when(Peek({"PROCEDURE"}), <<call("procedure_type")>>,
      <<report, resync(AfterType), null>>)>>)>>)>>)>>)>>
array_type ==
    <<next, list, unless(Peek({"OF"}),
        <<call("expression"), append, while(Peek({","}), <<next, call("expression"), append>>)>>),
      assert(Peek({"OF"}), <<next, call("type"), sema("array", 2)>>,
        <<drop(1), resync(AfterType), null>>)>>
record_type ==
    <<next, when(Peek({"("}), <<next, call("qualident"), assert(Peek({")"}), <<next>>, <<>>)>>, <<push("none")>>),
      list, when(Peek(Idents), <<call("field_list"), while(Peek({";"}), <<take, call("field_list")>>)>>, <<>>),
      assert(Peek({"END"}), <<next>>, <<>>), make("record", 2)>>
field_list ==
    <<when(Peek(Idents),
        <<call("ident_list"), fetch, assert(Local({":"}), <<call("type"), make("fields", 2), append>>, <<drop(1)>>)>>,
        <<unless(Peek({"END"}), <<report>>)>>),
      resync({";", "END"})>>
pointer_type ==
    <<next, assert(Peek({"TO"}),
        <<next, when(Peek(Idents), <<call("qualident")>>, <<call("type")>>)>>,
        <<resync(AfterType), null>>), make("pointer", 1)>>
procedure_type == <<take, scope(1), call("formal_parameters"), scope(-1), make("signature", 1)>>

formal_parameters ==
    <<list, look, when(Local({"("}),
        <<next, look, while(Local(Idents \cup {"VAR", "..."}),
            <<call("fp_section"), look, when(Local({")"}), <<break>>,
                <<when(Local({";"}),
                    <<next, when(HasVarargs, <<report_stale>>, <<>>), look>>, <<take, report>>)>>)>>),
          assert(Local({")"}), <<next>>, <<>>), look>>, <<>>),
      when(Local({":"}), <<next, call("type")>>, <<push("none")>>), make("formals", 2)>>
fp_section ==
    <<when(Peek({"..."}), <<next, push("varargs"), append>>,
        <<when(Peek({"VAR"}), <<next, push("VAR")>>, <<push("none")>>),
          list, forever(<<
            call("ident"), append,
            when(Peek({","}), <<next>>, <<when(Peek(Idents), <<report>>,
              <<unless(Peek({":"}), <<report>>), break>>)>>)>>),
          fetch, unless(Local({":"}), <<report>>),
          call("formal_type"), make("section", 3), append>>)>>
(* Mutant: OF may be left out. *)
lax_formal_type ==
    <<list, while(Peek({"ARRAY"}), <<take, when(Peek({"OF"}), <<next>>, <<>>), push("dimension"), append>>),
      assert(Peek(Idents), <<call("qualident"), make("formal_type", 2)>>,
        <<drop(1), resync({";", ")"}), null>>)>>
formal_type ==
    <<list, while(Peek({"ARRAY"}), <<take, assert(Peek({"OF"}), <<next>>, <<>>), push("dimension"), append>>),
      assert(Peek(Idents), <<call("qualident"), make("formal_type", 2)>>,
        <<drop(1), resync({";", ")"}), null>>)>>

procedure ==
    <<take, when(Peek({"["}), <<call("procedure_declaration")>>, <<call("procedure_definition")>>),
      assert(Peek({";"}), <<next>>, <<>>)>>
procedure_declaration ==
    <<next, assert(Peek({"string"}), <<value, next, assert(Peek({"]"}),
        <<next, call("identdef"), scope(1), call("formal_parameters"), scope(-1),
          assert(Peek({";"}), <<next>>, <<>>), assert(Peek({"EXTERNAL"}), <<next>>, <<>>),
          assert(Peek({"["}), <<next>>, <<>>),
          assert(Peek({"string"}),
            <<value, next, assert(Peek({"]"}), <<take>>, <<>>), make("external", 4), append>>, <<drop(3)>>)>>,
        <<drop(1)>>)>>, <<>>)>>
procedure_definition ==
    <<call("identdef"), make("heading", 1), scope(1), call("formal_parameters"), assert(Peek({";"}), <<next>>, <<>>),
      call("procedure_body"), call("ident"), scope(-1), sema("procedure", 5), append>>
procedure_body ==
    <<call("declarations"), when(Peek({"END"}), <<next, statements>>,
        <<assert(Peek({"BEGIN"}),
            <<next, call("statement_sequence"), assert(Peek({"END"}), <<take>>, <<resync({"END"})>>)>>, <<statements>>)>>),
      resync(Idents)>>

-----------------------------------------------------------------------------
(* Mutant: the end of the file is like any other token. *)
endless_statement_sequence ==
    <<statements, unless(Peek(Enders), <<forever(<<
        call("statement"), add,
        when(Peek({";"}), <<take>>,
          <<when(Peek(Starters), <<report>>,
          <<when(Peek(Enders), <<break>>,
              <<report, resync(Enders \cup {";"})>>)>>)>>)>>)>>)>>
statement_sequence ==
    <<statements, unless(Peek(Enders), <<forever(<<
        call("statement"), add,
        when(Peek({";"}), <<take>>,
          <<when(Peek(Starters), <<report>>,
          <<when(Peek(Enders), <<break>>,
          <<when(Peek({"eof"}), <<report, break>>,
              <<report, resync(Enders \cup {";"})>>)>>)>>)>>)>>)>>)>>
statement ==
    <<when(Peek(Idents),
        <<call("designator"), when(Peek({"="}), <<report, drop(1), null>>,
            <<when(Peek({":="}), <<sema("qualified", 1), call("assignment")>>, <<sema("call", 1)>>)>>)>>,
      <<when(Peek({"IF"}), <<call("if_statement")>>,
      <<when(Peek({"CASE"}), <<call("case_statement")>>,
      <<when(Peek({"LOOP"}), <<call("loop_statement")>>,
      <<when(Peek({"WHILE"}), <<call("while_statement")>>,
      <<when(Peek({"REPEAT"}), <<call("repeat_statement")>>,
      <<when(Peek({"FOR"}), <<call("for_statement")>>,
      <<when(Peek({"EXIT"}), <<take, sema("exit", 0)>>,
      <<when(Peek({"RETURN"}),
          <<take, when(Peek(Enders \cup {";"}), <<push("none")>>, <<call("expression")>>), make("return", 1)>>,
      <<when(Peek(Enders \cup {";"}), <<null>>,
          <<report, next, null>>)>>)>>)>>)>>)>>)>>)>>)>>)>>)>>
assignment == <<next, call("expression"), make("assignment", 2)>>
if_statement ==
    <<take, call("expression"), take, assert(Member({"THEN"}),
        <<call("statement_sequence"), list, take, while(Member({"ELSIF"}), <<call("elsif_then")>>),
          when(Member({"ELSE"}), <<call("statement_sequence"), take>>, <<statements>>),
          unless(Member({"END"}), <<report>>)>>,
        <<statements, list, statements>>), sema("if", 4)>>
loop_statement ==
    <<take, loop(1), call("statement_sequence"), take, unless(Member({"END"}), <<report>>),
      loop(-1), make("loop", 1)>>
(* Mutant: without DO the loop is not left. *)
unbalanced_while_statement ==
    <<take, loop(1), call("expression"), take, assert(Member({"DO"}),
        <<call("statement_sequence"), list, take, while(Member({"ELSIF"}), <<call("elsif_do")>>),
          unless(Member({"END"}), <<report>>), loop(-1)>>,
        <<statements, list>>), needs(3), make("while", 3)>>
while_statement ==
    <<take, loop(1), call("expression"), take, assert(Member({"DO"}),
        <<call("statement_sequence"), list, take, while(Member({"ELSIF"}), <<call("elsif_do")>>),
          unless(Member({"END"}), <<report>>)>>,
        <<statements, list>>), needs(3), loop(-1), make("while", 3)>>
repeat_statement ==
    <<take, loop(1), call("statement_sequence"), take,
      assert(Member({"UNTIL"}), <<call("expression")>>, <<null>>), needs(1), loop(-1), make("repeat", 2)>>
for_statement ==
    <<take, loop(1), call("qualident"),
      take, assert(Member({":="}), <<call("expression")>>, <<null>>),
      take, assert(Member({"TO"}), <<call("expression")>>, <<null>>),
      when(Peek({"BY"}), <<next, call("expression")>>, <<push("none")>>),
      take, assert(Member({"DO"}), <<call("statement_sequence")>>, <<statements>>),
      take, unless(Member({"END"}), <<report>>), loop(-1), sema("for", 5)>>
case_statement ==
    <<take, call("expression"), needs(1), list, assert(Peek({"OF"}),
        <<next, when(Peek({"ELSE", "END"}), <<report>>, <<forever(<<
              when(Peek({"|"}), <<take>>, <<>>),
              call("range_expression_list"), assert(Peek({":"}), <<next>>, <<>>), sema("labels", 1),
              call("statement_sequence"), make("arm", 2), append,
              unless(Peek({"|"}), <<break>>)>>)>>),
          when(Peek({"ELSE"}), <<next, call("statement_sequence")>>, <<statements>>),
          assert(Peek({"END"}), <<next>>, <<>>)>>,
        <<statements>>), sema("case", 3)>>
(* elsif_clause, after the condition of IF or WHILE *)
elsif_clause(keyword) ==
    <<call("expression"), take, assert(Member({keyword}),
        <<call("statement_sequence"), needs(2), make("elsif", 2), append>>, <<drop(1)>>), take>>

-----------------------------------------------------------------------------
expression_list ==
    <<list, call("expression"), append, while(Peek({","}), <<take, call("expression"), append>>)>>
expression ==
    <<call("simple_expression"),
      when(Peek({"=", "#", "<", "<=", ">", ">=", "IN", "IS"}),
        <<take, leaf, call("simple_expression"), deref(3), sema("binary", 3)>>, <<>>),
      when(IsNull, <<resync({"END", "ELSE", "TO", "THEN", "UNTIL", "ELSIF", "BY", "DO", "OF",
                             ")", "]", ",", ";"})>>, <<>>)>>
(* Mutant: the sign belongs to the first factor alone. *)
tight_simple_expression ==
    <<call("term"), while(Peek({"+", "-", "OR"}), <<take, leaf, call("term"), sema("binary", 3)>>)>>
simple_expression ==
    <<when(Peek({"+"}), <<take, call("term")>>,
        <<when(Peek({"-"}), <<take, call("term"), sema("negation", 1)>>, <<call("term")>>)>>),
      while(Peek({"+", "-", "OR"}), <<take, leaf, call("term"), sema("binary", 3)>>)>>
term ==
    <<call("factor"),
      while(Peek({"*", "/", "DIV", "MOD", "&"}), <<take, leaf, call("factor"), sema("binary", 3)>>)>>
factor ==
    <<when(Peek({"+"}), <<next, call("basic_factor")>>,
      <<when(Peek({"-"}), <<next, call("basic_factor"), sema("negation", 1)>>,
      <<when(Peek({"~"}), <<next, call("basic_factor"), sema("not", 1)>>,
             <<call("basic_factor")>>)>>)>>)>>
(* Mutant: nothing is said of a token that starts no factor. *)
quiet_basic_factor ==
    <<when(Peek(Idents), <<call("designator"), sema("qualified", 1)>>,
      <<when(Peek({"{"}), <<call("set")>>,
      <<when(Peek({"("}), <<next, call("expression"), assert(Peek({")"}), <<take>>, <<>>)>>,
      <<take, when(Member(Literals), <<leaf>>, <<null>>)>>)>>)>>)>>
basic_factor ==
    <<when(Peek(Idents), <<call("designator"), sema("qualified", 1)>>,
      <<when(Peek({"{"}), <<call("set")>>,
      <<when(Peek({"("}), <<next, call("expression"), assert(Peek({")"}), <<take>>, <<>>)>>,
      <<take, when(Member(Literals), <<leaf>>, <<report, null>>)>>)>>)>>)>>
designator ==
    <<call("qualident"), list, while(Peek({".", "[", "^", "("}), <<call("selector"), append>>),
      make("designator", 2)>>
selector ==
    <<when(Peek({"."}), <<take, call("ident"), make("field", 1)>>,
      <<when(Peek({"["}),
          <<take, call("expression_list"), take, unless(Member({"]"}), <<report>>), make("index", 1)>>,
      <<when(Peek({"^"}), <<take, make("dereference", 0)>>,
      <<take, when(Peek({")"}), <<list>>, <<call("expression_list")>>),
        take, assert(Member({")"}), <<>>, <<>>), make("parameters", 1)>>)>>)>>)>>
set ==
    <<next, when(Peek({"}"}), <<take, list>>,
        <<call("range_expression_list"), assert(Peek({"}"}), <<take>>, <<>>)>>), sema("set", 1)>>
range_expression ==
    <<call("expression"),
      when(Peek({".."}), <<next, deref(1), call("expression"), sema("range", 2)>>, <<>>)>>
range_expression_list ==
    <<list, call("range_expression"), append,
      while(Peek({","}), <<take, call("range_expression"), append>>)>>

Production ==
    [ident |-> ident, qualident |-> qualident, identdef |-> identdef, ident_list |-> ident_list,
     module |-> module, import_list |-> import_list, import |-> import, declarations |-> declarations,
     const_declarations |-> const_declarations, type_declarations |-> type_declarations,
     var_declarations |-> var_declarations, type |-> type, array_type |-> array_type,
     record_type |-> record_type, field_list |-> field_list, pointer_type |-> pointer_type,
     procedure_type |-> procedure_type, formal_parameters |-> formal_parameters,
     fp_section |-> fp_section, formal_type |-> formal_type, procedure |-> procedure,
     procedure_declaration |-> procedure_declaration, procedure_definition |-> procedure_definition,
     procedure_body |-> procedure_body, statement_sequence |-> statement_sequence,
     statement |-> statement, assignment |-> assignment, if_statement |-> if_statement,
     loop_statement |-> loop_statement, while_statement |-> while_statement,
     repeat_statement |-> repeat_statement, for_statement |-> for_statement,
     case_statement |-> case_statement, elsif_then |-> elsif_clause("THEN"), elsif_do |-> elsif_clause("DO"),
     expression_list |-> expression_list, expression |-> expression,
     simple_expression |-> simple_expression, term |-> term, factor |-> factor,
     basic_factor |-> basic_factor, designator |-> designator, selector |-> selector, set |-> set,
     range_expression |-> range_expression, range_expression_list |-> range_expression_list]
=============================================================================
