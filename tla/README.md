# oberon-lang in TLA+

Specifications, model-checking runs and machine-checked proofs for the
Oberon-07 compiler in this repository: `olang/` (the command) and `lib/` (scanner,
parser, semantic analysis, symbol table, symbol files, lambda lifter, LLVM back
end). Every definition is translated from the source; `PROJECT.json` maps it to
the lines it models.

The compiler is a sequential program, so the hard behaviour is not threads but
*state that outlives the step that made it*: scopes that are closed and read
later, names that are resolved after the scope they were written in, types that
must stay one type over several processes, references in a file without tags,
a symbol table that outlives the AST its declarations are in, and files that are
written before it is known whether the rest will succeed. The environment (the
source text, the order of declarations and imports, the order of compilations,
what fails) is the nondeterminism of every module.

## 1. Inventory

| Component | State | Operations | Talks to |
|---|---|---|---|
| Command (`olang/main.cpp`), `Compiler`, `LLVMCodeGen::generate/jit/emit` | one `Logger`, one `OberonSystem` (symbol table) per process; one `ASTContext` per input; symbol and object files | invoke with options and inputs, compile one input, write the symbol file, lift, generate, run, exit | everything below, in this order |
| `CompilerConfig` | options, include and library directories | setters, search for a file | read by all |
| `Logger` | counters per level, `-Werror` | error, warning | its error count guards every output |
| `Scanner` | character, position, queue of tokens | peek, next, seek, nested comments | parser |
| `Parser` | last token; its recursion | one function per production, `resync`, `expect` | scanner; calls `Sema` for every construct |
| `Sema` | symbol table, pending forward references, enclosing procedures and loops | one callback per construct | symbol table, AST, symbol files |
| `SymbolTable`, `Scope`, `OberonSystem` | module scopes, alias map, current scope and level, predefined scope | add module, import, insert, look up, open/close scope | Sema, importer, exporter |
| `SymbolExporter`, `SymbolFile`, `SymbolImporter` | cross references, forward references, the stream | write a module, read a module | symbol table, AST, disk |
| AST (`ASTContext`, nodes) | types, external modules, the translation unit | create nodes | all of the above |
| `LambdaLifter` | the procedure, its environment record | rewrite nested procedures into module procedures | AST |
| `LLVMIRBuilder`, `PredefinedProcedure` | LLVM values, labels of loops | one visit per node | AST, LLVM |
| `stdlib`, `runtime.c` | Oberon modules and a C stub | - | compiled programs |
| `utils/grammar`, `utils/not`, `docgen`, tests, demos | - | - | not part of the compiler |

Interaction: everything is a call on one stack. `Compiler::run` drives the parser
over one input; the parser calls back into `Sema` while it reads; `Sema` changes the
symbol table and the AST; `IMPORT` runs the importer, the end of the module the
exporter. Nothing is concurrent. What is shared across inputs of a process
(logger, symbol table) and across processes (files) is where the order of events
matters.

What makes each component correct:

* **Symbol table.** Never a dangling or null scope; a lookup finds the innermost
  first declaration; a closed module scope is still there for the exporter.
* **Declarations.** Scopes are balanced on every path, errors included; names are
  unique per scope; forward references are resolved, before they are used and in
  the scope they belong to; exactly what is marked is exported.
* **Symbol files.** Reader and writer agree token by token; a client gets every
  exported declaration, with types of the same structure; a named type is one type
  however many files describe it; no null type is used.
* **Driver.** Exit status, symbol files and object files agree; nothing is written
  after an error; no declaration is used after its AST is gone.
* **Lambda lifter.** The lifted program does what the nested one does.
* **Scanner, parser.** Every loop makes progress on every input; tokens are used
  while they exist.
* **Types and constants.** Compatibility relations are what the language says;
  folding computes what the generated code would.

`PROJECT.json` lists the hazards line by line, with the properties for each.

## 2. Modules

Section 6 says what is left.

### 2.1 Symbol table

* `SymbolTable` - the class as a record `[scopes, aliases, universe, module, level]`
  and one operator per method (`AddModule`, `Import`, `Insert`, `OpenScope`,
  `CloseScope`, `Lookup`, ...), without variables, because `Declarations`,
  `SymbolImporter` and `Driver` each own a table. A scope owns at most one child, so
  a module is a *sequence* of scopes and `scope_` is `module` and `level`. `symbols_`
  with its index map is kept as such (`Scopes`, `IndicesOK`).
* `SymbolTableClient` - the table as a component: any client, any order of calls;
  the calls that the class ends with `exit(1)` end the run (`running`).
* `LexicalEnvironment` - what a client may rely on: a stack of blocks, one binding
  per name and block, qualifiers. No chains, no indices, no closed scopes.
* `SymbolTableProofs` - theorems; `SymbolTableLemmas` - the lemma on innermost scopes that
  they share with `DeclarationsProofs`.

### 2.2 Declarations

`Declarations` is the declaration part of the parser with Sema's callbacks, on a
`SymbolTable`. Every action reads one declaration; `blocks` is the recursion of the
parser, `forwards` is `forwards_`, `types` and `decls` are the AST nodes. The actions
follow the code's order of calls, e.g. `StartProcedure` inserts the procedure, opens
its scope and declares its formals before `onDeclarations` of the *module* has run.
Procedure types and external procedures open a scope for their parameters and close it
before they are declared; an external procedure without a name is not declared after that.
Errors are sticky and stop the symbol file, as the logger's count does.
`DeclarationsProofs` has the theorems.

### 2.3 Symbol files

* `SymbolFile` - the stream: a token is `[tag, value]`, `tag` being the write call.
  A read call of another kind sets `sync` to FALSE (the code would read garbage).
  One-byte values wrap at `CharBits`.
* `SymbolExporter` - `WriteType` and its cases as recursive operators over the heap
  of type nodes, with the tables `xrefs_` and `fwds_`.
* `SymbolImporter` - `ReadType` and its cases. A null type that is dereferenced is
  `crashed`.
* `SeparateCompilation` - composes them: modules are compiled one after the other,
  each in a process of its own; the front end that turns a text into nodes; import
  lists in any order, with aliases; recompilation. `interfaces` is a ghost that keeps
  what the compiler knew when it wrote a file, for comparison.
* `SeparateCompilationMC` - the texts of the instances.

### 2.4 Lambda lifter

* `Procedures` - the AST of modules with procedures, as far as the pass looks at it, and
  what the semantic analysis accepts of it (`Accepted`): procedures are nested in a tree,
  the declarations of one have names of their own, and statements mention what is declared
  in their procedure, around it or in the module. Variables are integers or environment
  records; expressions are a variable plus a number; statements assign, call, branch and
  return.
* `LambdaLifter` - the pass. One action per visit of a procedure: with nested ones and
  something to share, with nested ones only, a lifted leaf, a plain procedure. The list
  of the module's procedures grows while it is walked. Rewriting statements is an
  operator, because it is atomic in the pass: nothing else runs in between.
* `LiftedMeaning` - an interpreter, and what it is compared for. The memory is a sequence of
  values and a VAR parameter is an address, so that copies and aliases behave as in the
  generated code. A procedure sees the declarations around it; when nothing is around it,
  only its own, which is what the code generator supports: one interpreter serves the nested
  and the lifted program. Locals start at zero, as with `--init-local-zero`.
* `LambdaLifterMC` - the programs: families over the choices of parameters, variables,
  calls and assignments, for two and three levels, aliased VAR parameters, recursion,
  early returns and functions. `ProgramsAssumption` has TLC check that they are accepted.
* `LambdaLifterProofs` - theorems about the pass.

The promise is semantic, so the abstract specification is the interpreter:
`LiftedDoesTheSame` compares the module variables after both programs have run. The
interpreter is recursive and stays with TLC; what the pass itself must get right, that
nothing is mentioned that is gone and that calls fit, is proved.

### 2.5 Driver

* `Driver` - processes one after the other, each with a command line and inputs. One
  action per phase of an input (open, imports, body, symbol file, checks and lifting,
  code), the counters and the lifetimes exactly as in `main`, `Compiler::run` and
  `LLVMCodeGen`. A symbol file is reduced to what decides between the two lookups of
  the importer: whether the module exports an item, and whose item it re-exports.
* `DriverMC` - files, their possible contents and command lines.
* `DriverProofs` - theorems.

### 2.6 Scanner

* `Lexemes` - what a text means, written without a scanner: which strings are
  lexemes, their kinds and values, comments that nest.
* `Scanner` - `read`, `scanToken`, `scanComment`, `scanIdent`, `scanNumber`,
  `scanString`. The stream is `in`: the position, `ch_` (which keeps its value at the end
  of the file), `eof_`, line and column. One action is one iteration of one of the loops,
  because whether a loop ends is a question; `mode` is the loop, `depth` counts the calls
  of `scanComment`. Seeking back restores neither `ch_` nor the column.
* `ScannerMC` - the texts.
* `ScannerProofs` - theorems.

What may stand between two tokens is `IsGap` of `Lexemes`: `Nesting` follows the open
comments character by character, as a recursive function, so that it can be proved about.
`replace_all`, which `unescape` calls, is a recursive function as well. Hexadecimal
digits and the letter of a scale may be small letters, the suffixes `H` and `X` not. Of real numbers the conversion is modelled as far as it decides
what the token is: `FloatLow` to `DoubleHigh` are the powers of ten that the two types reach.
A number that REAL cannot hold, or that only REAL would turn into zero, becomes a LONGREAL;
one that LONGREAL cannot hold is rejected. How digits are rounded is left out: the value of a
token is its digits, or none if it is rounded to zero.

The queue of peeked tokens is in `Parser`; `seek` and `peek(true)` have no callers.

### 2.7 Parser

* `Productions` - every production of `Parser.cpp` as a list of instructions: test the
  next token, consume it, expect it, call a production, report, resynchronise, build a
  node. It is the code's own order: which token is looked at before or after which call.
* `Parser` - the machine. The stack of C++ calls is a list of what is left to do, the
  results under construction are a stack of values, null pointers included. A step
  (`Consume`, or `Skip` inside `resync`) consumes a token and executes what follows it up to
  the next one, or `Burst` instructions of it and the rest by `Proceed`: what is done
  between two tokens is private to the parser, and a bound makes it a recursive function of
  numbers, which can be proved about. `Burst` is 32 in the run and any number in the proofs.
  Semantic actions are there as far as they decide the course of the parser: null
  results reported and returned, null results dereferenced (`crashed`), loops and scopes
  counted, names that must agree, tokens used after their destruction (`dangling`).
* `Grammar` - the reference: trees of the language and their text, and what a text says
  (`Says`) when punctuation that carries no meaning is left out; and the two properties that
  compare the parser with it. It recurses over trees, so it is apart from `Parser`.
* `ParserMC` - 10 991 inputs: trees of all productions as they are written, and each
  text with one token forgotten, mistyped, added, or the rest cut off.

Left out: types and declarations in semantic actions, constant folding, and the warning for
unreachable code. Names have whatever declaration lets the actions get furthest. Where what
a name is decides whether an action falls over in silence, it is part of the input:
`variables` are the places in the text where a left operand or a label is a variable.
`onBinaryExpression`, `onCaseOfEnd` and `onQualifiedExpression` then use a null pointer that
no error announced, and the machine remembers it (`lapsed`). The name of a procedure
whose header is being parsed is one without a type; a `heading` on the stack of values says so.
Errors are counted up to `ErrorBound`.

### 2.8 Control flow

* `Statements` - statement sequences, what Sema accepts of them (unreachable code, paths
  of a function without a result, EXIT in loops, CASE labels), and their meaning as an
  interpreter with integers of `Width` bits, which traps when an INC leaves their range,
  and pointers to records.
* `ControlFlow` - `LLVMIRBuilder` on statements: basic blocks as lists of instructions,
  the insertion point, the stack of loop tails, short circuits, `switch`, type tests by
  type descriptors, the blocks of traps (all of them are on by default), returns with the
  type of their value. Then a machine executes the blocks, one instruction a step.
* `ControlFlowMC` - the programs: each compound statement with a choice of bodies, and
  loops in branches in loops.

The code is compared to the meaning: `DoesTheSame`, `Ends`.

### 2.9 Expressions

* `Arithmetic` - `floor_div`, `euclidean_mod`, the instructions of `createDiv` and
  `createMod`, set ranges by shifts; next to each its definition in the language.
  The theorems are the first part of `ExpressionProofs`.
* `BasicTypes` - sizes, type inclusion and common types, values that fit a type.
* `ExpressionFolding` - the fold functions of Sema, operator by operator. `zeros` is the
  set of what makes a product zero, empty for a sum.
* `ExpressionCode` - the instructions for operators and casts on basic types, with the
  types LLVM wants. As in the default configuration, `+`, `-`, `*` and negation of integers
  trap when the result leaves the width of the operands, which is one signed byte for a
  BYTE, and `DIV` and `MOD` when the divisor is not positive. After a trap there is no value.
* `Expressions` - builds expressions in the order in which the parser calls Sema
  (postfix): `onLiteral`, `onUnaryExpression`, `onBinaryExpression`, sets, ranges, and an
  assignment. A node carries the code that is generated for it *and* what it means, both
  as values over all `Memories`, so every expression is an abstract evaluation of its
  code. Where the meaning is a number that its type has, code that traps is wrong; where it
  leaves its type nothing is claimed, and the program stops.
* `ExpressionProofs` - theorems about arithmetic, about types, then about values.

### 2.10 Types and memory

* `TypeNodes` - the type nodes of the AST: extension, fields, lengths and the type after
  each index, the base of an array type (the array it was last made a part of), and the
  layout that `LLVMIRBuilder` gives them: one cell for a number, a pointer, a procedure.
* `TypeRelations` - what Sema accepts: the relations (`IsSameType`, `IsEqualArrayType`,
  `IsParameterListMatching`, `IsAssignmentCompatible`, `IsParameterCompatible`, ...) and the
  selectors (`onSelectors` and its cases). `ByName` is TRUE in the code: two types of one
  name are the same; FALSE gives the language's rule for comparison.
* `TypedPrograms` - all statements over the declarations of a project that Sema accepts, and
  what they *mean*: a meaning knows variables, that is an object and a path of fields
  and indices, and no addresses. Structured value parameters are references there too:
  the language forbids to assign to them.
* `TypedMemory` - the code: addresses, loads, offsets, dope vectors, type descriptors,
  traps. The state is the memory, the descriptors of the heap and the stack of frames; an
  action executes one statement that Sema accepts in the running procedure
  (`OnAssignment`, `OnNew`, `OnCall`) or returns. A statement that traps ends the program and
  changes nothing, one that reads a cell that was never written has no meaning: neither
  is a step. What leaves its object, or loads a number as a pointer, is `crashed`.
* `TypedMemoryMC` - the declarations. `records`: a record, two extensions, a namesake,
  pointers to them, guards. `arrays`: fixed and open arrays, a 2 by 3 matrix, rows.
  `procedures`: procedure variables and parameters, with value and variable
  parameters. `strings`: strings and arrays of characters of different lengths.

The meaning of a statement is computed in every reachable state for every statement
that may come next, and compared with what the code does there (`DoesWhatIsMeant`); so a
bound of n executed statements compares n + 1.

## 3. Runs

| Run | Asks | Bounds |
|---|---|---|
| `symbol_table` | scopes never dangle, indices are valid, closed scopes survive, and the table *refines* `LexicalEnvironment` | 2 modules, 1 name, 2 declarations, 2 levels, 3 symbols: shadowing, duplicates, re-opened scopes, aliases that hide modules all occur; the proofs cover every size |
| `declarations` | after every sequence of declarations: levels follow nesting, bodies see their records, references are visible, exports are complete | 4 declarations, nesting 2, two names: one name is shadowed, exported, forward referenced and redeclared at every level |
| `separate_compilation` | two projects: one module with every kind of declaration and its client, and three modules in layers with imports in any order: readers stay in step, nothing null is used, types are unique, imports are faithful | up to 4 declarations of one module, 3 of each layer, out of sets of each project (`Projects`): pointers before and after their base, shared bases, anonymous, extended and recursive types, field lists; re-exports through a variable, a pointer or an extension |
| `lambda_lifter` | what lifted procedures mention, what calls pass on, and that the lifted program does what the nested one does | 9388 programs of up to three procedures, 4 active calls |
| `nested_siblings` | *violated*, see section 4 | one to three procedures in one |
| `driver` | three invocations on one to three inputs that are edited in between | 3 modules, 3 runs: enough for "compile, edit, compile the client" and for an error in any position of the inputs |
| `several_inputs` | *violated*, see section 4 | 2 runs |
| `scanner` | tokens are the longest lexemes and mean what they say, nothing is lost between them, positions are exact, scanning ends | all texts of a few characters and longer ones of chosen shapes; one character is a byte of 4 bits, integers have 4, 6 and 8 bits, so that both limits of each type are crossed by short literals; the real types reach one and two powers of ten, so that a number can be too large or too small for one or both |
| `parser` | a correct text gives its tree, an accepted text says what its tree says, a forgotten semicolon is forgiven, counts are balanced, nothing undefined without an error but in three named places, parsing ends | the 10 991 inputs of 2.7 |
| `control_flow` | blocks are well formed, the code does what the statements say, and ends when they do | 3-bit integers: loops reach the largest value; each nesting of two compound statements |
| `expressions` | code is typed, code computes what is meant with the calls that are meant, types are meant, assignment keeps the value | expressions of 3 operands, operators or sets; BYTE and CHAR 2 bits, SHORTINT 3, INTEGER and SET 4, LONGINT 5, REAL 2 and LONGREAL 4 significant bits: every inclusion of types is proper, and every operation overflows and traps |
| `typed_memory` | no access leaves its object, every cell holds a value of its type, references carry true lengths and descriptors, every statement does what it means or traps where it must | four projects of up to five statements and three active procedures, with two to four variables each: see 2.10 |

Bounds are constants (`MaxLevel`, `MaxSymbols`, `MaxDecls`, `MaxNesting`, `MaxRuns`,
`MaxSelectors`, `MaxDepth`, the `steps` of a project) or finite sets (`Projects`, `Commands`). `CHECK_DEADLOCK FALSE` is used where
the program really stops: the process has exited, or the bound is reached. 
Three runs have liveness properties (`ScanningEnds`, `ParsingEnds`, `Ends`), under weak
fairness of the whole next-state action: the scanner, the parser and the generated code
are each one sequential thread that nothing blocks, so as long as there is a step the
processor takes it. No choice between actions is assumed to be fair. The other modelled
parts have no loops that wait for anything.

`PROJECT.json` has a mutant for each property: a small change of one definition, as
a bug would make it, under which the run finds the property violated.

## 4. What the runs show

Properties that hold have preconditions where the code has a known limit; the limits
are stated as definitions of their own (`DistinctBases`, `ExportedBases`,
`NoForeignCycles`, `Cyclic`, `Harmless`, `Departures`, `LabelsFit`, ...). Two runs are
expected to fail:

* `several_inputs`: with two inputs in one process, a module that the first imported or
  defined is known to the symbol table but not to the second AST;
  `getOrCreateModule` returns null and the importer dereferences it.
* `nested_siblings`: the loop that moves nested procedures to the module removes from the
  list that it counts, so the second of two stays nested and the code generator
  refuses it.

`LiftedDoesTheSame` has `Harmless` as its premise: the environment record is a *copy*,
and the places where a copy loses updates are spelt out there. A RETURN, which every
function ends with, comes before the statements that write VAR parameters and the outer
environment back (`ReturnsBeforeCopyOut`); a VAR parameter of a procedure with nested
ones is copied in and out, so an actual parameter that is reached by another name
meanwhile differs (`CopiesAlone`; `test/oberon/NestedVar.Mod` passes a local variable as
VAR to such a procedure, and the copy of the environment overwrites what it was set to);
a call of a procedure of an outer level, or of a procedure with nested ones by itself,
passes a record of the wrong type (`WrongEnvironment`), which `CallsFit` characterises
exactly. Outside these cases the lifted programs agree, some 4000 of them; RETURN
without a value ends the pass with a null pointer (`crashed`).

Limits of declarations and symbol files: `onDeclarations` resolves pending pointer bases
at the end of the first declaration part that ends, which is that of the first procedure,
so that a record type local to the procedure becomes the base of a pointer type of the
module. `P* = POINTER TO R` with `R` not exported compiles, and its symbol file can never
be imported (`ExportedBases`). With `IMPORT X := A, B`, where B re-exports `A.T`, the
importer looks for A under its own name, which the alias erased, and makes a second `T`:
`Aliases = {"X"}` in `SeparateCompilation.cfg` shows it. The key in a symbol file is a
placeholder, so a client mixes a new version of a module with the copies of the old one in
other files: `Recompile = TRUE` shows that.

Two more limits of the importer are premises: `fwds_` maps a reference to *one*
pointer, so with two pointer types whose base follows one keeps a null base in every
client (`DistinctBases`); and a re-exported procedure type whose parameters lead back to
it is read as null and dereferenced (`NoForeignCycles`).

Scanner (each is named in a property): a comment that ends with an opening parenthesis, or
a string that is not closed, keeps the scanner busy for ever at the end of the file; a
sign after a real number is part of it, so that `1.5+2` is rejected; a point at the end of
the file is lost; `0FFFFH` is the short integer -1 and decimals between the signed
and the unsigned limit wrap; escapes are replaced one kind after the other, so that an
escaped backslash before `n` is a newline; after `1..` columns are one too large.

Parser: `resync` is called unconditionally after a field list and between the `END` of a
procedure and its name, so that `x: INTEGER foo` in a record is accepted (`silent`). Null
expressions are dereferenced, by the parser or by Sema after its own error (a missing
UNTIL ends the compiler), and `ident` and `formal_parameters` look at tokens that are
gone, but only after an error (`UndefinedOnlyAfterError`). Three uses of names end the
compiler without one (`lapsed`): `x IN {1, 2}` where x is no constant (`Sema.cpp:2029` takes
it for a literal), CASE on a pointer or record with a label that names no type (652), and the
name of a procedure in an array length of its own result type (885). Six inputs of the run
get there.

Control flow: `EXIT` after an `ELSIF` of a WHILE finds the stack of tails empty, or leaves
the wrong loop (`ExitAfterElsif`); a loop with a RETURN counts as one that returns, so a
function may run off its end into `unreachable` (`ReturnsInLoopOnly`); a procedure whose last
statement is RETURN gets a second terminator (`EndsOpen`); RETURN in the body of a module is
accepted and becomes `ret void` in a function that returns an i32 (`ReturnsFromModule`); CASE
labels are cut to the type of the expression after they were compared (`LabelsFit`); a FOR up
to the largest value overflows, since its addition is the one that is not trapped.

Expressions (`Departures`): constants compared by `<` and `<=` are compared by the other
one; `x MOD 1` is x; `0 * f()` does not call f; a neutral element returns the other
operand with its own type; equality of BOOLEAN variables is the left operand; BYTE is
compared and divided as a signed number, and its `+`, `-` and `*` trap when the signed result
leaves a byte, like 100 + 100, which a BYTE can hold; elements of `IN` that are not INTEGER have a
width LLVM refuses; integer constants become LONGREAL through REAL; the operand of `-` and
`~` is only checked when it is a literal; integer constants, results of `-` among them, are
computed in 64 bits and wrap (`Overflow`), while the code of variables traps. An element that is not constant, in a constant
set, ends the compiler.

Types and memory. Sema accepts statements whose code breaks the properties of
`typed_memory`; each kind is a definition of `TypedPrograms` or `TypedMemory`, and
without any one of them the run fails:

* `Namesakes`: `isSameType` compares unqualified names, so a record of another scope is
  taken for one with the same name.
* `NotAString`: `isStringCompatible` accepts whatever is not a string for an array that is
  not one of characters; `StringToOpenArray`: the length of a string is not compared with that
  of an open array, and copying it is not checked either.
* `OtherLengths`: a parameter of a fixed length gets a shorter array, and its indices are
  checked against its own length; an open array gets rows of another length.
* `ProcedureAsVariable`: a procedure can be assigned to, and passed as a variable.
* `GuardAfterDereference`: `p^(T)` with a pointer type T is accepted, because `onTypeguard`
  looks at the type of the declaration; it loads a pointer from the record.
* `CallOfValueParameter`: a statement that calls a procedure parameter passed by value
  loads twice, while `visit(QualifiedExpression)` loads once.
* `RowsOfOpenArray`: an array type that is also the row of an open array type has that as
  its base, and gets no dope vector.
* `PartOfMatrix`: of an array of several dimensions the assignment copies as many
  elements as the first dimension has.
* `LostDescriptor`: a record that is passed on carries the descriptor of its static type,
  so a guard on it traps, and an assignment traps or does not, by the wrong type.

Further disagreements met while reading, without a run of their own: `-o` names one
object file for all inputs, so the last one wins; without `-c`, `-S` and `--run` the
command stops ("linking not yet supported") although the documentation says that
object files are built by default; after a broken input a correct one is generated
without being lifted, because `LambdaLifter::run` looks at the total of errors; an
identifier may begin with `_`, so that a program can use the names of the lambda lifter; and
the 108th type of a module does not fit the one-byte references of a symbol file.

## 5. Proofs

All theorems are checked by TLAPS from the assumptions on constants only
(`ModulesAssumption`, `DeclsAssumption`, `BoundsAssumption`, `CommandsAssumption`,
`RunsAssumption`, `TextsAssumption`, `SelfAssumption`, `FilesAssumption`, `WidthsAssumption`,
`RangesAssumption`, `BitsAssumption`,
`UndefAssumption`, `ExpressionsAssumption`, `ParserAssumption`, `ProgramsAssumption`): for every
number of modules, names, files, runs and levels, texts and files of every length, expressions of
every size, types of every width, procedures nested to every depth. The other assumptions, like
`DepthAssumption`, bound what TLC looks at and are cited by no proof.

`SymbolTableProofs`:

* `InvInductive` - `TypeOK /\ IndicesOK /\ ScopeAlive` is inductive: the type of the
  table is needed for the indices, and the liveness of `scope_` for `OpenScope` to be
  applied to an existing scope. Lemmas per operator (`ScopeInsert`, `AddModule`,
  `OpenScope`, ...) say what each preserves; the step case has one step per call.
* `TypeCorrect`, `IndicesInRange`, `ScopeNeverDangles` follow.
* `ClosedScopesSurvive` - an action property: only `OpenScope` shortens a chain.
* `Refinement` - the table implements `LexicalEnvironment`. The mapping forgets closed
  scopes, indices and chains; the central lemma is that the recursive walk from the
  current scope to the outermost finds the same declaration as the innermost bound
  block.

`DeclarationsProofs`:

* `Invariance` - the invariant relates four structures that the compiler keeps apart: the
  blocks being parsed, the scopes of the table, the declaration nodes and the type nodes.
  `ScopesAreBlocks` says that the scope at level l holds declarations of block l only
  (`InModule`, which every operation of the table preserves: `InsertInModule`,
  `OpenInModule`, `CloseInModule`); `ExportsAreInScope` that no exported declaration is
  missing from the module's scope, which is what the symbol file is read from after it was
  closed; `PointersAreComplete` that a pointer type has a record as its base or waits in
  `forwards`; `BlocksOK` that a block around another one is at its procedures, so that the
  end of a procedure does not lead back into a body. One lemma per action; the actions that
  declare a name share `DeclareStep`.
* `NestingTheorem`, `PointersTheorem`, `VisibilityTheorem` and `ExportsTheorem` follow: all
  invariants of the run `declarations`, for every number of names and declarations and
  every depth of nesting. Nothing is assumed of `MaxDecls` and `MaxNesting`.

`DriverProofs`:

* `Inductive` - the properties of the driver are not inductive as they stand. The
  invariant adds what relates them: no file is newer than the process (`Disk`), the
  error count is never below its value at the start of the input (`Counters`, which
  makes `errors # before` an error of the *total*), the symbol file of the current input
  is of this process once the code is generated without an error (`SymbolsWritten`),
  and all earlier inputs are built as long as there is none (`BuiltSoFar`).
* `ObjectsNeverNewer`, `SuccessIsComplete` and the action property `NoOutputAfterError`
  follow. Lemmas on the importer show that reading symbol files only adds errors.
* `Reading` - a second invariant, about what the importer may rely on: `Shape` (the
  namespace SYSTEM is empty, and root scopes hold declarations of the inputs of this
  process), `InText` (`scope_` is the scope of the module), `Known` (with one input every
  namespace but SYSTEM and the module's own has a module in the AST, so
  `getOrCreateModule` never returns null), `Origins` (no symbol file re-exports from
  SYSTEM) and `ReexportFound`, which is needed for it. `Reader` is the same for the record
  that the importer's operators pass on; one lemma per operator.
* `SingleInputIsSafe` - `SafeAlone` follows. The premise `Cyclic = {}` cannot be dropped,
  and neither can the one input: `several_inputs` is the counterexample for two.
  `TextsAssumption` says that a type that is re-exported is one that the text names.

`ExpressionProofs`, on `Arithmetic`:

* `ConstantDivision` and `CodeDivision` - the functions of constant folding, and the
  instructions of the generated code, compute the quotient and remainder of the language,
  for every dividend and every positive divisor. Both follow from the uniqueness of
  quotient and remainder, a lemma; the code truncates, so the cases are the signs.
* `ConstantRange` and `CodeRange` - shifting ones to and fro yields the set from the lower
  to the upper bound, for every width of the word; the code's shifts stay in the word when
  the lower bound is not larger than the upper one, which is the premise.

`ScannerProofs`:

* `ScannerInvariant` - what is true between the iterations of the scanner's loops. `Shape`:
  the stream is at the character of the file that its position says, and its line is the
  number of line ends before it. `Gaps`: in the main loop what was read since the last token
  is a gap; inside a token what was read before its first character is. In a comment
  (`InComment`) `depth`, the calls of `scanComment`, is the number of comments that
  `Nesting` has open, both counted from the end of the last token and from the beginning of
  this comment, and none was closed on the way; the second is needed to know that the gap
  ends where the outermost comment does. `Places`: the column is that of the character,
  unless a range came before on the line, or comes next (`BeforeRange`), which is what
  seeking back after `1..` breaks. One lemma per action; what `Read` does to all this is
  `ReadNext` and `ReadPlaced`.
* `NothingIsEverLost` and `PositionsAreAlwaysExact` follow. `FilesAssumption` says no more
  than that files are texts. The lemmas on `Nesting` need induction over the length of the
  text; it is done for a *set* of numbers (`NatSet`, from the well-founded order).
* `LexemeInvariant` - what the loops have collected (`Collected`). A name is its characters
  so far (`InName`); in a string no quote was passed unless the character before it escapes
  it (`InString`, in the words of `Escaped`); of a number (`NumberRead`) the lexeme is what was
  read, digits only until the first point (`Chars`), and the look-ahead tells what comes next
  (`Ahead`). A point at the end of the file is the exception: it is read and lost.
* `TokensAreAlwaysLongest` follows when a token is emitted, kind by kind. A symbol is longest
  because of the one or two characters that were looked at behind it; a name because the next
  character cannot continue it; a string because the first quote that is not escaped ends
  it. Numbers need the cases of a suffix (`SuffixedIsLongest`), of a real (`RealIsLongest`) and
  of digits alone (`DecimalIsLongest`), and in each of them that *no other kind* of number is
  longer (`NumberCandidate` lists the shapes). Whether digits are too large depends on
  their value, which is a number for every text (`ValueType`, by `NatSet`); `LimitsOrdered`
  says that what is too large for a hexadecimal number is too large for a decimal one.
* `MeantInvariant` - adds that what the scanner converts is exactly the text it has read
  (`Kept`): of a name its characters (`NameKept`), of a string those between the quotes
  (`StringKept`; the quote that is read over at the end of the file closes nothing, and
  then the string is rejected).
* `TokensAreAlwaysMeant` follows when a token is emitted. That the meaning of a text is
  that of its kind needs that no lexeme is of two kinds (`FirstCharacters`, `NumbersDiffer`).
  An integer keeps its value when it is stored in the type that is chosen for it, unless it
  is `OnlyUnsigned` (`KeepsValue`, `LimitsGrow`). A real is converted to one type after the other,
  and that this picks the smallest type that holds it, and zero only for what both types round to
  zero, needs that the range of REAL is within that of LONGREAL (`RangesAssumption`). For strings `ContentsRead` says that the
  passes of `unescape`, one after the other, leave the contents that reading once from left
  to right gives, unless an escaped backslash or zero comes before something that then looks
  like an escape (`EscapesInterfere`); one pass is followed from the end of the string,
  because `replace_all` and `Contents` are functions on positions. With that every safety
  property of the run `scanner` is a theorem.

The proof found that the alphabet of the model, `Letters`, had no `N`, though `IN` is one of
its keywords, so that `IN` was a keyword and no name; texts with it were not in any run.

`ExpressionProofs`, on types:

* `ExpressionInvariant` - of every expression that the parser holds: it is a node
  (`IsNode`), and if no departure is named for it, its code has the LLVM type of its type,
  its type includes the one that it has in the language (`Includes`: of at least the rank,
  and real only if that is), and it is folded (`Folded`: a literal exactly if it is a
  constant, and an integer literal has the value that is meant, in the range of its type).
  Only bounds of ranges are cast to a type other than their own. That integer constants have
  the value that is meant is needed for types: the type of a folded integer is the smallest
  one for its value, in the compiler (`intType`) and in the language (`SmallestInteger`).
  Ranges of widths nest because powers of two are monotonic and double, which the prover does
  not know; it is proved by counting subsets (`SubsetsOfInterval`, `PowerDoubles`).
  `TypingCases` lists the operands that `onBinaryExpression` accepts; then there is one
  lemma for each fold function, one for an instruction of each kind, and one for each call
  of the parser.
* `CodeIsAlwaysTyped` and `TypesAreAlwaysMeant` follow, for any widths of the types in the
  order of `BitsAssumption`, any variables, literals and memories, and expressions of any size.

`ExpressionProofs`, on values:

* `MeaningInvariant` - adds to `ExpressionInvariant` that every expression without a
  departure is `Valued`, in every memory: if it means something, that is a value of its
  type in the language, a literal has this value, and other code yields it (`Yields`) and
  makes as many calls of functions as the language does, provided the value fits its type.
  What code yields is not always the number itself: LLVM has no unsigned type, so a BYTE is
  held as the signed number of the same bits (`Holds`), and the casts to larger types must
  undo this. The bounds of ranges wait for each other to be cast; they are `Bounded`: integers
  whose cast, if there is one, is to a type at least as wide, which keeps their values.
* The argument for a step is the way of a value through three places. The operands are cast
  to the common type (`IsCast`: never from a real type to an integer one, nor a BYTE to a real
  one), the instruction computes in this type, and what the language computes is in
  the type of the *meaning*, which the first one includes; `MeaningOfAnyNumbers` says that
  the meaning does not depend on which. One lemma per operator shows that a result that fits
  the smaller type is not rounded in the larger one and does not trap there: the trap is in the
  width of the operands, which is at least that of the meaning; `DIV`
  and `MOD` need the theorems on division, sets those on ranges. Folding is the same
  with 64 bits, and with operands of which only one is a literal, which one lemma per fold
  function says. Sets are unions over elements, and their calls the sum over the bounds
  (`Counted`), which are the same when they are so bound by bound.
* `GeneratedIsAlwaysMeant` and `AssignmentAlwaysKeepsValue` follow, for any widths of the
  types, any variables, literals, functions and memories, and expressions of any size. With
  that every property of the run `expressions` is a theorem. `ExpressionsAssumption` says
  that memories and literals have values of their types; `BitsAssumption` gives the order of
  the widths, as LLVM's i8, i16, i32, i64, float and double have it.

The proof found a departure that the run had missed: a negated constant wraps, too, if it
is the smallest LONGINT. `Overflow` was a departure of binary operators only; with five
operands instead of three the run finds `-(-13 - 3) DIV 2` (LONGINT has 5 bits there), so
`UnaryMean` names it now.

`ParserProofs`:

* The productions are programs of a stack machine, and the proof is a type system for them.
  A *shape* says how many values are on the stack, how many loops and scopes are open, and
  what is known of errors and of the values: `Failed` (an error was reported), or, as long as
  none was, `Sound` (no value is null, nor has one a null operand), `Designates` (and the top
  is a designator), `Loose` (only the top may be null). `Matches(m, a)` says that the machine
  `m` is in shape `a`. `Typed(t, a, c, k)` says that the instructions `t` lead from shape `a` to shape `c`, and
  that a break that leaves them has a shape of `k`.
* `Typed` is membership in *some* consistent set of such judgements. So loops and recursive
  calls of productions justify themselves, and no induction over programs or trees is needed:
  there is one lemma per production, which gives the shapes between its instructions, and
  `ProductionsTyped` puts them into one set. `Compose` joins judgements of lists.
* `DoesMatches` - each instruction, executed in the shape before it, leads to a shape after it;
  in particular none that dereferences a result is executed when the result may be null
  without an error, except where `Lapse` says that it does.
* `ParserIsFine` - the invariant: the input is one of the files, and the machine has fallen
  over (`crashed`) after an error or in one of the three lapses of semantic analysis (`Fell`),
  or what it has left to do is typed in its
  shape. A step executes up to `Burst` instructions, so its lemma is an induction over a number.
* `ParserStaysFine`, `UndefinedAfterErrorOnly` and `CountsEndBalanced` follow: whatever the
  text and whatever its names are, a null result is dereferenced or a freed token used only
  after an error was reported or in one of the three named places, and the scopes and loops that the semantic actions count are all closed when
  the parser has ended. `ParserAssumption` says that files are sequences of tokens, that
  `Burst` is positive, and that kinds of nodes are no tokens.

`LambdaLifterProofs`:

* `LiftingIsTyped` - the invariant says what every part of the module is in terms of the
  module that was parsed and of the procedures visited so far (`Seen`). `OrderInv`: on the
  list is what was declared in the module, or moved there from a procedure that was visited.
  `NodesInv`: parameters and variables are those of the text, with `_super` behind and `_this`
  in front of them where they belong, and a procedure that was not visited yet has the body of
  the text. `RecordsInv`: the environments. `ChainInv`: what is around a procedure was visited
  before it is on the list, and if any of it has an environment, the innermost has one, so that
  the procedure is given it. `ReachInv`: from an environment some number of `_super`, then a
  name, leads to everything that its procedure sees. `BodiesInv`: the statements of a procedure
  that was visited are typed over its own declarations and those of the module, and calls pass
  an environment exactly to procedures that take one.
* None of it can be left out. Whether a selector exists depends on records that were laid out
  when the procedures around were visited, hence `ReachInv`, which needs `ChainInv`; whether
  a call of a procedure gets the environment depends on whether *that* procedure has been given
  its parameter yet, which is decided because the one it is declared in was visited (`Settled`);
  and statements stay typed while other records and parameter lists change
  (`StatementStays`), because no visit changes what was settled.
* One lemma per action (`SuperVisit`, `LeafVisit`, ...) reduces it to the same form, `Visits`, with
  one lemma per part of the invariant for it. The search of `envFieldResolver` is `FieldPathLeads`:
  if a field of the name and the type can be reached outwards, the selectors found lead to *such*
  a field; it may be one of a procedure further in only if that hides the name. A lemma per kind of
  statement and copy says that it is typed (`RewrittenTyped`, `CopiedIn`, `CopiedBack`). The
  functions that stand for recursion get their equations by induction over a set of numbers
  (`UpTo`, from the well-founded order).
* `LiftedIsClosed` and `CallsFitOrAreWrong` follow at the end of the pass, when all are visited
  (`AllSeen`, by the least level of one that is not): a lifted procedure mentions its own
  declarations and the module's only, both sides of an assignment have one type, and a call passes
  the record that its callee was compiled for if and only if the callee is declared in the
  procedure whose environment the caller passes on. `ProgramsAssumption` says that the
  analysis accepts the module (it is checked for all programs of the run), that it has no
  environments yet, and that `_this` and `_super` are no names of the text. The last is a
  premise: the scanner accepts identifiers that begin with `_`, and a variable called `_super` is
  taken for the pass's own by `findParameter` and `getField`, which look for the name only.

The proof found that two tools read `UNION {...} \ {None}` in different ways, so that
`Expressions` was one set for TLC and another for the prover; it has parentheses now.

Only model-checked: section 2.3, whose reader and writer recurse over the structure of types, and
section 2.8, whose interpreter and generator recurse over statements, need `RECURSIVE`, which
the prover cannot reason about; so does the interpreter of 2.4, and with it `LiftedDoesTheSame`.
`RoundTrip` and `AcceptedIsMeant` of the parser compare trees, and the relations on types of 2.10
recurse as well; the programs of 2.10 are a set that is computed from the declarations. Only the
symbol table states a type invariant, and it is proved. Liveness is out of the prover's reach,
`ScanningEnds`, `ParsingEnds` and `Ends` with it.

## 6. Plan: what is left

1. Function results as values, string comparison, and the predefined procedures other than
   NEW; variables of other modules in designators.
2. Types and constants in procedures, and accesses through selectors, in the lambda lifter.
3. A proof of the agreement of reader and writer (`ReadersInSync`), with the recursion of
   symbol files written as functions.

Not planned: configuration and I/O, the pretty printer, LLVM's own work, the
standard library, tests and tools.
