------------------------------- MODULE Driver -------------------------------
(***************************************************************************)
(* The compiler as a command (olang/main.cpp, lib/compiler/Compiler.cpp,   *)
(* LLVMCodeGen::generate and jit): it is invoked again and again, each     *)
(* time with options and a sequence of input files, and leaves symbol      *)
(* files and object files on the disk.                                     *)
(*                                                                         *)
(* A process has ONE logger and ONE symbol table for all its inputs, but   *)
(* one ASTContext for each of them.  The declarations that an input puts   *)
(* into the table die with its AST, at the end of Compiler::compile, and   *)
(* stay in the table: a lookup that finds one reads freed memory.          *)
(*                                                                         *)
(* A module is abstracted to what its interface needs: it may export one   *)
(* Item of its own and may re-export the Item of another module.  A        *)
(* declaration is the number of the input whose AST owns it.  The content  *)
(* of a file is chosen when it is opened:                                  *)
(*   module     the name of the module                                     *)
(*   imports    the import list, of [module, alias]                        *)
(*   uses       the qualifiers q of the identifiers q.Item in it           *)
(*   reexport   the qualifier of the re-exported type, or NoModule         *)
(*   exports    whether it exports an Item                                 *)
(*   broken     whether it has another error                               *)
(*   nested     whether it has nested procedures                           *)
(***************************************************************************)
EXTENDS SymbolTable

CONSTANTS
  Item,         \* the name of what a module exports
  Files,        \* names of input files; file m should hold module m
  Texts,        \* the contents each of them may have
  Output,       \* the file named by option -o
  Commands,     \* the command lines: [mode, output, werror, inputs]
  NoText,       \* no input is being compiled
  MaxRuns       \* bound: invocations of the compiler

Modes == {"compile", "run", "link"}   \* -c or -S; --run; none of them

VARIABLES
  run,          \* the number of this invocation, a time stamp
  command,      \* its command line
  step,         \* what the process does
  pos,          \* the input that is being compiled
  text,         \* its content
  done,         \* imports that were read
  before,       \* the local variable `errors` of Compiler::run
  errors,       \* Logger: the number of errors
  table,        \* OberonSystem: the symbol table
  ext,          \* ASTContext: the external modules
  lifted,       \* LambdaLifter has transformed the AST
  dangling,     \* a declaration of a destroyed AST was read
  code,         \* the exit status
  symbols,      \* the symbol files: [run, exports, origin]
  objects       \* the object files: [run, module]

process == <<command, pos, before, lifted, code>>
parsing == <<text, done, table, ext, dangling>>
disk == <<symbols, objects>>
vars == <<run, step, errors, process, parsing, disk>>

Steps == {"idle", "file", "imports", "body", "check", "generate", "exited", "crashed"}

Inputs == command.inputs
Exit(status) == step' = "exited" /\ code' = status

ASSUME CommandsAssumption ==
  /\ Commands \subseteq [mode : Modes, output : BOOLEAN, werror : BOOLEAN, inputs : Seq(Files)]
  /\ \A f \in Files : \A t \in Texts[f] : t.module \in Modules
\* A type that is re-exported is one that the text names.
ASSUME TextsAssumption ==
  /\ Item \in Names
  /\ \A f \in Files : \A t \in Texts[f] :
       /\ t.imports \in Seq([module : Modules, alias : Modules \cup {NoModule}])
       /\ t.uses \subseteq Modules /\ t.reexport \in t.uses \cup {NoModule}
ASSUME RunsAssumption == MaxRuns \in Nat

\* The files of run 0 do not exist.
NoSymbols == [run |-> 0, exports |-> FALSE, origin |-> NoModule]
NoObject == [run |-> 0, module |-> System]
Exists(file) == file.run # 0

---------------------------------------------------------------------------
(* Reading a symbol file into the table; s = [table, ext, errors, dangling,*)
(* crashed].                                                               *)

\* Mutant: the module is not added to the AST.
NamespaceOnly(s, m) ==
  IF HasModule(s.table, m) THEN s ELSE [s EXCEPT !.table = AddModule(@, m, FALSE)]

\* SymbolImporter::getOrCreateModule; the result is null unless m \in ext.
GetOrCreateModule(s, m) ==
  IF HasModule(s.table, m) THEN s
  ELSE [s EXCEPT !.table = AddModule(@, m, FALSE), !.ext = @ \cup {m}]

\* SymbolImporter::readType for the Item of m: one that is known already is
\* preferred, else it is declared in its module.
ReadItem(s, m) ==
  LET d == LookupQualified(s.table, m, Item)
      k == GetOrCreateModule(s, m)
  IN  IF d # NoDecl THEN [s EXCEPT !.dangling = @ \/ d # pos]
      ELSE IF m \in k.ext THEN [k EXCEPT !.table = Import(@, m, Item, pos)]
      ELSE [k EXCEPT !.crashed = TRUE]

\* SymbolImporter::read and readDeclaration
ReadModule(s, m) ==
  LET file == symbols[m]
      k == GetOrCreateModule(s, m)
      own == IF file.exports THEN ReadItem(k, m) ELSE k
  IN  IF m \notin k.ext
      THEN IF file.exports \/ file.origin # NoModule
           THEN [k EXCEPT !.crashed = TRUE] ELSE [k EXCEPT !.errors = @ + 1]
      ELSE IF file.origin # NoModule /\ ~own.crashed THEN ReadItem(own, file.origin) ELSE own

\* Sema::onImport without the alias.
ImportModule(s, m) ==
  IF m = System THEN [s EXCEPT !.ext = @ \cup {System}]
  ELSE IF m = text.module \/ ~Exists(symbols[m]) THEN [s EXCEPT !.errors = @ + 1]
  ELSE ReadModule(s, m)

---------------------------------------------------------------------------
(* The process                                                             *)

\* main and configure; without -c, -S and --run there is nothing to do, and
\* --run takes exactly one input.
Start(c) ==
  /\ step \in {"idle", "exited", "crashed"} /\ run < MaxRuns
  /\ run' = run + 1
  /\ command' = c /\ pos' = 1 /\ text' = NoText /\ done' = 0
  /\ table' = InitialTable /\ ext' = {} /\ dangling' = FALSE
  /\ before' = 0 /\ lifted' = FALSE
  /\ IF c.mode = "link" \/ (c.mode = "run" /\ Len(c.inputs) # 1)
     THEN errors' = 1 /\ Exit(1)
     ELSE errors' = 0 /\ step' = "file" /\ code' = 0
  /\ UNCHANGED disk

\* Scanner::Scanner cannot open the file.
FileMissing ==
  /\ step = "file" /\ pos <= Len(Inputs)
  /\ errors' = errors + 1
  /\ Exit(1)
  /\ UNCHANGED <<run, command, pos, before, lifted, parsing, disk>>

\* Sema::onTranslationUnitStart and onModuleStart; addModule ends the process
\* when the module has a namespace.
OpenFile(t) ==
  /\ step = "file" /\ pos <= Len(Inputs)
  /\ t \in Texts[Inputs[pos]]
  /\ text' = t /\ done' = 0
  /\ ext' = {}
  /\ before' = errors
  /\ IF HasModule(table, t.module)
     THEN Exit(1) /\ errors' = errors + 1 /\ UNCHANGED table
     ELSE /\ step' = "imports"
          /\ table' = OpenScope(AddModule(table, t.module, TRUE))
          /\ UNCHANGED <<errors, code>>
  /\ lifted' = FALSE
  /\ UNCHANGED <<run, command, pos, dangling, disk>>

\* Sema::onImport; a module that is imported twice is read twice.
OnImport ==
  LET i == text.imports[done + 1]
      again == \E k \in 1..done : text.imports[k].module = i.module
      s == ImportModule([table |-> table, ext |-> ext, dangling |-> dangling, crashed |-> FALSE,
                         errors |-> IF again THEN errors + 1 ELSE errors], i.module)
  IN  /\ step = "imports" /\ done < Len(text.imports)
      /\ done' = done + 1
      /\ table' = IF i.alias = NoModule THEN s.table ELSE AddAlias(s.table, i.alias, i.module)
      /\ ext' = s.ext /\ errors' = s.errors /\ dangling' = s.dangling
      /\ step' \in IF s.crashed THEN {"crashed"}
                   ELSE IF s.dangling THEN {"crashed", step} ELSE {step}
      /\ UNCHANGED <<run, process, text, disk>>

\* The rest of the module: qualified identifiers, other errors, its own Item.
\* What is made of a declaration of a destroyed AST is undefined.
Body ==
  LET found == [q \in text.uses |-> LookupQualified(table, q, Item)]
      freed == \E q \in text.uses : found[q] # NoDecl /\ found[q] # pos
      bad == text.broken \/ \E q \in text.uses : found[q] = NoDecl
  IN  /\ step = "imports" /\ done = Len(text.imports)
      /\ dangling' = (dangling \/ freed)
      /\ errors' \in IF bad THEN {errors + 1} ELSE IF freed THEN {errors, errors + 1} ELSE {errors}
      /\ step' \in IF freed THEN {"crashed", "body"} ELSE {"body"}
      /\ table' = CloseScope(IF text.exports THEN Insert(table, Item, pos) ELSE table)
      /\ UNCHANGED <<run, process, text, done, ext, disk>>

\* Mutant: only the errors of this module count.
OnTranslationUnitEndLocal ==
  /\ step = "body"
  /\ symbols' = IF errors = before /\ command.mode # "run"
                THEN [symbols EXCEPT ![text.module] =
                        [run |-> run, exports |-> text.exports,
                         origin |-> IF text.reexport = NoModule THEN NoModule
                                    ELSE table.aliases[text.reexport]]]
                ELSE symbols
  /\ step' = "check"
  /\ UNCHANGED <<run, errors, process, parsing, objects>>

\* Sema::onTranslationUnitEnd: the symbol file.
OnTranslationUnitEnd ==
  /\ step = "body"
  /\ symbols' = IF errors = 0 /\ command.mode # "run"
                THEN [symbols EXCEPT ![text.module] =
                        [run |-> run, exports |-> text.exports,
                         origin |-> IF text.reexport = NoModule THEN NoModule
                                    ELSE table.aliases[text.reexport]]]
                ELSE symbols
  /\ step' = "check"
  /\ UNCHANGED <<run, errors, process, parsing, objects>>

\* Compiler::run after the parser: the errors of this input are compared with
\* `errors`, a wrong file name is a warning, and the lambda lifter looks at
\* the errors of all inputs.
Transform ==
  LET warned == command.werror /\ text.module # Inputs[pos]
  IN  /\ step = "check"
      /\ IF errors # before
         THEN /\ IF command.mode = "run" THEN Exit(1) /\ UNCHANGED pos
                 ELSE step' = "file" /\ pos' = pos + 1 /\ UNCHANGED code
              /\ UNCHANGED <<errors, lifted>>
         ELSE /\ step' = "generate"
              /\ errors' = IF warned THEN errors + 1 ELSE errors
              /\ lifted' = (errors' = 0)
              /\ UNCHANGED <<pos, code>>
      /\ UNCHANGED <<run, command, before, parsing, disk>>

\* LLVMIRBuilder refuses nested procedures, which the lambda lifter removes.
Built == IF text.nested /\ ~lifted THEN errors + 1 ELSE errors

ObjectFile == IF command.output THEN Output ELSE Inputs[pos]

\* Mutant: the errors of earlier inputs do not stop the code generator.
GenerateLocal ==
  /\ step = "generate" /\ command.mode = "compile"
  /\ \/ /\ errors = before
        /\ objects' = [objects EXCEPT ![ObjectFile] = [run |-> run, module |-> text.module]]
        /\ UNCHANGED errors
     \/ errors' = Built + 1 /\ UNCHANGED objects
  /\ step' = "file" /\ pos' = pos + 1
  /\ UNCHANGED <<run, command, before, lifted, code, parsing, symbols>>

\* Mutant: a module that is not emitted is not an error.
GenerateSilent ==
  /\ step = "generate" /\ command.mode = "compile"
  /\ \/ /\ Built = 0
        /\ objects' = [objects EXCEPT ![ObjectFile] = [run |-> run, module |-> text.module]]
        /\ UNCHANGED errors
     \/ errors' = Built /\ UNCHANGED objects
  /\ step' = "file" /\ pos' = pos + 1
  /\ UNCHANGED <<run, command, before, lifted, code, parsing, symbols>>

\* LLVMCodeGen::generate and emit, which may fail to open the file.
Generate ==
  /\ step = "generate" /\ command.mode = "compile"
  /\ \/ /\ Built = 0
        /\ objects' = [objects EXCEPT ![ObjectFile] = [run |-> run, module |-> text.module]]
        /\ UNCHANGED errors
     \/ errors' = Built + 1 /\ UNCHANGED objects
  /\ step' = "file" /\ pos' = pos + 1
  /\ UNCHANGED <<run, command, before, lifted, code, parsing, symbols>>

\* LLVMCodeGen::jit; the exit status is the one of the program.
Jit ==
  /\ step = "generate" /\ command.mode = "run"
  /\ IF Built = 0 THEN errors' = errors /\ \E status \in {0, 1} : Exit(status)
     ELSE errors' = Built + 1 /\ Exit(1)
  /\ UNCHANGED <<run, command, pos, before, lifted, parsing, disk>>

\* The end of main
Finish ==
  /\ step = "file" /\ pos > Len(Inputs)
  /\ Exit(IF errors # 0 THEN 1 ELSE 0)
  /\ UNCHANGED <<run, errors, command, pos, before, lifted, parsing, disk>>

NoCommand == [mode |-> "link", output |-> FALSE, werror |-> FALSE, inputs |-> <<>>]

Init ==
  /\ run = 0 /\ command = NoCommand /\ step = "idle" /\ pos = 1 /\ text = NoText /\ done = 0
  /\ before = 0 /\ errors = 0 /\ table = InitialTable /\ ext = {} /\ lifted = FALSE
  /\ dangling = FALSE /\ code = 0
  /\ symbols = [m \in Modules |-> NoSymbols]
  /\ objects = [f \in Files \cup {Output} |-> NoObject]

Next ==
  \/ \E c \in Commands : Start(c)
  \/ FileMissing
  \/ \E t \in UNION {Texts[f] : f \in Files} : OpenFile(t)
  \/ OnImport
  \/ Body
  \/ OnTranslationUnitEnd
  \/ Transform
  \/ Generate
  \/ Jit
  \/ Finish

Spec == Init /\ [][Next]_vars

---------------------------------------------------------------------------
(* Properties *)

\* Exit status 0 of a compilation: every input has its object file, written by
\* this process, and the symbol file of the module in it was written, too
\* (unless option -o sends all object files to one place).
SuccessBuildsEverything ==
  step = "exited" /\ code = 0 /\ command.mode = "compile" /\ ~command.output =>
    \A i \in DOMAIN Inputs :
      LET o == objects[Inputs[i]] IN o.run = run /\ symbols[o.module].run = run

\* Whatever fails in whichever order, an object file never lacks the symbol
\* file of its module and is never newer than it.
ObjectsHaveSymbols ==
  \A f \in Files \cup {Output} : objects[f].run <= symbols[objects[f].module].run

\* After the first error of any input the process changes no file.
NothingAfterAnError == [][errors # 0 => UNCHANGED disk]_vars

\* The modules whose symbol files re-export a type of the current module.
Cyclic == {m \in {text.imports[k].module : k \in 1..Len(text.imports)} :
             symbols[m].origin = text.module}

\* A process with one input neither dereferences a null module nor reads a
\* declaration of a destroyed AST, if no import leads back to the module.
SafeAlone ==
  Len(Inputs) = 1 /\ text # NoText /\ Cyclic = {} => step # "crashed" /\ ~dangling

\* docs/src/CommandLineInterface.rst: "By default it built one or several
\* supplied modules to object files."  Several modules are as safe as one.
SafeTogether == text # NoText /\ Cyclic = {} => step # "crashed"
=============================================================================
