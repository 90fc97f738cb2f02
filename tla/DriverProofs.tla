---------------------------- MODULE DriverProofs ----------------------------
(***************************************************************************)
(* For every set of modules, files, texts and command lines, and however   *)
(* often the compiler is invoked: it changes no file after an error, an    *)
(* object file is never newer than the symbol file of its module, and exit *)
(* status 0 means that every input was built.  A process with one input    *)
(* neither dereferences a null module nor reads a declaration of a         *)
(* destroyed AST, unless a symbol file it imports leads back to the module *)
(* it compiles.                                                            *)
(***************************************************************************)
EXTENDS Driver, SymbolTableLemmas, TLAPS

Compiling == step \in {"imports", "body", "check", "generate"}

Counters ==
  /\ step \in Steps /\ run \in 0..MaxRuns /\ errors \in Nat /\ before \in 0..errors /\ pos \in Nat \ {0}
  /\ step # "idle" => command \in Commands
  /\ Compiling => pos <= Len(Inputs) /\ text \in Texts[Inputs[pos]]

\* No file is newer than the process.
Disk ==
  /\ symbols = [m \in Modules |-> symbols[m]]
  /\ objects = [f \in Files \cup {Output} |-> objects[f]]
  /\ \A m \in Modules : symbols[m].run \in 0..run
  /\ \A f \in Files \cup {Output} : objects[f].run \in 0..run /\ objects[f].module \in Modules

\* The symbol file was written before the code is generated, if it is.
SymbolsWritten ==
  step \in {"check", "generate"} /\ errors = 0 /\ command.mode = "compile" => symbols[text.module].run = run

\* Input i of this process has both of its files.
BuiltInput(i) ==
  /\ objects[Inputs[i]].run = run
  /\ symbols[objects[Inputs[i]].module].run = run

\* As long as there is no error, every earlier input is built.
BuiltSoFar ==
  step \in {"file", "imports", "body", "check", "generate"} /\ errors = 0
  /\ command.mode = "compile" /\ ~command.output =>
    \A i \in DOMAIN Inputs : i < pos => BuiltInput(i)

\* The inductive invariant.
Inv == Counters /\ Disk /\ SymbolsWritten /\ BuiltSoFar /\ ObjectsHaveSymbols /\ SuccessBuildsEverything

---------------------------------------------------------------------------
(* Reading symbol files adds at most one error.                            *)

\* The record that ImportModule works on.
IsReader(s) ==
  s = [table |-> s.table, ext |-> s.ext, dangling |-> s.dangling, crashed |-> s.crashed, errors |-> s.errors]

\* Another value of a field leaves a reader a reader.
LEMMA ReaderFields ==
  ASSUME NEW s, IsReader(s), NEW v
  PROVE  /\ IsReader([s EXCEPT !.table = v]) /\ [s EXCEPT !.table = v].errors = s.errors
         /\ IsReader([s EXCEPT !.ext = v]) /\ [s EXCEPT !.ext = v].errors = s.errors
         /\ IsReader([s EXCEPT !.dangling = v]) /\ [s EXCEPT !.dangling = v].errors = s.errors
         /\ IsReader([s EXCEPT !.crashed = v]) /\ [s EXCEPT !.crashed = v].errors = s.errors
         /\ [s EXCEPT !.errors = v].errors = v
BY DEF IsReader

\* getOrCreateModule reports nothing.
LEMMA GetOrCreateModuleErrors ==
  ASSUME NEW s, IsReader(s), NEW m
  PROVE  IsReader(GetOrCreateModule(s, m)) /\ GetOrCreateModule(s, m).errors = s.errors
BY DEF GetOrCreateModule, IsReader

\* readType reports nothing for a type with a description.
LEMMA ReadItemErrors ==
  ASSUME NEW s, IsReader(s), NEW m
  PROVE  IsReader(ReadItem(s, m)) /\ ReadItem(s, m).errors = s.errors
<1> DEFINE k == GetOrCreateModule(s, m)
<1>1. IsReader(k) /\ k.errors = s.errors
  BY GetOrCreateModuleErrors
<1> HIDE DEF k
<1>2. \A v : IsReader([s EXCEPT !.dangling = v]) /\ [s EXCEPT !.dangling = v].errors = s.errors
  BY ReaderFields
<1>3. \A v : /\ IsReader([k EXCEPT !.table = v]) /\ [k EXCEPT !.table = v].errors = s.errors
             /\ IsReader([k EXCEPT !.crashed = v]) /\ [k EXCEPT !.crashed = v].errors = s.errors
  BY <1>1, ReaderFields
<1> QED
  BY <1>2, <1>3, <1>1 DEF ReadItem, k

\* onImport reports at most one error beside a duplicate import.
LEMMA ImportModuleErrors ==
  ASSUME NEW s, IsReader(s), s.errors \in Nat, NEW m
  PROVE  ImportModule(s, m).errors \in {s.errors, s.errors + 1}
<1> DEFINE k == GetOrCreateModule(s, m)
           own == IF symbols[m].exports THEN ReadItem(k, m) ELSE k
<1>1. IsReader(k) /\ k.errors = s.errors
  BY GetOrCreateModuleErrors
<1>2. IsReader(own) /\ own.errors = s.errors
  BY <1>1, ReadItemErrors
<1>3. ReadItem(own, symbols[m].origin).errors = s.errors
  BY <1>2, ReadItemErrors
<1>4. [k EXCEPT !.crashed = TRUE].errors = s.errors /\ [k EXCEPT !.errors = @ + 1].errors = s.errors + 1
  BY <1>1, ReaderFields
<1>5. ReadModule(s, m).errors \in {s.errors, s.errors + 1}
  BY <1>2, <1>3, <1>4 DEF ReadModule
<1>6. [s EXCEPT !.ext = @ \cup {System}].errors = s.errors /\ [s EXCEPT !.errors = @ + 1].errors = s.errors + 1
  BY ReaderFields
<1> QED
  BY <1>5, <1>6 DEF ImportModule

\* onImport: the number of errors stays or grows.
LEMMA OnImportErrors ==
  ASSUME errors \in Nat, OnImport
  PROVE  errors' \in Nat /\ errors' >= errors
<1> DEFINE i == text.imports[done + 1]
           again == \E k \in 1..done : text.imports[k].module = i.module
           s == [table |-> table, ext |-> ext, dangling |-> dangling, crashed |-> FALSE,
                 errors |-> IF again THEN errors + 1 ELSE errors]
<1>1. IsReader(s) /\ s.errors \in Nat /\ s.errors >= errors
  BY DEF IsReader
<1>2. errors' = ImportModule(s, i.module).errors
  BY DEF OnImport
<1> HIDE DEF s, i
<1>3. errors' \in {s.errors, s.errors + 1}
  BY <1>1, <1>2, ImportModuleErrors
<1> QED
  BY <1>1, <1>3

---------------------------------------------------------------------------
(* The invariant.                                                          *)

Parsing == {"imports", "body", "check", "generate"}

\* A step of the same input that writes no file and forgets no error.
LEMMA QuietStep ==
  ASSUME Inv, UNCHANGED <<run, command, pos, disk>>, errors' \in Nat, errors' >= errors,
         step \in Parsing \cup {"file"}, step' # "exited" \/ code' = 1 \/ command.mode = "run"
  PROVE  Disk' /\ ObjectsHaveSymbols' /\ BuiltSoFar' /\ SuccessBuildsEverything'
<1>1. Disk' /\ ObjectsHaveSymbols'
  BY DEF Inv, Disk, ObjectsHaveSymbols, disk
<1>2. BuiltSoFar'
  BY DEF Inv, Counters, BuiltSoFar, BuiltInput, disk, Inputs, Parsing
<1>3. SuccessBuildsEverything'
  BY DEF SuccessBuildsEverything
<1> QED
  BY <1>1, <1>2, <1>3

\* The step of an input that is being compiled.
LEMMA InputFacts ==
  ASSUME Counters, Compiling
  PROVE  /\ pos \in DOMAIN Inputs /\ Inputs[pos] \in Files /\ text.module \in Modules
         /\ command.mode \in Modes /\ command.output \in BOOLEAN
<1>1. command \in Commands
  BY DEF Counters, Compiling
<1>2. Inputs \in Seq(Files) /\ command.mode \in Modes /\ command.output \in BOOLEAN
  BY <1>1, CommandsAssumption DEF Inputs
<1>3. pos \in DOMAIN Inputs /\ Inputs[pos] \in Files
  BY <1>2 DEF Counters, Compiling
<1> QED
  BY <1>2, <1>3, CommandsAssumption DEF Counters, Compiling

\* main
LEMMA StartKeepsInv == ASSUME Inv, NEW c \in Commands, Start(c) PROVE Inv'
<1>1. Counters'
  BY RunsAssumption DEF Inv, Counters, Start, Exit, Compiling, Steps
<1>2. Disk' /\ ObjectsHaveSymbols'
  <2>1. UNCHANGED <<symbols, objects>> /\ run' = run + 1 /\ run \in Nat
    BY RunsAssumption DEF Inv, Counters, Start, disk
  <2>2. \A x \in 0..run : x \in 0..(run + 1)
    BY <2>1
  <2> QED
    BY <2>1, <2>2 DEF Inv, Disk, ObjectsHaveSymbols
<1>3. SymbolsWritten' /\ SuccessBuildsEverything'
  BY DEF Start, Exit, SymbolsWritten, SuccessBuildsEverything
<1>4. BuiltSoFar'
  <2>1. pos' = 1 /\ Inputs' = c.inputs /\ c.inputs \in Seq(Files)
    BY CommandsAssumption DEF Start, Inputs
  <2> QED
    BY <2>1 DEF BuiltSoFar
<1> QED
  BY <1>1, <1>2, <1>3, <1>4 DEF Inv

\* Scanner::Scanner
LEMMA FileMissingKeepsInv == ASSUME Inv, FileMissing PROVE Inv'
<1>1. Counters' /\ SymbolsWritten'
  BY DEF Inv, Counters, FileMissing, Exit, Compiling, Steps, SymbolsWritten
<1>2. Disk' /\ ObjectsHaveSymbols' /\ BuiltSoFar' /\ SuccessBuildsEverything'
  BY QuietStep DEF Inv, Counters, FileMissing, Exit, disk, Parsing
<1> QED
  BY <1>1, <1>2 DEF Inv

\* onTranslationUnitStart
LEMMA OpenFileKeepsInv == ASSUME Inv, NEW t, OpenFile(t) PROVE Inv'
<1>1. \/ step' = "exited" /\ code' = 1 /\ errors' = errors + 1
      \/ step' = "imports" /\ errors' = errors
  <2>1. CASE HasModule(table, t.module)
    BY <2>1 DEF OpenFile, Exit
  <2>2. CASE ~HasModule(table, t.module)
    BY <2>2 DEF OpenFile
  <2> QED
    BY <2>1, <2>2
<1>2. /\ step = "file" /\ pos <= Len(Inputs) /\ t \in Texts[Inputs[pos]]
      /\ text' = t /\ before' = errors /\ UNCHANGED <<run, command, pos, disk>>
  BY DEF OpenFile
<1>3. errors' \in Nat /\ errors' >= errors /\ errors \in 0..errors'
  BY <1>1 DEF Inv, Counters
<1>4. Counters' /\ SymbolsWritten'
  BY <1>1, <1>2, <1>3 DEF Inv, Counters, Compiling, Steps, SymbolsWritten, Inputs
<1>5. Disk' /\ ObjectsHaveSymbols' /\ BuiltSoFar' /\ SuccessBuildsEverything'
  BY <1>1, <1>2, <1>3, QuietStep DEF Parsing
<1> QED
  BY <1>4, <1>5 DEF Inv

\* onImport
LEMMA OnImportKeepsInv == ASSUME Inv, OnImport PROVE Inv'
<1>1. errors' \in Nat /\ errors' >= errors
  BY OnImportErrors DEF Inv, Counters
<1>2. step = "imports" /\ step' \in {"imports", "crashed"} /\ UNCHANGED <<run, command, pos, before, text, disk>>
  BY DEF OnImport, process, disk
<1>3. Counters' /\ SymbolsWritten'
  BY <1>1, <1>2 DEF Inv, Counters, Compiling, Steps, SymbolsWritten, Inputs
<1>4. Disk' /\ ObjectsHaveSymbols' /\ BuiltSoFar' /\ SuccessBuildsEverything'
  BY <1>1, <1>2, QuietStep DEF Parsing
<1> QED
  BY <1>3, <1>4 DEF Inv

\* The declarations and statements of a module.
LEMMA BodyKeepsInv == ASSUME Inv, Body PROVE Inv'
<1>1. errors' \in Nat /\ errors' >= errors
  BY DEF Inv, Counters, Body
<1>2. step = "imports" /\ step' \in {"body", "crashed"} /\ UNCHANGED <<run, command, pos, before, text, disk>>
  BY DEF Body, process, disk
<1>3. Counters' /\ SymbolsWritten'
  BY <1>1, <1>2 DEF Inv, Counters, Compiling, Steps, SymbolsWritten, Inputs
<1>4. Disk' /\ ObjectsHaveSymbols' /\ BuiltSoFar' /\ SuccessBuildsEverything'
  BY <1>1, <1>2, QuietStep DEF Parsing
<1> QED
  BY <1>3, <1>4 DEF Inv

\* onTranslationUnitEnd: a symbol file only becomes newer.
LEMMA TranslationUnitEndKeepsInv == ASSUME Inv, OnTranslationUnitEnd PROVE Inv'
<1>1. step = "body" /\ step' = "check" /\ UNCHANGED <<run, command, pos, before, errors, text, objects>>
  BY DEF OnTranslationUnitEnd, process, parsing
<1>2. text.module \in Modules /\ run \in Nat
  BY <1>1, InputFacts, RunsAssumption DEF Inv, Compiling, Counters
<1>3. /\ symbols' = [m \in Modules |-> symbols'[m]]
      /\ \A m \in Modules : symbols'[m].run = symbols[m].run \/ symbols'[m].run = run
      /\ errors = 0 /\ command.mode = "compile" => symbols'[text.module].run = run
  BY <1>2 DEF OnTranslationUnitEnd, Inv, Disk
<1>4. \A m \in Modules : symbols[m].run \in 0..run /\ symbols'[m].run \in 0..run /\ symbols[m].run <= symbols'[m].run
  BY <1>2, <1>3 DEF Inv, Disk
<1>5. Counters' /\ SymbolsWritten' /\ SuccessBuildsEverything'
  BY <1>1, <1>3 DEF Inv, Counters, Compiling, Steps, SymbolsWritten, SuccessBuildsEverything, Inputs
<1>6. Disk' /\ ObjectsHaveSymbols'
  <2>1. Disk'
    BY <1>1, <1>3, <1>4 DEF Inv, Disk
  <2>2. ASSUME NEW f \in Files \cup {Output}
        PROVE  objects[f].run <= symbols'[objects[f].module].run
    <3>1. objects[f].module \in Modules /\ objects[f].run \in Nat
          /\ objects[f].run <= symbols[objects[f].module].run
      <4>1. objects[f].run \in 0..run /\ objects[f].module \in Modules
        BY DEF Inv, Disk
      <4> QED
        BY <1>2, <4>1 DEF Inv, ObjectsHaveSymbols
    <3> DEFINE m == objects[f].module
    <3>2. symbols[m].run \in 0..run /\ symbols'[m].run \in 0..run /\ symbols[m].run <= symbols'[m].run
      BY <1>4, <3>1
    <3> HIDE DEF m
    <3>3. \A x, y \in 0..run : \A z \in Nat : z <= x /\ x <= y => z <= y
      BY <1>2
    <3>4. objects[f].run <= symbols'[m].run
      BY <3>1, <3>2, <3>3 DEF m
    <3> QED
      BY <3>4 DEF m
  <2> QED
    BY <1>1, <2>1, <2>2 DEF ObjectsHaveSymbols
<1>7. BuiltSoFar'
  <2> SUFFICES ASSUME errors = 0, command.mode = "compile", ~command.output,
                      NEW i \in DOMAIN Inputs, i < pos
               PROVE  BuiltInput(i)'
    BY <1>1 DEF BuiltSoFar, Inputs
  <2>1. BuiltInput(i) /\ Inputs[i] \in Files
    <3>1. command \in Commands
      BY <1>1 DEF Inv, Counters
    <3>2. Inputs \in Seq(Files)
      BY <3>1, CommandsAssumption DEF Inputs
    <3> QED
      BY <1>1, <3>2 DEF Inv, BuiltSoFar
  <2>2. objects[Inputs[i]].module \in Modules
    BY <2>1 DEF Inv, Disk
  <2> QED
    BY <1>1, <1>3, <2>1, <2>2 DEF BuiltInput, Inputs
<1> QED
  BY <1>5, <1>6, <1>7 DEF Inv

\* Compiler::run after the parser; an input with errors leaves an error.
LEMMA TransformKeepsInv == ASSUME Inv, Transform PROVE Inv'
<1>1. /\ step = "check" /\ UNCHANGED <<run, command, before, text, disk>>
      /\ errors \in Nat /\ before \in Nat /\ before <= errors /\ pos \in Nat \ {0}
  BY DEF Transform, parsing, Inv, Counters
<1>2. CASE errors # before /\ command.mode = "run"
  <2>1. step' = "exited" /\ code' = 1 /\ errors' = errors /\ pos' = pos
    BY <1>2 DEF Transform, Exit
  <2>2. Counters' /\ SymbolsWritten'
    BY <1>1, <2>1 DEF Inv, Counters, Compiling, Steps, SymbolsWritten
  <2>3. Disk' /\ ObjectsHaveSymbols' /\ BuiltSoFar' /\ SuccessBuildsEverything'
    BY <1>1, <2>1, QuietStep DEF Parsing
  <2> QED
    BY <2>2, <2>3 DEF Inv
<1>3. CASE errors # before /\ command.mode # "run"
  <2>1. step' = "file" /\ errors' = errors /\ errors # 0 /\ pos' = pos + 1
    BY <1>1, <1>3 DEF Transform
  <2>2. Counters' /\ SymbolsWritten' /\ BuiltSoFar' /\ SuccessBuildsEverything'
    BY <1>1, <2>1 DEF Inv, Counters, Compiling, Steps, SymbolsWritten, BuiltSoFar, SuccessBuildsEverything
  <2>3. Disk' /\ ObjectsHaveSymbols'
    BY <1>1 DEF Inv, Disk, ObjectsHaveSymbols, disk
  <2> QED
    BY <2>2, <2>3 DEF Inv
<1>4. CASE errors = before
  <2>1. step' = "generate" /\ pos' = pos /\ errors' \in {errors, errors + 1}
    BY <1>4 DEF Transform
  <2>2. errors' \in Nat /\ errors' >= errors /\ before \in 0..errors'
    BY <1>1, <2>1
  <2>3. Counters'
    BY <1>1, <2>1, <2>2 DEF Inv, Counters, Compiling, Steps, Inputs
  <2>4. SymbolsWritten'
    BY <1>1, <2>1, <2>2 DEF Inv, SymbolsWritten, disk
  <2>5. Disk' /\ ObjectsHaveSymbols' /\ BuiltSoFar' /\ SuccessBuildsEverything'
    BY <1>1, <2>1, <2>2, QuietStep DEF Parsing
  <2> QED
    BY <2>3, <2>4, <2>5 DEF Inv
<1> QED
  BY <1>2, <1>3, <1>4

\* LLVMCodeGen::generate: the object file comes after the symbol file.
LEMMA GenerateKeepsInv == ASSUME Inv, Generate PROVE Inv'
<1>1. /\ step = "generate" /\ command.mode = "compile" /\ step' = "file" /\ pos' = pos + 1
      /\ UNCHANGED <<run, command, before, text, symbols>>
      /\ errors \in Nat /\ before \in Nat /\ before <= errors /\ pos \in Nat \ {0} /\ run \in Nat
  BY RunsAssumption DEF Generate, parsing, Inv, Counters
<1>2. /\ pos \in DOMAIN Inputs /\ Inputs[pos] \in Files /\ text.module \in Modules
      /\ command.output \in BOOLEAN /\ command \in Commands
  BY <1>1, InputFacts DEF Inv, Counters, Compiling
<1>3. Inputs \in Seq(Files) /\ Inputs' = Inputs
  BY <1>1, <1>2, CommandsAssumption DEF Inputs
<1>4. Built \in {errors, errors + 1}
  BY DEF Built
<1>5. SymbolsWritten' /\ SuccessBuildsEverything'
  BY <1>1 DEF SymbolsWritten, SuccessBuildsEverything
<1>6. CASE errors' = Built + 1 /\ UNCHANGED objects
  <2>1. errors' \in Nat /\ errors' # 0 /\ before \in 0..errors'
    BY <1>1, <1>4, <1>6
  <2>2. Counters' /\ BuiltSoFar'
    BY <1>1, <2>1 DEF Inv, Counters, Compiling, Steps, BuiltSoFar
  <2>3. Disk' /\ ObjectsHaveSymbols'
    BY <1>1, <1>6 DEF Inv, Disk, ObjectsHaveSymbols
  <2> QED
    BY <1>5, <2>2, <2>3 DEF Inv
<1>7. CASE /\ Built = 0 /\ UNCHANGED errors
           /\ objects' = [objects EXCEPT ![ObjectFile] = [run |-> run, module |-> text.module]]
  <2>1. errors = 0 /\ symbols[text.module].run = run
    BY <1>1, <1>4, <1>7 DEF Inv, SymbolsWritten
  <2>2. ObjectFile \in Files \cup {Output}
    BY <1>2 DEF ObjectFile
  <2>3. /\ objects' = [f \in Files \cup {Output} |-> objects'[f]]
        /\ \A f \in Files \cup {Output} :
             \/ objects'[f] = objects[f]
             \/ objects'[f].run = run /\ objects'[f].module = text.module
        /\ objects'[ObjectFile] = [run |-> run, module |-> text.module]
    BY <1>7, <2>2 DEF Inv, Disk
  <2>4. Counters'
    BY <1>1, <1>7 DEF Inv, Counters, Compiling, Steps
  <2>5. Disk'
    <3>1. run \in 0..run /\ \A m \in Modules : symbols[m].run \in 0..run
      BY <1>1 DEF Inv, Disk
    <3>2. \A f \in Files \cup {Output} : objects'[f].run \in 0..run /\ objects'[f].module \in Modules
      BY <1>2, <2>3, <3>1 DEF Inv, Disk
    <3>3. symbols' = [m \in Modules |-> symbols'[m]]
      BY <1>1 DEF Inv, Disk
    <3> QED
      BY <1>1, <2>3, <3>1, <3>2, <3>3 DEF Disk
  <2>6. ObjectsHaveSymbols'
    <3> SUFFICES ASSUME NEW f \in Files \cup {Output}
                 PROVE  objects'[f].run <= symbols[objects'[f].module].run
      BY <1>1 DEF ObjectsHaveSymbols
    <3>1. CASE objects'[f] = objects[f]
      BY <3>1 DEF Inv, ObjectsHaveSymbols
    <3>2. CASE objects'[f].run = run /\ objects'[f].module = text.module
      BY <1>1, <2>1, <3>2
    <3> QED
      BY <2>3, <3>1, <3>2
  <2>7. BuiltSoFar'
    <3> SUFFICES ASSUME ~command.output, NEW i \in DOMAIN Inputs, i < pos + 1
                 PROVE  objects'[Inputs[i]].run = run /\ symbols[objects'[Inputs[i]].module].run = run
      BY <1>1, <1>3 DEF BuiltSoFar, BuiltInput
    <3>1. Inputs[i] \in Files /\ i \in Nat
      BY <1>3
    <3>2. CASE i = pos
      BY <2>1, <2>3, <3>2 DEF ObjectFile
    <3>3. CASE i < pos
      <4>1. BuiltInput(i)
        BY <1>1, <2>1, <3>3 DEF Inv, BuiltSoFar
      <4>2. CASE objects'[Inputs[i]] = objects[Inputs[i]]
        BY <4>1, <4>2 DEF BuiltInput
      <4>3. CASE objects'[Inputs[i]].run = run /\ objects'[Inputs[i]].module = text.module
        BY <2>1, <4>3
      <4> QED
        BY <2>3, <3>1, <4>2, <4>3
    <3> QED
      BY <1>1, <3>1, <3>2, <3>3
  <2> QED
    BY <1>5, <2>4, <2>5, <2>6, <2>7 DEF Inv
<1> QED
  BY <1>6, <1>7 DEF Generate

\* LLVMCodeGen::jit writes no file.
LEMMA JitKeepsInv == ASSUME Inv, Jit PROVE Inv'
<1>1. /\ step = "generate" /\ command.mode = "run" /\ step' = "exited"
      /\ UNCHANGED <<run, command, pos, before, text, disk>>
      /\ errors \in Nat /\ before \in Nat /\ before <= errors
  BY DEF Jit, Exit, parsing, Inv, Counters
<1>2. errors' \in Nat /\ errors' >= errors
  <2>1. errors' = errors \/ errors' = Built + 1
    BY DEF Jit
  <2> QED
    BY <1>1, <2>1 DEF Built
<1>3. Counters' /\ SymbolsWritten'
  BY <1>1, <1>2 DEF Inv, Counters, Compiling, Steps, SymbolsWritten
<1>4. Disk' /\ ObjectsHaveSymbols' /\ BuiltSoFar' /\ SuccessBuildsEverything'
  BY <1>1, <1>2, QuietStep DEF Parsing
<1> QED
  BY <1>3, <1>4 DEF Inv

\* The end of main: all inputs are earlier ones.
LEMMA FinishKeepsInv == ASSUME Inv, Finish PROVE Inv'
<1>1. /\ step = "file" /\ pos > Len(Inputs) /\ step' = "exited" /\ code' = (IF errors # 0 THEN 1 ELSE 0)
      /\ UNCHANGED <<run, errors, command, pos, before, disk>>
      /\ errors \in Nat /\ pos \in Nat \ {0} /\ command \in Commands
  BY DEF Finish, Exit, Inv, Counters
<1>2. Inputs \in Seq(Files) /\ Inputs' = Inputs
  BY <1>1, CommandsAssumption DEF Inputs
<1>3. Counters' /\ SymbolsWritten' /\ BuiltSoFar'
  BY <1>1 DEF Inv, Counters, Compiling, Steps, SymbolsWritten, BuiltSoFar
<1>4. Disk' /\ ObjectsHaveSymbols'
  BY <1>1 DEF Inv, Disk, ObjectsHaveSymbols, disk
<1>5. SuccessBuildsEverything'
  <2> SUFFICES ASSUME errors = 0, command.mode = "compile", ~command.output, NEW i \in DOMAIN Inputs
               PROVE  BuiltInput(i)
    BY <1>1, <1>2 DEF SuccessBuildsEverything, BuiltInput, disk
  <2>1. i < pos
    BY <1>1, <1>2
  <2> QED
    BY <1>1, <2>1 DEF Inv, BuiltSoFar
<1> QED
  BY <1>3, <1>4, <1>5 DEF Inv

---------------------------------------------------------------------------
(* The theorems.                                                           *)

\* Before the first invocation there are no files.
LEMMA InitInv == Init => Inv
<1> SUFFICES ASSUME Init PROVE Inv
  OBVIOUS
<1>1. Counters
  BY RunsAssumption DEF Init, Counters, Compiling, Steps
<1>2. Disk /\ ObjectsHaveSymbols
  BY ModulesAssumption DEF Init, Disk, ObjectsHaveSymbols, NoSymbols, NoObject
<1>3. SymbolsWritten /\ BuiltSoFar /\ SuccessBuildsEverything
  BY DEF Init, SymbolsWritten, BuiltSoFar, SuccessBuildsEverything
<1> QED
  BY <1>1, <1>2, <1>3 DEF Inv

\* Whatever the process does, or does not do, keeps the invariant.
LEMMA NextInv == Inv /\ [Next]_vars => Inv'
<1> SUFFICES ASSUME Inv, [Next]_vars PROVE Inv'
  OBVIOUS
<1>1. CASE Next
  <2>1. ASSUME NEW c \in Commands, Start(c) PROVE Inv'
    BY <2>1, StartKeepsInv
  <2>2. ASSUME NEW t, OpenFile(t) PROVE Inv'
    BY <2>2, OpenFileKeepsInv
  <2> QED
    BY <1>1, <2>1, <2>2, FileMissingKeepsInv, OnImportKeepsInv, BodyKeepsInv, TranslationUnitEndKeepsInv,
       TransformKeepsInv, GenerateKeepsInv, JitKeepsInv, FinishKeepsInv DEF Next
<1>2. CASE UNCHANGED vars
  BY <1>2 DEF vars, process, parsing, disk, Inv, Counters, Disk, SymbolsWritten, BuiltSoFar, BuiltInput,
     ObjectsHaveSymbols, SuccessBuildsEverything, Compiling, Inputs
<1> QED
  BY <1>1, <1>2

\* The inductive invariant holds for every number of invocations and inputs.
THEOREM Inductive == Spec => []Inv
BY InitInv, NextInv, PTL DEF Spec

\* Whatever fails in whichever order (Compiler::run, LLVMCodeGen::generate),
\* an object file is never newer than the symbol file of its module.
THEOREM ObjectsNeverNewer == Spec => []ObjectsHaveSymbols
<1>1. Inv => ObjectsHaveSymbols
  BY DEF Inv
<1> QED
  BY <1>1, Inductive, PTL

\* Exit status 0 of a compilation (main) means that every input has its object
\* file and the symbol file of the module in it, both of this process.
THEOREM SuccessIsComplete == Spec => []SuccessBuildsEverything
<1>1. Inv => SuccessBuildsEverything
  BY DEF Inv
<1> QED
  BY <1>1, Inductive, PTL

\* Once an error is counted (Logger::getErrorCount), Sema::onTranslationUnitEnd
\* and LLVMCodeGen::generate write no file for this or any later input.
THEOREM NoOutputAfterError == Spec => NothingAfterAnError
<1>1. Inv /\ [Next]_vars => [errors # 0 => UNCHANGED disk]_vars
  <2> SUFFICES ASSUME Inv, Next, errors # 0 PROVE UNCHANGED disk
    OBVIOUS
  <2>1. CASE OnTranslationUnitEnd
    BY <2>1 DEF OnTranslationUnitEnd, disk
  <2>2. CASE Generate
    <3>1. Built # 0
      BY DEF Built, Inv, Counters
    <3> QED
      BY <2>2, <3>1 DEF Generate, disk
  <2>3. CASE Transform
    BY <2>3 DEF Transform
  <2>4. CASE Jit
    BY <2>4 DEF Jit
  <2>5. CASE Body
    BY <2>5 DEF Body
  <2>6. CASE OnImport
    BY <2>6 DEF OnImport
  <2>7. ASSUME NEW t, OpenFile(t) PROVE UNCHANGED disk
    BY <2>7 DEF OpenFile
  <2>8. ASSUME NEW c, Start(c) PROVE UNCHANGED disk
    BY <2>8 DEF Start
  <2>9. CASE FileMissing \/ Finish
    BY <2>9 DEF FileMissing, Finish
  <2> QED
    BY <2>1, <2>2, <2>3, <2>4, <2>5, <2>6, <2>7, <2>8, <2>9 DEF Next
<1> QED
  BY <1>1, Inductive, PTL DEF Spec, NothingAfterAnError

---------------------------------------------------------------------------
(* What the tables of a process and the symbol files know of modules.      *)

Alone == Len(Inputs) = 1

\* The inputs that the declarations in the root scopes may be of.
Owners == IF Alone THEN {1} ELSE Nat

\* A table whose namespaces hold declarations of D only; SYSTEM holds none.
Shape(t, D) ==
  /\ t.scopes = [m \in Modules |-> t.scopes[m]]
  /\ \A m \in Modules : t.scopes[m] \in Seq(AnyScope)
  /\ \A m \in Modules : HasModule(t, m) => ScopeOf(t.scopes[m][1], D)
  /\ HasModule(t, System) /\ ScopeOf(t.scopes[System][1], {})
  /\ t.aliases \in [Modules -> Modules \cup {NoModule}]

\* scope_ is the scope of the module that is being compiled, below its root.
InText(t) ==
  /\ text.module \in Modules \ {System}
  /\ t.module = text.module /\ t.level = 1
  /\ Len(t.scopes[text.module]) >= 2

\* A table of a process with one input knows only the modules of its AST.
Known(t, modules) == \A m \in Modules : HasModule(t, m) => m \in modules \cup {System, text.module}

---------------------------------------------------------------------------
(* The operations of the table.                                            *)

\* SymbolTable::lookup finds declarations of the owners only, and in SYSTEM
\* nothing at all.
LEMMA LookupQualifiedOwner ==
  ASSUME NEW t, NEW D, Shape(t, D), NEW q \in Modules, LookupQualified(t, q, Item) # NoDecl
  PROVE  LookupQualified(t, q, Item) \in D /\ t.aliases[q] \in Modules \ {System}
<1>1. Item \in Names
  BY TextsAssumption
<1> DEFINE m == t.aliases[q]
<1>2. m \in Modules /\ HasModule(t, m) /\ LookupQualified(t, q, Item) = ScopeLookup(t.scopes[m][1], Item)
  BY DEF LookupQualified, Shape
<1>3. ScopeLookup(t.scopes[m][1], Item) \in D \cup {NoDecl}
  BY <1>1, <1>2, LookupInScope DEF Shape
<1>4. m # System
  <2>1. ScopeLookup(t.scopes[System][1], Item) \in {} \cup {NoDecl}
    BY <1>1, LookupInScope DEF Shape
  <2> QED
    BY <1>2, <2>1
<1> QED
  BY <1>2, <1>3, <1>4

\* A nonempty chain of scopes has a root, and other roots leave its length.
LEMMA RootOfChain ==
  ASSUME NEW chain \in Seq(AnyScope), chain # <<>>, NEW s \in AnyScope
  PROVE  /\ chain[1] \in AnyScope /\ [chain EXCEPT ![1] = s] \in Seq(AnyScope)
         /\ [chain EXCEPT ![1] = s] # <<>> /\ [chain EXCEPT ![1] = s][1] = s
         /\ Len([chain EXCEPT ![1] = s]) = Len(chain)
<1> DEFINE T == AnyScope
<1>1. chain \in Seq(T) /\ s \in T
  OBVIOUS
<1> HIDE DEF T
<1>2. Len(chain) \in Nat /\ Len(chain) # 0 /\ DOMAIN chain = 1..Len(chain)
  BY <1>1
<1>3. 1 \in DOMAIN chain
  BY <1>2
<1>4. chain[1] \in T
  BY <1>1, <1>3
<1>5. /\ [chain EXCEPT ![1] = s] \in Seq(T) /\ [chain EXCEPT ![1] = s][1] = s
      /\ Len([chain EXCEPT ![1] = s]) = Len(chain)
  BY <1>1, <1>3
<1>6. [chain EXCEPT ![1] = s] # <<>>
  BY <1>2, <1>5
<1> QED
  BY <1>4, <1>5, <1>6 DEF T

\* The chain of a module that was just added.
LEMMA NewChain == <<EmptyScope>> \in Seq(AnyScope) /\ <<EmptyScope>>[1] = EmptyScope /\ <<EmptyScope>> # <<>>
<1> DEFINE T == AnyScope
           e == EmptyScope
<1>1. e \in T
  BY EmptyScopeOf DEF ScopeOf
<1> HIDE DEF T, e
<1>2. <<e>> \in Seq(T) /\ <<e>>[1] = e /\ <<e>> # <<>>
  BY <1>1
<1> QED
  BY <1>2 DEF T, e

\* SymbolTable::addModule without activation.
LEMMA AddModuleShape ==
  ASSUME NEW t, NEW D, Shape(t, D), NEW m \in Modules, ~HasModule(t, m)
  PROVE  /\ Shape(AddModule(t, m, FALSE), D)
         /\ \A x \in Modules : HasModule(AddModule(t, m, FALSE), x) <=> HasModule(t, x) \/ x = m
         /\ InText(t) => InText(AddModule(t, m, FALSE))
<1> DEFINE u == AddModule(t, m, FALSE)
<1>1. /\ u.scopes = [t.scopes EXCEPT ![m] = <<EmptyScope>>] /\ u.aliases = [t.aliases EXCEPT ![m] = m]
      /\ u.module = t.module /\ u.level = t.level
  BY DEF AddModule
<1> HIDE DEF u
<1>2. /\ u.scopes = [x \in Modules |-> u.scopes[x]] /\ u.scopes[m] = <<EmptyScope>>
      /\ \A x \in Modules : x # m => u.scopes[x] = t.scopes[x]
  BY <1>1 DEF Shape
<1>3. \A x \in Modules : HasModule(u, x) <=> HasModule(t, x) \/ x = m
  BY <1>2, NewChain DEF HasModule
<1>4. u.aliases \in [Modules -> Modules \cup {NoModule}]
  BY <1>1 DEF Shape
<1>5. m # System /\ System \in Modules
  BY ModulesAssumption DEF Shape
<1>6. Shape(u, D)
  <2>1. \A x \in Modules : u.scopes[x] \in Seq(AnyScope)
    BY <1>2, NewChain DEF Shape
  <2>2. \A x \in Modules : HasModule(u, x) => ScopeOf(u.scopes[x][1], D)
    BY <1>2, <1>3, NewChain, EmptyScopeOf DEF Shape
  <2>3. HasModule(u, System) /\ ScopeOf(u.scopes[System][1], {})
    BY <1>2, <1>3, <1>5 DEF Shape
  <2> QED
    BY <1>2, <1>4, <2>1, <2>2, <2>3 DEF Shape
<1>7. InText(t) => InText(u)
  <2> SUFFICES ASSUME InText(t) PROVE InText(u)
    OBVIOUS
  <2>1. text.module # m
    <3>1. t.scopes[text.module] # <<>>
      BY DEF InText
    <3> QED
      BY <3>1 DEF HasModule
  <2> QED
    BY <1>1, <1>2, <2>1 DEF InText
<1> QED
  BY <1>3, <1>6, <1>7 DEF u

\* SymbolTable::import, for another module than SYSTEM.
LEMMA ImportShape ==
  ASSUME NEW t, NEW D, D \subseteq Nat, Shape(t, D), NEW m \in Modules, m # System, HasModule(t, m), NEW d \in D
  PROVE  /\ Shape(Import(t, m, Item, d), D)
         /\ \A x \in Modules : HasModule(Import(t, m, Item, d), x) <=> HasModule(t, x)
         /\ InText(t) => InText(Import(t, m, Item, d))
<1> DEFINE u == Import(t, m, Item, d)
           s == ScopeInsert(t.scopes[m][1], Item, d)
           chain == [t.scopes[m] EXCEPT ![1] = s]
<1>1. /\ u.scopes = [t.scopes EXCEPT ![m] = chain] /\ u.aliases = t.aliases
      /\ u.module = t.module /\ u.level = t.level
  BY DEF Import, WithChain
<1>2. ScopeOf(s, D)
  <2>1. ScopeOf(t.scopes[m][1], D) /\ Item \in Names /\ d \in Nat /\ d \in D
    BY TextsAssumption DEF Shape
  <2> DEFINE r == t.scopes[m][1]
  <2> HIDE DEF r
  <2>2. ScopeOf(ScopeInsert(r, Item, d), D)
    BY <2>1, InsertInScope DEF r
  <2> QED
    BY <2>2 DEF r
<1> HIDE DEF u, s
<1>3. /\ chain \in Seq(AnyScope) /\ chain # <<>> /\ chain[1] = s /\ Len(chain) = Len(t.scopes[m])
  <2>1. t.scopes[m] \in Seq(AnyScope) /\ t.scopes[m] # <<>> /\ s \in AnyScope
    BY <1>2 DEF Shape, HasModule, ScopeOf
  <2> QED
    BY <2>1, RootOfChain
<1> HIDE DEF chain
<1>4. /\ u.scopes = [x \in Modules |-> u.scopes[x]] /\ u.scopes[m] = chain
      /\ \A x \in Modules : x # m => u.scopes[x] = t.scopes[x]
  BY <1>1 DEF Shape
<1>5. \A x \in Modules : HasModule(u, x) <=> HasModule(t, x)
  BY <1>3, <1>4 DEF HasModule
<1>6. Shape(u, D)
  <2>1. \A x \in Modules : u.scopes[x] \in Seq(AnyScope)
    BY <1>3, <1>4 DEF Shape
  <2>2. \A x \in Modules : HasModule(u, x) => ScopeOf(u.scopes[x][1], D)
    BY <1>2, <1>3, <1>4, <1>5 DEF Shape
  <2>3. HasModule(u, System) /\ ScopeOf(u.scopes[System][1], {})
    BY <1>4, <1>5, ModulesAssumption DEF Shape
  <2> QED
    BY <1>1, <1>4, <2>1, <2>2, <2>3 DEF Shape
<1>7. InText(t) => InText(u)
  BY <1>1, <1>3, <1>4 DEF InText
<1> QED
  BY <1>5, <1>6, <1>7 DEF u

\* SymbolTable::addAlias
LEMMA AddAliasShape ==
  ASSUME NEW t, NEW D, Shape(t, D), NEW a \in Modules, NEW m \in Modules
  PROVE  /\ Shape(AddAlias(t, a, m), D)
         /\ \A x \in Modules : HasModule(AddAlias(t, a, m), x) <=> HasModule(t, x)
         /\ InText(t) => InText(AddAlias(t, a, m))
<1>1. /\ AddAlias(t, a, m).scopes = t.scopes /\ AddAlias(t, a, m).module = t.module
      /\ AddAlias(t, a, m).level = t.level
      /\ AddAlias(t, a, m).aliases = [[t.aliases EXCEPT ![m] = NoModule] EXCEPT ![a] = m]
  BY DEF AddAlias
<1>2. AddAlias(t, a, m).aliases \in [Modules -> Modules \cup {NoModule}]
  BY <1>1 DEF Shape
<1> QED
  BY <1>1, <1>2 DEF Shape, HasModule, InText

---------------------------------------------------------------------------
(* Reading a symbol file.                                                  *)

\* What holds while the imports are read; s is the record of ImportModule.
Reader(s) ==
  /\ IsReader(s)
  /\ Shape(s.table, Owners) /\ InText(s.table)
  /\ Alone => ~s.dangling /\ Known(s.table, s.ext)

\* The files that are read: no type of SYSTEM is re-exported.
Origins == \A m \in Modules : symbols[m].origin \in (Modules \ {System}) \cup {NoModule}

\* SymbolImporter::getOrCreateModule: the AST knows every module but the one
\* that is compiled and SYSTEM.
LEMMA GetOrCreateModuleReads ==
  ASSUME NEW s, Reader(s), NEW m \in Modules
  PROVE  /\ Reader(GetOrCreateModule(s, m)) /\ HasModule(GetOrCreateModule(s, m).table, m)
         /\ GetOrCreateModule(s, m).crashed = s.crashed
         /\ Alone /\ m \notin {System, text.module} => m \in GetOrCreateModule(s, m).ext
<1> DEFINE k == GetOrCreateModule(s, m)
<1>1. CASE HasModule(s.table, m)
  BY <1>1 DEF GetOrCreateModule, Reader, Known
<1>2. CASE ~HasModule(s.table, m)
  <2>1. /\ k.table = AddModule(s.table, m, FALSE) /\ k.ext = s.ext \cup {m}
        /\ k.dangling = s.dangling /\ k.crashed = s.crashed /\ IsReader(k)
    BY <1>2 DEF GetOrCreateModule, Reader, IsReader
  <2> HIDE DEF k
  <2>2. /\ Shape(k.table, Owners) /\ InText(k.table)
        /\ \A x \in Modules : HasModule(k.table, x) <=> HasModule(s.table, x) \/ x = m
    <3> DEFINE t == s.table
    <3>1. Shape(t, Owners) /\ InText(t) /\ ~HasModule(t, m)
      BY <1>2 DEF Reader
    <3> HIDE DEF t
    <3>2. /\ Shape(AddModule(t, m, FALSE), Owners) /\ InText(AddModule(t, m, FALSE))
          /\ \A x \in Modules : HasModule(AddModule(t, m, FALSE), x) <=> HasModule(t, x) \/ x = m
      BY <3>1, AddModuleShape
    <3> QED
      BY <2>1, <3>2 DEF t
  <2>3. Alone => ~k.dangling /\ Known(k.table, k.ext)
    BY <2>1, <2>2 DEF Reader, Known
  <2> QED
    BY <2>1, <2>2, <2>3 DEF Reader, k
<1> QED
  BY <1>1, <1>2

\* SymbolImporter::readType: without a null module nothing is dereferenced,
\* and what is found was declared by this input when there is no other.
LEMMA ReadItemReads ==
  ASSUME NEW s, Reader(s), NEW m \in Modules, m # System, pos \in Owners, pos \in Nat
  PROVE  /\ Reader(ReadItem(s, m))
         /\ Alone /\ m # text.module => ReadItem(s, m).crashed = s.crashed
<1> DEFINE d == LookupQualified(s.table, m, Item)
           k == GetOrCreateModule(s, m)
           r == ReadItem(s, m)
<1>1. /\ Reader(k) /\ HasModule(k.table, m) /\ k.crashed = s.crashed
      /\ Alone /\ m \notin {System, text.module} => m \in k.ext
  BY GetOrCreateModuleReads
<1>2. CASE d # NoDecl
  <2>1. /\ r.table = s.table /\ r.ext = s.ext /\ r.crashed = s.crashed
        /\ r.dangling = (s.dangling \/ d # pos) /\ IsReader(r)
    BY <1>2 DEF ReadItem, Reader, IsReader
  <2>2. Alone => d = pos
    BY <1>2, LookupQualifiedOwner DEF Reader, Owners
  <2> HIDE DEF r, d
  <2> QED
    BY <2>1, <2>2 DEF Reader, r
<1>3. CASE d = NoDecl /\ m \in k.ext
  <2>1. /\ r.table = Import(k.table, m, Item, pos) /\ r.ext = k.ext /\ r.crashed = k.crashed
        /\ r.dangling = k.dangling /\ IsReader(r)
    <3>1. r = [k EXCEPT !.table = Import(@, m, Item, pos)]
      BY <1>3 DEF ReadItem
    <3> HIDE DEF k, r
    <3> QED
      BY <1>1, <3>1 DEF Reader, IsReader
  <2> HIDE DEF r, k
  <2>2. Owners \subseteq Nat
    BY DEF Owners
  <2>3. /\ Shape(r.table, Owners) /\ InText(r.table)
        /\ \A x \in Modules : HasModule(r.table, x) <=> HasModule(k.table, x)
    <3> DEFINE t == k.table
               u == Import(t, m, Item, pos)
    <3>1. Shape(t, Owners) /\ InText(t) /\ HasModule(t, m)
      BY <1>1 DEF Reader
    <3> HIDE DEF t
    <3>2. /\ Shape(u, Owners) /\ InText(u)
          /\ \A x \in Modules : HasModule(u, x) <=> HasModule(t, x)
      BY <2>2, <3>1, ImportShape
    <3> HIDE DEF u
    <3>3. r.table = u
      BY <2>1 DEF t, u
    <3> QED
      BY <3>2, <3>3 DEF t
  <2>4. Alone => ~r.dangling /\ Known(r.table, r.ext)
    BY <1>1, <2>1, <2>3 DEF Reader, Known
  <2> QED
    BY <1>1, <2>1, <2>3, <2>4 DEF Reader, r
<1>4. CASE d = NoDecl /\ m \notin k.ext
  <2>1. r = [k EXCEPT !.crashed = TRUE]
    BY <1>4 DEF ReadItem
  <2> HIDE DEF r, k
  <2>2. r.table = k.table /\ r.ext = k.ext /\ r.dangling = k.dangling /\ IsReader(r)
    BY <1>1, <2>1 DEF Reader, IsReader
  <2>3. Reader(r)
    BY <1>1, <2>2 DEF Reader
  <2> QED
    BY <1>1, <1>4, <2>3 DEF r
<1> QED
  BY <1>2, <1>3, <1>4

\* SymbolImporter::read, when the file does not lead back to this module.
LEMMA ReadModuleReads ==
  ASSUME NEW s, Reader(s), NEW m \in Modules, m # System, pos \in Owners, pos \in Nat, Origins
  PROVE  /\ Reader(ReadModule(s, m))
         /\ Alone /\ m # text.module /\ symbols[m].origin # text.module =>
              ReadModule(s, m).crashed = s.crashed
<1> DEFINE k == GetOrCreateModule(s, m)
           file == symbols[m]
           own == IF file.exports THEN ReadItem(k, m) ELSE k
           r == ReadModule(s, m)
<1>1. /\ Reader(k) /\ k.crashed = s.crashed
      /\ Alone /\ m \notin {System, text.module} => m \in k.ext
  BY GetOrCreateModuleReads
<1>2. Reader(own) /\ (Alone /\ m # text.module => own.crashed = s.crashed)
  BY <1>1, ReadItemReads
<1>3. file.origin # NoModule => file.origin \in Modules \ {System}
  BY DEF Origins
<1>4. CASE m \notin k.ext
  <2>1. r = [k EXCEPT !.crashed = TRUE] \/ r = [k EXCEPT !.errors = @ + 1]
    BY <1>4 DEF ReadModule
  <2> HIDE DEF r, k
  <2>2. r.table = k.table /\ r.ext = k.ext /\ r.dangling = k.dangling /\ IsReader(r)
    BY <1>1, <2>1 DEF Reader, IsReader
  <2>3. Reader(r)
    BY <1>1, <2>2 DEF Reader
  <2> QED
    BY <1>1, <1>4, <2>3 DEF r
<1>5. CASE m \in k.ext /\ file.origin # NoModule /\ ~own.crashed
  <2>1. r = ReadItem(own, file.origin)
    BY <1>5 DEF ReadModule
  <2>2. /\ Reader(ReadItem(own, file.origin))
        /\ Alone /\ file.origin # text.module => ReadItem(own, file.origin).crashed = own.crashed
    <3> DEFINE o == file.origin
    <3>1. o \in Modules /\ o # System
      BY <1>3, <1>5
    <3> HIDE DEF own, o
    <3>2. Reader(ReadItem(own, o)) /\ (Alone /\ o # text.module => ReadItem(own, o).crashed = own.crashed)
      BY <1>2, <3>1, ReadItemReads
    <3> QED
      BY <3>2 DEF o
  <2> HIDE DEF r, own
  <2> QED
    BY <1>2, <2>1, <2>2 DEF r
<1>6. CASE m \in k.ext /\ ~(file.origin # NoModule /\ ~own.crashed)
  <2>1. r = own
    BY <1>6 DEF ReadModule
  <2> HIDE DEF r, own
  <2> QED
    BY <1>2, <2>1 DEF r
<1> QED
  BY <1>4, <1>5, <1>6

\* Sema::onImport, but for the alias.
LEMMA ImportModuleReads ==
  ASSUME NEW s, Reader(s), ~s.crashed, NEW m \in Modules, pos \in Owners, pos \in Nat, Origins
  PROVE  /\ Reader(ImportModule(s, m))
         /\ Alone /\ ImportModule(s, m).crashed => symbols[m].origin = text.module
<1> DEFINE r == ImportModule(s, m)
<1>1. CASE m = System
  <2>1. r = [s EXCEPT !.ext = @ \cup {System}]
    BY <1>1 DEF ImportModule
  <2> HIDE DEF r
  <2>2. r.table = s.table /\ r.ext = s.ext \cup {System} /\ r.dangling = s.dangling /\ r.crashed = s.crashed /\ IsReader(r)
    BY <2>1 DEF Reader, IsReader
  <2>3. Reader(r)
    BY <2>2 DEF Reader, Known
  <2> QED
    BY <2>2, <2>3 DEF r
<1>2. CASE m # System /\ (m = text.module \/ ~Exists(symbols[m]))
  <2>1. r = [s EXCEPT !.errors = @ + 1]
    BY <1>2 DEF ImportModule
  <2> HIDE DEF r
  <2>2. r.table = s.table /\ r.ext = s.ext /\ r.dangling = s.dangling /\ r.crashed = s.crashed /\ IsReader(r)
    BY <2>1 DEF Reader, IsReader
  <2>3. Reader(r)
    BY <2>2 DEF Reader
  <2> QED
    BY <2>2, <2>3 DEF r
<1>3. CASE m # System /\ m # text.module /\ Exists(symbols[m])
  <2>1. r = ReadModule(s, m)
    BY <1>3 DEF ImportModule
  <2> QED
    BY <1>3, <2>1, ReadModuleReads
<1> QED
  BY <1>1, <1>2, <1>3

---------------------------------------------------------------------------
(* The inductive invariant.                                                *)

\* A qualifier that a re-exported type was found with is not SYSTEM's.
ReexportFound ==
  step = "body" /\ errors = 0 /\ text.reexport # NoModule =>
    table.aliases[text.reexport] \in Modules \ {System}

\* Before the first input only SYSTEM is known, then the modules of its AST.
AloneSafe ==
  Alone => /\ ~dangling
           /\ step = "file" /\ pos = 1 => \A m \in Modules : HasModule(table, m) => m = System
           /\ step = "imports" => Known(table, ext)
           /\ step = "crashed" => Cyclic # {}

Safe ==
  /\ Shape(table, Owners) /\ (step = "imports" => InText(table))
  /\ done \in Nat /\ Origins /\ ReexportFound /\ AloneSafe

\* What is known of the text that is compiled.
LEMMA TextFacts ==
  ASSUME Inv, Compiling
  PROVE  /\ text.imports \in Seq([module : Modules, alias : Modules \cup {NoModule}])
         /\ text.uses \subseteq Modules /\ text.reexport \in text.uses \cup {NoModule}
         /\ text.module \in Modules /\ pos \in Nat /\ pos \in Owners
<1>1. pos \in DOMAIN Inputs /\ Inputs[pos] \in Files /\ text.module \in Modules /\ Counters
  BY InputFacts DEF Inv
<1>2. text \in Texts[Inputs[pos]] /\ pos \in Nat \ {0} /\ pos <= Len(Inputs)
  BY <1>1 DEF Counters
<1>3. Alone => pos = 1
  BY <1>2 DEF Alone
<1> QED
  BY <1>1, <1>2, <1>3, TextsAssumption DEF Owners

\* A step that reads nothing and leaves the tables and symbol files alone.
LEMMA NothingRead ==
  ASSUME Safe, UNCHANGED <<command, text, done, table, ext, dangling, symbols>>,
         step' \notin {"imports", "body", "crashed"}, step' = "file" => pos' # 1
  PROVE  Safe'
<1>1. Alone' = Alone /\ Owners' = Owners
  BY DEF Alone, Owners, Inputs
<1> QED
  BY <1>1 DEF Safe, Shape, Origins, ReexportFound, AloneSafe

\* OberonSystem: a new table holds nothing but the empty namespace SYSTEM.
LEMMA InitialShape ==
  /\ \A D : Shape(InitialTable, D)
  /\ \A m \in Modules : HasModule(InitialTable, m) => m = System
<1> DEFINE t == AddModule(EmptyTable, System, TRUE)
           e == EmptyScope
           chain == Append(SubSeq(<<e>>, 1, 1), e)
           T == AnyScope
<1>1. /\ t.scopes = [m \in Modules |-> IF m = System THEN <<e>> ELSE <<>>]
      /\ t.aliases = [m \in Modules |-> IF m = System THEN System ELSE NoModule]
      /\ t.module = System /\ t.level = 0
  BY DEF AddModule, EmptyTable
<1> HIDE DEF t
<1>2. t.scopes[System] = <<e>> /\ System \in Modules
  BY <1>1, ModulesAssumption
<1>3. /\ InitialTable.scopes = [t.scopes EXCEPT ![System] = chain]
      /\ InitialTable.aliases = t.aliases
  <2>1. Current(t) = <<e>> /\ t.level + 1 = 1
    BY <1>1, <1>2 DEF Current
  <2> QED
    BY <1>1, <2>1 DEF InitialTable, CloseScope, OpenScope, MoveTo, WithChain, t
<1>4. e \in T
  BY EmptyScopeOf DEF ScopeOf
<1> HIDE DEF e, T
<1>5. chain \in Seq(T) /\ chain # <<>> /\ chain[1] = e
  BY <1>4
<1> HIDE DEF chain
<1>6. /\ InitialTable.scopes = [m \in Modules |-> IF m = System THEN chain ELSE <<>>]
      /\ InitialTable.aliases \in [Modules -> Modules \cup {NoModule}]
  <2>1. InitialTable.scopes = [m \in Modules |-> IF m = System THEN chain ELSE <<>>]
    <3> DEFINE one == <<e>>
               none == <<>>
    <3>1. t.scopes = [m \in Modules |-> IF m = System THEN one ELSE none]
      BY <1>1
    <3> HIDE DEF one, none
    <3>2. InitialTable.scopes = [m \in Modules |-> IF m = System THEN chain ELSE none]
      BY <1>2, <1>3, <3>1
    <3> QED
      BY <3>2 DEF none
  <2>2. InitialTable.aliases \in [Modules -> Modules \cup {NoModule}]
    <3>1. InitialTable.aliases = [m \in Modules |-> IF m = System THEN System ELSE NoModule]
      BY <1>1, <1>3
    <3> QED
      BY <1>2, <3>1
  <2> QED
    BY <2>1, <2>2
<1>7. \A m \in Modules : HasModule(InitialTable, m) <=> m = System
  BY <1>5, <1>6 DEF HasModule
<1>8. InitialTable.scopes[System] = chain /\ \A D : ScopeOf(chain[1], D)
  BY <1>2, <1>5, <1>6, EmptyScopeOf DEF e
<1>9. \A m \in Modules : InitialTable.scopes[m] \in Seq(AnyScope)
  <2>1. <<>> \in Seq(T)
    OBVIOUS
  <2>2. \A m \in Modules : InitialTable.scopes[m] \in Seq(T)
    BY <1>5, <1>6, <2>1
  <2> QED
    BY <2>2 DEF T
<1>10. InitialTable.scopes = [m \in Modules |-> InitialTable.scopes[m]]
  BY <1>6
<1> HIDE DEF t
<1> QED
  BY <1>2, <1>6, <1>7, <1>8, <1>9, <1>10 DEF Shape

\* Before the first invocation.
LEMMA InitSafe == Init => Safe
<1> SUFFICES ASSUME Init PROVE Safe
  OBVIOUS
<1>1. Shape(table, Owners)
  BY InitialShape DEF Init
<1>2. Origins
  BY DEF Init, Origins, NoSymbols
<1> QED
  BY <1>1, <1>2 DEF Init, Safe, ReexportFound, AloneSafe

\* main: a new process has a new table.
LEMMA StartKeepsSafe == ASSUME Safe, NEW c \in Commands, Start(c) PROVE Safe'
<1>1. table' = InitialTable /\ done' = 0 /\ ~dangling' /\ step' \in {"file", "exited"} /\ symbols' = symbols
  BY DEF Start, Exit, disk
<1>2. Shape(table', Owners') /\ \A m \in Modules : HasModule(table', m) => m = System
  BY <1>1, InitialShape
<1>3. Origins'
  BY <1>1 DEF Safe, Origins
<1>4. AloneSafe'
  BY <1>1, <1>2 DEF AloneSafe
<1> QED
  BY <1>1, <1>2, <1>3, <1>4 DEF Safe, ReexportFound

\* Sema::onTranslationUnitStart and onModuleStart: the module is the first one
\* besides SYSTEM when the input is.
LEMMA OpenFileKeepsSafe == ASSUME Inv, Safe, NEW t, OpenFile(t) PROVE Safe'
<1>1. /\ step = "file" /\ pos <= Len(Inputs) /\ t \in Texts[Inputs[pos]] /\ text' = t /\ done' = 0
      /\ ext' = {} /\ UNCHANGED <<command, pos, dangling, symbols>>
  BY DEF OpenFile, disk
<1>2. Alone' = Alone /\ Owners' = Owners
  BY <1>1 DEF Alone, Owners, Inputs
<1>3. Origins'
  BY <1>1 DEF Safe, Origins
<1>4. CASE HasModule(table, t.module)
  <2>1. step' = "exited" /\ table' = table
    BY <1>4 DEF OpenFile, Exit
  <2>2. Shape(table', Owners')
    BY <1>2, <2>1 DEF Safe
  <2> QED
    BY <1>1, <1>2, <1>3, <2>1, <2>2 DEF Safe, ReexportFound, AloneSafe
<1>5. CASE ~HasModule(table, t.module)
  <2> DEFINE u == AddModule(table, t.module, TRUE)
             m == t.module
             e == EmptyScope
             chain == Append(SubSeq(<<e>>, 1, 1), e)
             T == AnyScope
  <2>1. step' = "imports" /\ table' = OpenScope(u)
    BY <1>5 DEF OpenFile
  <2>2. m \in Modules /\ m # System
    <3>1. command \in Commands /\ pos \in Nat \ {0}
      BY <1>1 DEF Inv, Counters
    <3>2. Inputs \in Seq(Files)
      BY <3>1, CommandsAssumption DEF Inputs
    <3>3. Inputs[pos] \in Files
      BY <1>1, <3>1, <3>2
    <3>4. m \in Modules
      BY <1>1, <3>3, CommandsAssumption
    <3> QED
      BY <1>5, <3>4 DEF Safe, Shape
  <2>3. /\ u.scopes = [table.scopes EXCEPT ![m] = <<e>>] /\ u.aliases = [table.aliases EXCEPT ![m] = m]
        /\ u.module = m /\ u.level = 0
    BY DEF AddModule
  <2> HIDE DEF u
  <2>4. u.scopes[m] = <<e>>
    BY <2>2, <2>3 DEF Safe, Shape
  <2>5. /\ table'.scopes = [u.scopes EXCEPT ![m] = chain] /\ table'.aliases = u.aliases
        /\ table'.module = m /\ table'.level = 1
    <3>1. Current(u) = <<e>> /\ u.level + 1 = 1
      BY <2>3, <2>4 DEF Current
    <3> QED
      BY <2>1, <2>3, <3>1 DEF OpenScope, MoveTo, WithChain
  <2>6. e \in T
    BY EmptyScopeOf DEF ScopeOf
  <2> HIDE DEF e, T, m
  <2>7. chain \in Seq(T) /\ chain # <<>> /\ chain[1] = e /\ Len(chain) = 2
    BY <2>6
  <2> HIDE DEF chain
  <2>8. /\ table'.scopes = [x \in Modules |-> table'.scopes[x]] /\ table'.scopes[m] = chain
        /\ \A x \in Modules : x # m => table'.scopes[x] = table.scopes[x]
        /\ table'.aliases \in [Modules -> Modules \cup {NoModule}]
    <3>1. /\ table.scopes = [x \in Modules |-> table.scopes[x]]
          /\ table.aliases \in [Modules -> Modules \cup {NoModule}]
      BY DEF Safe, Shape
    <3>2. /\ table'.scopes = [x \in Modules |-> table'.scopes[x]] /\ table'.scopes[m] = chain
          /\ \A x \in Modules : x # m => table'.scopes[x] = table.scopes[x]
      BY <2>2, <2>3, <2>5, <3>1
    <3>3. table'.aliases \in [Modules -> Modules \cup {NoModule}]
      BY <2>2, <2>3, <2>5, <3>1
    <3> QED
      BY <3>2, <3>3
  <2>9. \A x \in Modules : HasModule(table', x) <=> HasModule(table, x) \/ x = m
    BY <2>2, <2>7, <2>8 DEF HasModule
  <2>10. Shape(table', Owners')
    <3>1. \A x \in Modules : table'.scopes[x] \in Seq(AnyScope)
      BY <2>7, <2>8 DEF Safe, Shape, T
    <3>2. ASSUME NEW x \in Modules, HasModule(table', x)
          PROVE  ScopeOf(table'.scopes[x][1], Owners)
      <4>1. CASE x = m
        BY <2>7, <2>8, <4>1, EmptyScopeOf DEF e
      <4>2. CASE x # m
        BY <2>8, <2>9, <3>2, <4>2 DEF Safe, Shape
      <4> QED
        BY <4>1, <4>2
    <3>3. HasModule(table', System) /\ ScopeOf(table'.scopes[System][1], {})
      BY <2>2, <2>8, <2>9, ModulesAssumption DEF Safe, Shape
    <3> QED
      BY <1>2, <2>8, <3>1, <3>2, <3>3 DEF Shape
  <2>11. InText(table)'
    BY <1>1, <2>2, <2>5, <2>7, <2>8 DEF InText, m
  <2>12. Alone => Known(table, ext)' /\ ~dangling'
    <3> SUFFICES ASSUME Alone PROVE Known(table, ext)' /\ ~dangling'
      OBVIOUS
    <3>1. pos = 1
      BY <1>1 DEF Alone, Inv, Counters
    <3>2. ~dangling /\ \A x \in Modules : HasModule(table, x) => x = System
      BY <1>1, <3>1 DEF Safe, AloneSafe
    <3> QED
      BY <1>1, <2>9, <3>2 DEF Known, m
  <2> QED
    BY <1>1, <1>2, <1>3, <2>1, <2>10, <2>11, <2>12 DEF Safe, ReexportFound, AloneSafe
<1> QED
  BY <1>4, <1>5

\* Sema::onImport: an import that ends the process leads back to the module.
LEMMA OnImportKeepsSafe == ASSUME Inv, Safe, OnImport PROVE Safe'
<1> DEFINE i == text.imports[done + 1]
           again == \E k \in 1..done : text.imports[k].module = i.module
           r == [table |-> table, ext |-> ext, dangling |-> dangling, crashed |-> FALSE,
                 errors |-> IF again THEN errors + 1 ELSE errors]
           s == ImportModule(r, i.module)
<1>1. /\ step = "imports" /\ done < Len(text.imports) /\ done' = done + 1
      /\ table' = (IF i.alias = NoModule THEN s.table ELSE AddAlias(s.table, i.alias, i.module))
      /\ ext' = s.ext /\ dangling' = s.dangling
      /\ step' \in (IF s.crashed THEN {"crashed"} ELSE IF s.dangling THEN {"crashed", step} ELSE {step})
      /\ UNCHANGED <<command, text, symbols, pos>>
  BY DEF OnImport, process, disk
<1>2. /\ text.imports \in Seq([module : Modules, alias : Modules \cup {NoModule}])
      /\ pos \in Nat /\ pos \in Owners
  BY <1>1, TextFacts DEF Compiling
<1>3. done \in Nat /\ done + 1 \in 1..Len(text.imports)
  BY <1>1, <1>2 DEF Safe
<1>4. i.module \in Modules /\ i.alias \in Modules \cup {NoModule}
  <2> DEFINE T == [module : Modules, alias : Modules \cup {NoModule}]
  <2>1. text.imports \in Seq(T)
    BY <1>2
  <2> HIDE DEF T
  <2>2. i \in T
    BY <1>3, <2>1
  <2> HIDE DEF i
  <2> QED
    BY <2>2 DEF T
<1>5. Reader(r) /\ ~r.crashed
  <2>1. IsReader(r) /\ r.table = table /\ r.ext = ext /\ r.dangling = dangling /\ ~r.crashed
    BY DEF IsReader
  <2> HIDE DEF r
  <2>2. Reader(r)
    BY <1>1, <2>1 DEF Reader, Safe, AloneSafe
  <2> QED
    BY <2>1, <2>2
<1>6. Origins
  BY DEF Safe
<1> HIDE DEF r, i
<1>7. Reader(s) /\ (Alone /\ s.crashed => symbols[i.module].origin = text.module)
  BY <1>2, <1>4, <1>5, <1>6, ImportModuleReads
<1> HIDE DEF s
<1>8. Alone' = Alone /\ Owners' = Owners
  BY <1>1 DEF Alone, Owners, Inputs
<1>9. /\ Shape(table', Owners) /\ InText(table)'
      /\ \A x \in Modules : HasModule(table', x) <=> HasModule(s.table, x)
  <2> DEFINE t == s.table
  <2>1. Shape(t, Owners) /\ InText(t)
    BY <1>7 DEF Reader
  <2>2. table' = t \/ (i.alias \in Modules /\ table' = AddAlias(t, i.alias, i.module))
    BY <1>1, <1>4
  <2> HIDE DEF t
  <2>3. i.alias \in Modules => /\ Shape(AddAlias(t, i.alias, i.module), Owners) /\ InText(AddAlias(t, i.alias, i.module))
                               /\ \A x \in Modules : HasModule(AddAlias(t, i.alias, i.module), x) <=> HasModule(t, x)
    BY <1>4, <2>1, AddAliasShape
  <2>4. /\ Shape(table', Owners)
        /\ \A x \in Modules : HasModule(table', x) <=> HasModule(t, x)
    BY <2>1, <2>2, <2>3
  <2>5. InText(table)'
    BY <1>1, <2>1, <2>2, <2>3 DEF InText
  <2> QED
    BY <2>4, <2>5 DEF t
<1>10. AloneSafe'
  <2> SUFFICES ASSUME Alone
               PROVE  ~dangling' /\ step' # "file" /\ Known(table, ext)' /\ (step' = "crashed" => Cyclic' # {})
    BY <1>8 DEF AloneSafe
  <2>1. ~s.dangling /\ Known(s.table, s.ext)
    BY <1>7 DEF Reader
  <2>2. Known(table, ext)'
    BY <1>1, <1>9, <2>1 DEF Known
  <2>3. ASSUME s.crashed PROVE Cyclic' # {}
    <3>1. i.module \in Cyclic'
      BY <1>1, <1>3, <1>7, <2>3 DEF Cyclic, i
    <3> QED
      BY <3>1
  <2> QED
    BY <1>1, <2>1, <2>2, <2>3
<1>11. Origins' /\ ReexportFound' /\ done' \in Nat
  BY <1>1, <1>3 DEF Safe, Origins, ReexportFound
<1> QED
  BY <1>8, <1>9, <1>10, <1>11 DEF Safe

\* The rest of the module: what a qualifier finds is of this input, and the
\* qualifier of a re-exported type that is found does not stand for SYSTEM.
LEMMA BodyKeepsSafe == ASSUME Inv, Safe, Body PROVE Safe'
<1> DEFINE m == text.module
           t == IF text.exports THEN Insert(table, Item, pos) ELSE table
           freed == \E q \in text.uses :
                      LookupQualified(table, q, Item) # NoDecl /\ LookupQualified(table, q, Item) # pos
           bad == text.broken \/ \E q \in text.uses : LookupQualified(table, q, Item) = NoDecl
<1>1. /\ step = "imports" /\ dangling' = (dangling \/ freed) /\ table' = CloseScope(t)
      /\ errors' \in (IF bad THEN {errors + 1} ELSE IF freed THEN {errors, errors + 1} ELSE {errors})
      /\ step' \in (IF freed THEN {"crashed", "body"} ELSE {"body"})
      /\ UNCHANGED <<command, text, done, ext, symbols, pos>>
  BY DEF Body, process, disk
<1>2. /\ text.uses \subseteq Modules /\ text.reexport \in text.uses \cup {NoModule}
      /\ pos \in Nat /\ pos \in Owners /\ errors \in Nat
  BY <1>1, TextFacts DEF Compiling, Inv, Counters
<1>3. Shape(table, Owners) /\ InText(table)
  BY <1>1 DEF Safe
<1>4. Alone' = Alone /\ Owners' = Owners
  BY <1>1 DEF Alone, Owners, Inputs
<1>5. Alone => ~freed
  <2> SUFFICES ASSUME Alone, NEW q \in text.uses, LookupQualified(table, q, Item) # NoDecl
               PROVE  LookupQualified(table, q, Item) = pos
    OBVIOUS
  <2>1. LookupQualified(table, q, Item) \in Owners
    BY <1>2, <1>3, LookupQualifiedOwner
  <2> QED
    BY <1>2, <2>1 DEF Owners
<1>6. Shape(table', Owners) /\ table'.aliases = table.aliases
  <2> DEFINE chain == table.scopes[m]
             s == ScopeInsert(chain[2], Item, pos)
             new == [chain EXCEPT ![2] = s]
             T == AnyScope
  <2>1. /\ table'.aliases = table.aliases
        /\ table'.scopes = table.scopes \/ table'.scopes = [table.scopes EXCEPT ![m] = new]
    <3>1. table.module = m /\ table.level + 1 = 2
      BY <1>3 DEF InText
    <3> QED
      BY <1>1, <3>1 DEF CloseScope, MoveTo, Insert, WithChain, Current
  <2>2. m \in Modules /\ m # System /\ chain \in Seq(T) /\ Len(chain) >= 2
    BY <1>3 DEF InText, Shape
  <2>3. chain[2] \in T
    <3> HIDE DEF T, chain
    <3> QED
      BY <2>2
  <2>4. s \in T
    <3> DEFINE x == chain[2]
    <3>1. x.symbols \in Seq(Nat) /\ x.indices \in [Names -> Nat] /\ Item \in Names
      BY <2>3, TextsAssumption DEF AnyScope
    <3> HIDE DEF x
    <3>2. Append(x.symbols, pos) \in Seq(Nat) /\ Len(x.symbols) + 1 \in Nat
      BY <1>2, <3>1
    <3>3. ScopeInsert(x, Item, pos) \in AnyScope
      BY <3>1, <3>2 DEF ScopeInsert, AnyScope
    <3> QED
      BY <3>3 DEF x
  <2> HIDE DEF s, T, chain
  <2>5. new \in Seq(T) /\ new[1] = chain[1] /\ new # <<>> /\ chain # <<>>
    <3>1. new \in Seq(T) /\ Len(new) = Len(chain) /\ 1 \in DOMAIN chain
      BY <2>2, <2>4
    <3> QED
      BY <2>2, <3>1
  <2> HIDE DEF new
  <2>6. CASE table'.scopes = table.scopes
    BY <1>3, <2>1, <2>6 DEF Shape, HasModule
  <2>7. CASE table'.scopes = [table.scopes EXCEPT ![m] = new]
    <3>1. /\ table'.scopes = [x \in Modules |-> table'.scopes[x]] /\ table'.scopes[m] = new
          /\ \A x \in Modules : x # m => table'.scopes[x] = table.scopes[x]
      <4>1. table.scopes = [x \in Modules |-> table.scopes[x]]
        BY <1>3 DEF Shape
      <4> QED
        BY <2>2, <2>7, <4>1
    <3>2. \A x \in Modules : HasModule(table', x) <=> HasModule(table, x)
      BY <2>5, <3>1 DEF HasModule, chain
    <3>3. \A x \in Modules : table'.scopes[x] \in Seq(AnyScope)
      BY <1>3, <2>5, <3>1 DEF Shape, T
    <3>4. \A x \in Modules : table'.scopes[x][1] = table.scopes[x][1]
      BY <2>5, <3>1 DEF chain
    <3> QED
      BY <1>3, <2>1, <3>1, <3>2, <3>3, <3>4, ModulesAssumption DEF Shape
  <2> QED
    BY <2>1, <2>6, <2>7
<1>7. ReexportFound'
  <2> SUFFICES ASSUME errors' = 0, text.reexport # NoModule
               PROVE  table.aliases[text.reexport] \in Modules \ {System}
    BY <1>1, <1>6 DEF ReexportFound
  <2>1. ~bad
    BY <1>1, <1>2
  <2>2. text.reexport \in text.uses /\ text.reexport \in Modules
    BY <1>2
  <2>3. LookupQualified(table, text.reexport, Item) # NoDecl
    BY <2>1, <2>2
  <2> QED
    BY <1>3, <2>2, <2>3, LookupQualifiedOwner
<1>8. AloneSafe'
  BY <1>1, <1>4, <1>5 DEF Safe, AloneSafe
<1>9. Origins' /\ done' \in Nat /\ step' # "imports"
  BY <1>1 DEF Safe, Origins
<1> QED
  BY <1>4, <1>6, <1>7, <1>8, <1>9 DEF Safe

\* onTranslationUnitEnd writes where the re-exported type was found.
LEMMA TranslationUnitEndKeepsSafe == ASSUME Inv, Safe, OnTranslationUnitEnd PROVE Safe'
<1> DEFINE origin == IF text.reexport = NoModule THEN NoModule ELSE table.aliases[text.reexport]
           file == [run |-> run, exports |-> text.exports, origin |-> origin]
<1>1. /\ step = "body" /\ step' = "check" /\ UNCHANGED <<command, pos, text, done, table, ext, dangling, errors>>
      /\ symbols' = symbols \/ (errors = 0 /\ symbols' = [symbols EXCEPT ![text.module] = file])
  BY DEF OnTranslationUnitEnd, process, parsing
<1>2. errors = 0 => file.origin \in (Modules \ {System}) \cup {NoModule}
  BY <1>1 DEF Safe, ReexportFound
<1>3. text.module \in Modules /\ symbols = [m \in Modules |-> symbols[m]]
  BY <1>1, TextFacts DEF Compiling, Inv, Disk
<1> HIDE DEF file
<1>4. Origins'
  BY <1>1, <1>2, <1>3 DEF Safe, Origins
<1>5. Alone' = Alone /\ Owners' = Owners
  BY <1>1 DEF Alone, Owners, Inputs
<1> QED
  BY <1>1, <1>4, <1>5 DEF Safe, Shape, ReexportFound, AloneSafe

\* After the module was read the process looks at counters and files only.
LEMMA RestKeepsSafe ==
  ASSUME Inv, Safe, FileMissing \/ Transform \/ Generate \/ Jit \/ Finish
  PROVE  Safe'
<1>1. pos \in Nat \ {0}
  BY DEF Inv, Counters
<1>2. CASE FileMissing
  BY <1>2, NothingRead DEF FileMissing, Exit, parsing, disk
<1>3. CASE Transform
  <2>1. /\ UNCHANGED <<command, text, done, table, ext, dangling, symbols>>
        /\ step' \in {"exited", "file", "generate"} /\ (step' = "file" => pos' = pos + 1)
    BY <1>3 DEF Transform, Exit, parsing, disk
  <2> QED
    BY <1>1, <2>1, NothingRead
<1>4. CASE Generate
  <2>1. /\ UNCHANGED <<command, text, done, table, ext, dangling, symbols>> /\ step' = "file" /\ pos' = pos + 1
    BY <1>4 DEF Generate, parsing
  <2> QED
    BY <1>1, <2>1, NothingRead
<1>5. CASE Jit
  BY <1>5, NothingRead DEF Jit, Exit, parsing, disk
<1>6. CASE Finish
  BY <1>6, NothingRead DEF Finish, Exit, parsing, disk
<1> QED
  BY <1>2, <1>3, <1>4, <1>5, <1>6

\* Every step of the process keeps the invariant.
LEMMA NextKeepsSafe == Inv /\ Safe /\ [Next]_vars => Safe'
<1> SUFFICES ASSUME Inv, Safe, [Next]_vars PROVE Safe'
  OBVIOUS
<1>1. CASE UNCHANGED vars
  <2>1. UNCHANGED <<command, text, done, table, ext, dangling, symbols, step, pos, errors>>
    BY <1>1 DEF vars, process, parsing, disk
  <2>2. Alone' = Alone /\ Owners' = Owners
    BY <2>1 DEF Alone, Owners, Inputs
  <2>3. Cyclic' = Cyclic
    BY <2>1 DEF Cyclic
  <2> QED
    BY <2>1, <2>2, <2>3 DEF Safe, Shape, InText, Origins, ReexportFound, AloneSafe, Known
<1>2. ASSUME NEW c \in Commands, Start(c) PROVE Safe'
  BY <1>2, StartKeepsSafe
<1>3. ASSUME NEW t, OpenFile(t) PROVE Safe'
  BY <1>3, OpenFileKeepsSafe
<1> QED
  BY <1>1, <1>2, <1>3, OnImportKeepsSafe, BodyKeepsSafe, TranslationUnitEndKeepsSafe, RestKeepsSafe DEF Next

---------------------------------------------------------------------------
\* SYSTEM stays empty, files never re-export from it, and the tables of a
\* process with one input hold the modules and declarations of its AST only.
THEOREM Reading == Spec => []Safe
<1>1. Init => Inv /\ Safe
  BY InitInv, InitSafe
<1>2. Inv /\ Safe /\ [Next]_vars => (Inv /\ Safe)'
  BY NextInv, NextKeepsSafe
<1> QED
  BY <1>1, <1>2, PTL DEF Spec

\* A process with one input (main, Compiler::run) neither dereferences a null
\* module nor reads a declaration of a destroyed AST, unless a symbol file
\* that it imports re-exports a type of the module it compiles.
THEOREM SingleInputIsSafe == Spec => []SafeAlone
<1>1. Safe => SafeAlone
  BY DEF Safe, AloneSafe, SafeAlone, Alone
<1> QED
  BY <1>1, Reading, PTL
=============================================================================
