---------------------------- MODULE Declarations ----------------------------
(***************************************************************************)
(* The declarations of one module: the declaration part of the parser      *)
(* (lib/parser/Parser.cpp) with the semantic actions it calls              *)
(* (lib/sema/Sema.cpp) on the symbol table.                                *)
(*                                                                         *)
(* The source text is the nondeterminism: every action reads the next      *)
(* declaration.  A declaration node is its position in `decls`, a type     *)
(* node its position in `types`; both only grow, as the AST does.  The     *)
(* parser's recursion is the stack `blocks`, one frame for the module and  *)
(* one for every procedure being parsed.                                   *)
(***************************************************************************)
EXTENDS SymbolTable, Integers, SequencesExt

CONSTANTS
  Self,        \* the module being compiled
  Predefined,  \* a predefined type identifier, for instance INTEGER
  MaxDecls,    \* bound: declarations in the module
  MaxNesting   \* bound: procedures nested in each other

ASSUME SelfAssumption == Self \in Modules \ {System} /\ Predefined \in Names

VARIABLES
  table,     \* symbols_
  decls,     \* the declaration nodes: kind, name, type, scope_, exported, home
  types,     \* the type nodes: kind, base type (of a pointer), declaration
  forwards,  \* forwards_: the pointer types whose base is still a name
  blocks,    \* the blocks being parsed: the procedure (0: the module), phase
  errors,    \* logger_.getErrorCount() > 0
  used,      \* the declaration that the last reference was resolved to
  written,   \* the symbol file was written
  symfile    \* the declarations in it

vars == <<table, decls, types, forwards, blocks, errors, used, written, symfile>>

(* The phases of declarations(): they come in this order, each may be empty. *)
Formals == 0
Consts == 1
Types == 2
Vars == 3
Procs == 4
Body == 5

(* Type nodes 1 and 2 exist from the start: NOTYPE, the failure state of the *)
(* type inference, and the type of declaration 1, the predefined identifier. *)
NoTy == 1
BasicTy == 2
PredefinedDecl == 1

Top == Last(blocks)
Phase == Top.phase
Home == Top.proc

\* The parser is in a part of the current block no later than `phase`, and
\* moves on to it.
InPhase(phase) == blocks # <<>> /\ Phase > Formals /\ Phase <= phase
Advance(phase) == blocks' = [blocks EXCEPT ![Len(blocks)].phase = phase]

HasRoom == Len(decls) < MaxDecls

---------------------------------------------------------------------------
(* Sema: what every declaration goes through.                              *)

\* The checks of Sema::assertUnique; the declaration is inserted in any case.
AssertUnique(t, n) == ~IsDuplicate(t, n) /\ ~IsGlobal(t, n)

\* Mutant: the level of an exported declaration is not checked.
CheckExportAnywhere(exported, scope, public) == exported \/ ~public

\* Sema::checkExport: only declarations of the module scope (level 1) are
\* exported, and the fields of a record only if the record is.
CheckExport(exported, scope, public) == IF exported THEN scope = 1 ELSE ~public

\* Sema::onTypeReference: the type a name stands for, NOTYPE on an error.
TypeReference(t, n) ==
  LET d == Lookup(t, n)
  IN  IF d # NoDecl /\ decls[d].kind = "type" THEN decls[d].type ELSE NoTy

\* The TypeDeclarationNode names a type that has no name yet.
NameType(ts, type, d) ==
  IF ts[type].decl = 0 /\ type # NoTy THEN [ts EXCEPT ![type].decl = d] ELSE ts

\* A declaration of kind `kind` is appended, inserted in the current scope
\* (assertUnique) and checked for export.  `ok`: its own part had no error.
Declare(kind, n, type, exported, newTypes, ok) ==
  LET d == Len(decls) + 1
  IN  /\ HasRoom
      /\ decls' = Append(decls, [kind |-> kind, name |-> n, type |-> type,
                                 scope |-> table.level, exported |-> exported, home |-> Home])
      /\ types' = IF kind = "type" THEN NameType(newTypes, type, d) ELSE newTypes
      /\ table' = Insert(table, n, d)
      /\ errors' = (errors \/ ~ok \/ ~AssertUnique(table, n)
                           \/ ~CheckExport(exported, table.level,
                                           kind = "type" /\ newTypes[type].public))
      /\ UNCHANGED <<written, symfile>>

NewType(kind, base, public) ==
  Append(types, [kind |-> kind, base |-> base, public |-> public, decl |-> 0])

---------------------------------------------------------------------------
(* The declarations of a block, in the order of Parser::declarations.      *)

\* Parser::const_declarations, Sema::onConstant; the expression is a literal
\* of the predefined type.
ConstDeclaration(n, exported) ==
  /\ InPhase(Consts)
  /\ Advance(Consts)
  /\ Declare("const", n, BasicTy, exported, types, TRUE)
  /\ used' = NoDecl
  /\ UNCHANGED forwards

\* type_declarations: n = RECORD ... END, with or without an exported field.
RecordDeclaration(n, exported, public) ==
  /\ InPhase(Types)
  /\ Advance(Types)
  /\ Declare("type", n, Len(types) + 1, exported, NewType("record", 0, public), TRUE)
  /\ used' = NoDecl
  /\ UNCHANGED forwards

\* type_declarations: n = ref.  The name is looked up before n is declared.
AliasDeclaration(n, exported, ref) ==
  LET type == TypeReference(table, ref)
  IN  /\ InPhase(Types)
      /\ Advance(Types)
      /\ Declare("type", n, type, exported, types, type # NoTy)
      /\ used' = Lookup(table, ref)
      /\ UNCHANGED forwards

\* type_declarations: n = POINTER TO ref.  The pointer is declared before its
\* base is parsed, and any name is treated as a forward reference.
PointerDeclaration(n, exported, ref) ==
  /\ InPhase(Types)
  /\ Advance(Types)
  /\ Declare("type", n, Len(types) + 1, exported, NewType("pointer", NoTy, FALSE), TRUE)
  /\ forwards' = Append(forwards, [ref |-> ref, pointer |-> Len(types) + 1])
  /\ used' = NoDecl

\* type_declarations: n = POINTER TO RECORD END, no name is involved.
PointerToRecordDeclaration(n, exported) ==
  /\ InPhase(Types)
  /\ Advance(Types)
  /\ Declare("type", n, Len(types) + 1, exported,
             Append(NewType("pointer", Len(types) + 2, FALSE),
                    [kind |-> "record", base |-> 0, public |-> FALSE, decl |-> 0]), TRUE)
  /\ used' = NoDecl
  /\ UNCHANGED forwards

\* Mutant: onBlockEnd is forgotten.
ParameterScopeLeftOpen(t, p, d) == Insert(t, p, d)

\* The parameter of a procedure type: onParameter, then onBlockEnd.
ParameterScope(t, p, d) == CloseScope(Insert(t, p, d))

\* type_declarations: n = PROCEDURE (p: ref).  The parameter is declared in a
\* scope that is closed again before n is declared; the type stands for both
\* declarations.
ProcedureTypeDeclaration(n, exported, p, ref) ==
  LET d == Len(decls) + 1
      inner == OpenScope(table)
      type == TypeReference(inner, ref)
      outer == ParameterScope(inner, p, d)
  IN  /\ InPhase(Types)
      /\ Advance(Types)
      /\ Len(decls) + 1 < MaxDecls
      /\ decls' = decls \o << [kind |-> "param", name |-> p, type |-> type,
                               scope |-> inner.level, exported |-> FALSE, home |-> -d],
                              [kind |-> "type", name |-> n, type |-> Len(types) + 1,
                               scope |-> outer.level, exported |-> exported, home |-> Home] >>
      /\ types' = Append(types, [kind |-> "procedure", base |-> 0, public |-> FALSE, decl |-> d + 1])
      /\ table' = Insert(outer, n, d + 1)
      /\ errors' = (errors \/ type = NoTy \/ ~AssertUnique(inner, p)
                           \/ ~AssertUnique(outer, n)
                           \/ ~CheckExport(exported, outer.level, FALSE))
      /\ used' = Lookup(inner, ref)
      /\ UNCHANGED <<forwards, written, symfile>>

\* var_declarations, Sema::onVariable
VarDeclaration(n, exported, ref) ==
  LET type == TypeReference(table, ref)
  IN  /\ InPhase(Vars)
      /\ Advance(Vars)
      /\ Declare("var", n, type, exported, types, type # NoTy)
      /\ used' = Lookup(table, ref)
      /\ UNCHANGED forwards

\* var_declarations: n: POINTER TO ref, an anonymous pointer type.
PointerVarDeclaration(n, exported, ref) ==
  /\ InPhase(Vars)
  /\ Advance(Vars)
  /\ Declare("var", n, Len(types) + 1, exported, NewType("pointer", NoTy, FALSE), TRUE)
  /\ forwards' = Append(forwards, [ref |-> ref, pointer |-> Len(types) + 1])
  /\ used' = NoDecl

---------------------------------------------------------------------------
(* Procedures and their bodies.                                            *)

\* Parser::procedure_declaration: PROCEDURE ["C"] n (p: ref); EXTERNAL ["f"].
\* The parameter is declared in a scope that is closed again before n is
\* declared, and without the name of the external symbol n is not declared at
\* all.  `good`: no token is missing, the convention is known and external
\* procedures are enabled.  Only the module itself may have one, not exported.
ExternalProcedure(n, exported, p, ref, named, good) ==
  LET d == Len(decls) + 1
      inner == OpenScope(table)
      type == TypeReference(inner, ref)
      outer == ParameterScope(inner, p, d)
      parameter == [kind |-> "param", name |-> p, type |-> type,
                    scope |-> inner.level, exported |-> FALSE, home |-> -d]
      external == [kind |-> "external", name |-> n, type |-> NoTy,
                   scope |-> outer.level, exported |-> exported, home |-> Home]
  IN  /\ InPhase(Procs)
      /\ Advance(Procs)
      /\ Len(decls) + 1 < MaxDecls
      /\ decls' = decls \o (IF named THEN <<parameter, external>> ELSE <<parameter>>)
      /\ table' = IF named THEN Insert(outer, n, d + 1) ELSE outer
      /\ errors' = (errors \/ ~good \/ ~named \/ exported \/ outer.level # 1
                           \/ type = NoTy \/ ~AssertUnique(inner, p) \/ ~AssertUnique(outer, n))
      /\ used' = Lookup(inner, ref)
      /\ UNCHANGED <<types, forwards, written, symfile>>

\* The same without formal parameters: an empty scope comes and goes.
ExternalCommand(n, exported, named, good) ==
  LET d == Len(decls) + 1
      outer == CloseScope(OpenScope(table))
      external == [kind |-> "external", name |-> n, type |-> NoTy,
                   scope |-> outer.level, exported |-> exported, home |-> Home]
  IN  /\ InPhase(Procs)
      /\ Advance(Procs)
      /\ HasRoom
      /\ decls' = IF named THEN Append(decls, external) ELSE decls
      /\ table' = IF named THEN Insert(outer, n, d) ELSE outer
      /\ errors' = (errors \/ ~good \/ ~named \/ exported \/ outer.level # 1
                           \/ ~AssertUnique(outer, n))
      /\ used' = NoDecl
      /\ UNCHANGED <<types, forwards, written, symfile>>

\* The two early returns of Parser::procedure_declaration: no convention, or
\* no bracket behind it.  No scope was opened yet.
ExternalHeaderMissing ==
  /\ InPhase(Procs)
  /\ Advance(Procs)
  /\ errors' = TRUE
  /\ used' = NoDecl
  /\ UNCHANGED <<table, decls, types, forwards, written, symfile>>

\* Sema::onProcedureDefinitionStart: the name belongs to the enclosing scope.
StartProcedure(n, exported) ==
  LET d == Len(decls) + 1
  IN  /\ InPhase(Procs)
      /\ HasRoom
      /\ Len(blocks) <= MaxNesting
      /\ blocks' = Append([blocks EXCEPT ![Len(blocks)].phase = Procs],
                          [proc |-> d, phase |-> Formals])
      /\ decls' = Append(decls, [kind |-> "proc", name |-> n, type |-> NoTy,
                                 scope |-> table.level, exported |-> exported, home |-> Home])
      /\ table' = OpenScope(Insert(table, n, d))
      /\ errors' = (errors \/ ~AssertUnique(table, n) \/ ~CheckExport(exported, table.level, FALSE))
      /\ used' = NoDecl
      /\ UNCHANGED <<types, forwards, written, symfile>>

InFormals == blocks # <<>> /\ Phase = Formals

\* Parser::fp_section, Sema::onParameter
Parameter(n, ref) ==
  LET d == Len(decls) + 1
      type == TypeReference(table, ref)
  IN  /\ InFormals
      /\ HasRoom
      /\ decls' = Append(decls, [kind |-> "param", name |-> n, type |-> type,
                                 scope |-> table.level, exported |-> FALSE, home |-> Home])
      /\ table' = Insert(table, n, d)
      /\ errors' = (errors \/ type = NoTy \/ ~AssertUnique(table, n))
      /\ used' = Lookup(table, ref)
      /\ UNCHANGED <<types, forwards, blocks, written, symfile>>

\* Parser::procedure_definition, after the formal parameters.
EndFormals ==
  /\ InFormals
  /\ Advance(Consts)
  /\ used' = NoDecl
  /\ UNCHANGED <<table, decls, types, forwards, errors, written, symfile>>

\* forwards_.pop_back() until the list is empty.
RemainingForwards == <<>>

\* Sema::onDeclarations: the type of every pending base is looked up NOW, in
\* the scope whose declarations end here.
ResolvedTypes ==
  [i \in DOMAIN types |->
     IF \E f \in Range(forwards) : f.pointer = i /\ TypeReference(table, f.ref) # NoTy
     THEN LET f == CHOOSE f \in Range(forwards) : f.pointer = i
          IN  [types[i] EXCEPT !.base = TypeReference(table, f.ref)]
     ELSE types[i]]

\* Mutant: only an undefined base is an error.
IsBadBaseUndefined(f) == TypeReference(table, f.ref) = NoTy

\* The two errors of Sema::onDeclarations: an undefined base, or no record.
IsBadBase(f) == types[TypeReference(table, f.ref)].kind # "record"

\* The end of Parser::declarations, for the module or for a procedure.
EndDeclarations ==
  /\ InPhase(Procs)
  /\ Advance(Body)
  /\ types' = ResolvedTypes
  /\ errors' = (errors \/ \E f \in Range(forwards) : IsBadBase(f))
  /\ forwards' = RemainingForwards
  /\ used' = NoDecl
  /\ UNCHANGED <<table, decls, written, symfile>>

InBody == blocks # <<>> /\ Phase = Body

\* A name in the statements of the block; an undefined one is an error.
Reference(n) ==
  /\ InBody
  /\ used' = Lookup(table, n)
  /\ errors' = (errors \/ Lookup(table, n) = NoDecl)
  /\ UNCHANGED <<table, decls, types, forwards, blocks, written, symfile>>

\* Sema::onProcedureDefinitionEnd.  `good`: every path returns a result and
\* the name at the end is the procedure's.
EndProcedure(good) ==
  /\ InBody
  /\ Len(blocks) > 1
  /\ blocks' = Front(blocks)
  /\ table' = CloseScope(table)
  /\ errors' = (errors \/ ~good)
  /\ used' = NoDecl
  /\ UNCHANGED <<decls, types, forwards, written, symfile>>

\* Scope::getExportedSymbols
ExportedSymbols(scope) ==
  {d \in Range(scope.symbols) : decls[d].exported /\ decls[d].kind # "param"}

\* Sema::onTranslationUnitStart and onModuleStart.
StartModule ==
  /\ ~HasModule(table, Self)
  /\ table' = OpenScope(AddModule(table, Self, TRUE))
  /\ blocks' = << [proc |-> 0, phase |-> Consts] >>
  /\ UNCHANGED <<decls, types, forwards, errors, used, written, symfile>>

\* The guard of Sema::onTranslationUnitEnd.
WritesSymbolFile(failed) == ~failed

\* Sema::onModuleEnd and onTranslationUnitEnd.  The exporter reads the scope
\* of the module after it was closed.
EndModule(good) ==
  /\ InBody
  /\ Len(blocks) = 1
  /\ blocks' = <<>>
  /\ table' = CloseScope(table)
  /\ errors' = (errors \/ ~good)
  /\ IF WritesSymbolFile(errors')
     THEN /\ written' = TRUE
          /\ symfile' = ExportedSymbols(ModuleScope(table', Self))
     ELSE UNCHANGED <<written, symfile>>
  /\ used' = NoDecl
  /\ UNCHANGED <<decls, types, forwards>>

Init ==
  /\ table = InsertGlobal(InitialTable, Predefined, PredefinedDecl)
  /\ decls = << [kind |-> "type", name |-> Predefined, type |-> BasicTy,
                 scope |-> 0, exported |-> FALSE, home |-> -1] >>
  /\ types = << [kind |-> "notype", base |-> 0, public |-> FALSE, decl |-> 0],
                [kind |-> "basic", base |-> 0, public |-> FALSE, decl |-> PredefinedDecl] >>
  /\ forwards = <<>>
  /\ blocks = <<>>
  /\ errors = FALSE
  /\ used = NoDecl
  /\ written = FALSE
  /\ symfile = {}

Next ==
  \/ StartModule
  \/ \E n \in Names, x \in BOOLEAN :
       \/ ConstDeclaration(n, x)
       \/ \E public \in BOOLEAN : RecordDeclaration(n, x, public)
       \/ PointerToRecordDeclaration(n, x)
       \/ \E named, good \in BOOLEAN : ExternalCommand(n, x, named, good)
       \/ StartProcedure(n, x)
       \/ \E ref \in Names :
            \/ AliasDeclaration(n, x, ref)
            \/ PointerDeclaration(n, x, ref)
            \/ VarDeclaration(n, x, ref)
            \/ PointerVarDeclaration(n, x, ref)
            \/ \E p \in Names : ProcedureTypeDeclaration(n, x, p, ref)
            \/ \E p \in Names, named, good \in BOOLEAN :
                 ExternalProcedure(n, x, p, ref, named, good)
  \/ ExternalHeaderMissing
  \/ \E n, ref \in Names : Parameter(n, ref)
  \/ EndFormals
  \/ EndDeclarations
  \/ \E n \in Names : Reference(n)
  \/ \E good \in BOOLEAN : EndProcedure(good) \/ EndModule(good)

Spec == Init /\ [][Next]_vars

---------------------------------------------------------------------------
(* Properties *)

\* Every openScope has its closeScope: the level of the symbol table is the
\* nesting of the procedures being parsed, so what onProcedureDefinitionEnd
\* and onModuleEnd close is what they opened, also after a procedure type or
\* an external procedure opened a scope of its own for its parameters.
LevelIsNesting == HasModule(table, Self) => table.level = Len(blocks)

\* No statement is parsed while a pointer type waits for its base, and unless
\* an error was reported every pointer then points to a record.
BodiesSeeRecords ==
  InBody => /\ forwards = <<>>
            /\ ~errors => \A i \in DOMAIN types :
                 types[i].kind = "pointer" => types[types[i].base].kind = "record"

\* A reference never finds a declaration of a block that was closed, though
\* the symbol table keeps closed scopes.
Open == {-1} \cup {blocks[i].proc : i \in DOMAIN blocks}
ReferencesAreVisible == used # NoDecl => decls[used].home \in Open

\* The symbol file is written only for a module without errors, and holds
\* exactly its exported declarations, all of them of the module's own scope,
\* although that scope is closed by the time it is read.
ExportsAreComplete ==
  written => /\ ~errors
             /\ symfile = {d \in DOMAIN decls : decls[d].exported}
             /\ \A d \in symfile : decls[d].home = 0 /\ decls[d].scope = 1
=============================================================================
