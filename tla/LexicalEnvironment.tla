------------------------- MODULE LexicalEnvironment -------------------------
(***************************************************************************)
(* What the symbol table promises its clients, without chains of scopes,   *)
(* indices or retained closed scopes: one module is current and a stack of *)
(* blocks is open in it; a name means its innermost declaration, a block   *)
(* keeps the first declaration of a name, and a qualified name is looked   *)
(* up in the outermost declarations of the module the qualifier stands for.*)
(***************************************************************************)
EXTENDS Naturals, Sequences

CONSTANTS
  Modules, Names, Decls, NoModule, NoDecl, System

VARIABLES
  known,      \* the modules that have a namespace
  spaces,     \* the outermost declarations of every module
  qualifier,  \* the module that a qualifier stands for
  current,    \* the module being compiled
  blocks,     \* its open blocks, outermost first
  predefined, \* the predefined declarations
  answer,     \* what the last query returned
  legal       \* FALSE once a client broke the protocol

vars == <<known, spaces, qualifier, current, blocks, predefined, answer, legal>>

Unbound == [n \in Names |-> NoDecl]

\* A block keeps the first declaration of a name.
Bind(b, n, d) == IF b[n] = NoDecl THEN [b EXCEPT ![n] = d] ELSE b

\* The bindings visible at a nesting level; level 0 is the current module's.
Block(l) == IF l = 0 THEN spaces[current] ELSE blocks[l]

Visible(n) ==
  LET L == {l \in 0..Len(blocks) : Block(l)[n] # NoDecl}
  IN  IF L = {} THEN predefined[n]
      ELSE Block(CHOOSE l \in L : \A k \in L : k <= l)[n]

VisibleIn(q, n) == IF qualifier[q] \in known THEN spaces[qualifier[q]][n] ELSE NoDecl

Init ==
  /\ known = {System}
  /\ spaces = [m \in Modules |-> Unbound]
  /\ qualifier = [m \in Modules |-> IF m = System THEN System ELSE NoModule]
  /\ current = System
  /\ blocks = <<>>
  /\ predefined = Unbound
  /\ answer = NoDecl
  /\ legal = TRUE

Break ==
  /\ legal' = FALSE
  /\ UNCHANGED <<known, spaces, qualifier, current, blocks, predefined, answer>>

Create(m) ==
  /\ legal /\ m \notin known
  /\ known' = known \cup {m}
  /\ qualifier' = [qualifier EXCEPT ![m] = m]
  /\ UNCHANGED <<spaces, current, blocks, predefined, answer, legal>>

\* Start compiling a module: its namespace is new and no block is open.
Switch(m) ==
  /\ legal /\ m \notin known
  /\ known' = known \cup {m}
  /\ qualifier' = [qualifier EXCEPT ![m] = m]
  /\ current' = m
  /\ blocks' = <<>>
  /\ UNCHANGED <<spaces, predefined, answer, legal>>

DeclareIn(m, n, d) ==
  /\ legal /\ m \in known
  /\ spaces' = [spaces EXCEPT ![m] = Bind(@, n, d)]
  /\ UNCHANGED <<known, qualifier, current, blocks, predefined, answer, legal>>

Declare(n, d) ==
  /\ legal
  /\ IF blocks = <<>>
     THEN /\ spaces' = [spaces EXCEPT ![current] = Bind(@, n, d)]
          /\ UNCHANGED blocks
     ELSE /\ blocks' = [blocks EXCEPT ![Len(blocks)] = Bind(@, n, d)]
          /\ UNCHANGED spaces
  /\ UNCHANGED <<known, qualifier, current, predefined, answer, legal>>

Predefine(n, d) ==
  /\ legal
  /\ predefined' = Bind(predefined, n, d)
  /\ UNCHANGED <<known, spaces, qualifier, current, blocks, answer, legal>>

\* A module that gets an alias is no longer known by its own name.
Rename(a, m) ==
  /\ legal
  /\ qualifier' = [q \in Modules |->
                     IF q = a THEN m ELSE IF q = m THEN NoModule ELSE qualifier[q]]
  /\ UNCHANGED <<known, spaces, current, blocks, predefined, answer, legal>>

Enter ==
  /\ legal
  /\ blocks' = Append(blocks, Unbound)
  /\ UNCHANGED <<known, spaces, qualifier, current, predefined, answer, legal>>

Leave ==
  /\ legal /\ blocks # <<>>
  /\ blocks' = SubSeq(blocks, 1, Len(blocks) - 1)
  /\ UNCHANGED <<known, spaces, qualifier, current, predefined, answer, legal>>

Query(n) ==
  /\ legal
  /\ answer' = Visible(n)
  /\ UNCHANGED <<known, spaces, qualifier, current, blocks, predefined, legal>>

QueryIn(q, n) ==
  /\ legal
  /\ answer' = VisibleIn(q, n)
  /\ UNCHANGED <<known, spaces, qualifier, current, blocks, predefined, legal>>

\* Leaving when no block is open, creating a namespace that exists, declaring
\* in one that does not: the environment refuses, for good.
Illegal == legal /\ Break

Next ==
  \/ \E m \in Modules : Create(m) \/ Switch(m)
  \/ \E m \in Modules, n \in Names, d \in Decls : DeclareIn(m, n, d)
  \/ \E n \in Names, d \in Decls : Declare(n, d) \/ Predefine(n, d)
  \/ \E a, m \in Modules : Rename(a, m)
  \/ Enter
  \/ Leave
  \/ \E n \in Names : Query(n)
  \/ \E q \in Modules, n \in Names : QueryIn(q, n)
  \/ Illegal

Spec == Init /\ [][Next]_vars
=============================================================================
