--------------------------- MODULE ExpressionsMC ---------------------------
(***************************************************************************)
(* Expressions of up to three operands: any two of those below, and one    *)
(* that is simple.                                                         *)
(***************************************************************************)
EXTENDS Expressions, TLC

MCBits == [BOOLEAN |-> 1, BYTE |-> 2, CHAR |-> 2, SHORTINT |-> 3, INTEGER |-> 4, LONGINT |-> 5,
           REAL |-> 2, LONGREAL |-> 4, SET |-> 4]

MCVarType == [b |-> "BOOLEAN", y |-> "BYTE", c |-> "CHAR", s |-> "SHORTINT", i |-> "INTEGER", l |-> "LONGINT",
              r |-> "REAL", d |-> "LONGREAL", t |-> "SET", f |-> "INTEGER", g |-> "BOOLEAN"]

MCMemories ==
    <<[b |-> TRUE, y |-> 3, c |-> 3, s |-> -3, i |-> 3, l |-> -9, r |-> 3, d |-> 5, t |-> {0, 3}, f |-> 2, g |-> FALSE],
     [b |-> FALSE, y |-> 1, c |-> 1, s |-> 2, i |-> -7, l |-> 12, r |-> -2, d |-> -9, t |-> {1, 2}, f |-> -1, g |-> TRUE],
     [b |-> TRUE, y |-> 0, c |-> 2, s |-> 3, i |-> 2, l |-> 2, r |-> 4, d |-> 2, t |-> {}, f |-> 5, g |-> TRUE]>>

MCLiterals == [SHORTINT |-> {0, 1, 3}, INTEGER |-> {5}, LONGINT |-> {13}, REAL |-> {0, 1, 3}, LONGREAL |-> {5},
               BOOLEAN |-> BOOLEAN, CHAR |-> {2}, SET |-> {{0, 1}}]

MCSmallLiterals == [SHORTINT |-> {0, 1, 3}, REAL |-> {1}, BOOLEAN |-> BOOLEAN]
=============================================================================
