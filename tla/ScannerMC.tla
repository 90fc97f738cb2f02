----------------------------- MODULE ScannerMC -----------------------------
(***************************************************************************)
(* All texts of a few characters, over one alphabet for each loop of the   *)
(* scanner.                                                                *)
(***************************************************************************)
EXTENDS Scanner

MCFloatLow == -1
MCDoubleLow == -2

Texts(alphabet, n) == UNION {[1 .. k -> alphabet] : k \in 0 .. n}

MCFiles == Texts({"(", "*", ")", "g"}, 6)
             \cup Texts({"1", "9", "f", "H", "X", "."}, 5)
             \cup Texts({"1", ".", "e", "D", "+"}, 5)
             \cup Texts({"0", "1", ".", "E"}, 5)
             \cup Texts({"1", ".", "d", "-"}, 5)
             \cup Texts({Quote, Backslash, "n", "0"}, 6)
             \cup Texts({"<", "=", ".", " ", Newline, "?", "O", "R"}, 4)
             \cup {<<"1", ".", ".", "9", ";">>, <<"(", "*", "(", "*", "g", "*", ")", "*", ")", "1">>,
                   <<"0", "F", "a", "H">>, <<"1", ".", "1", "E", "-", "1", "D">>, <<"1", ".", "1", "D", "-", "1">>, <<"1", ".", "1", "H">>}
=============================================================================
