------------------------- MODULE MCDismissalHistory -------------------------
(* Small instances of DismissalHistory for TLC. *)
EXTENDS DismissalHistory

CONSTANTS r1, r2

\* The second rule says something else than the others.
MCContents == {"c", "d"}
MCContentOf == [r \in Rules |-> IF r = r2 THEN "d" ELSE "c"]

AllGlobal == [r \in Rules |-> "global"]
=============================================================================
