----------------------------- MODULE StatusGraph -----------------------------
(***************************************************************************)
(* The abstract lifecycle: the changes of status that the writers of the   *)
(* code make, one at a time.  It is not the diagram of                     *)
(* docs/en/lifecycle.md:9-14, in which archived is terminal, a suppressed  *)
(* rule only ever becomes a candidate, no candidate is deleted (:61 has    *)
(* the cleanup archive them) and trust is not lost but to suppression.     *)
(***************************************************************************)
EXTENDS LifecycleDecisions

CONSTANT Rules

VARIABLE status

\* The diagram draws these, and suppressed to candidate, which no writer makes.
Drawn ==
  {<<"unborn", "candidate">>, <<"unborn", "active">>,
   <<"candidate", "active">>, <<"active", "trusted">>,
   <<"candidate", "suppressed">>, <<"active", "suppressed">>, <<"trusted", "suppressed">>,
   <<"candidate", "archived">>, <<"active", "archived">>, <<"trusted", "archived">>,
   <<"suppressed", "archived">>}

\* It does not draw these: an import of an archived rule, the cleanup of old
\* candidates, the loss of trust, a recovery from suppression, which leads to
\* active, and the recovery sweep, which brings back what a lost rule replaced.
Undrawn ==
  {<<"unborn", "archived">>, <<"candidate", "deleted">>, <<"trusted", "active">>,
   <<"suppressed", "active">>, <<"archived", "candidate">>}

Moves == Drawn \cup Undrawn

Init == status = [r \in Rules |-> "unborn"]

Move(r, to) ==
  /\ <<status[r], to>> \in Moves
  /\ status' = [status EXCEPT ![r] = to]

Next == \E r \in Rules : \E to \in Statuses \cup {"deleted"} : Move(r, to)

Spec == Init /\ [][Next]_status
=============================================================================
