-------------------------- MODULE DismissalHistory --------------------------
(***************************************************************************)
(* RuleLifecycle with the set of the rules a user has dismissed: nothing   *)
(* in the database says who archived a rule, so what a dismissal promises  *)
(* can only be stated of the history.                                      *)
(***************************************************************************)
EXTENDS RuleLifecycle

VARIABLE dismissed

DismissalInit == Init /\ dismissed = {}

\* Every call of archive_rule, and nothing else, is a dismissal.
DismissedNow ==
  {command[u].rule : u \in {v \in Users : Dismiss(v)}}
    \cup {r \in Rules : DismissInPrompt(r)}

DismissalNext == Next /\ dismissed' = dismissed \cup DismissedNow

DismissalSpec == DismissalInit /\ [][DismissalNext]_<<vars, dismissed>>

\* docs/en/architecture.md:96, "dismiss: Retire a rule (no longer retrieved,
\* no longer gated)".
DismissedStaysRetired == \A r \in dismissed : status[r] \notin Formal
=============================================================================
