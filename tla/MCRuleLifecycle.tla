--------------------------- MODULE MCRuleLifecycle ---------------------------
(* Small instances of RuleLifecycle for TLC. *)
EXTENDS RuleLifecycle, TLC

CONSTANTS r1, r2

MCContents == {"c"}

\* All rules have the same content.
SameContent == [r \in Rules |-> "c"]

\* The first rule belongs to a project.
MCScopeOf == [r \in Rules |-> IF r = r1 THEN "project" ELSE "global"]
=============================================================================
