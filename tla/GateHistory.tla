---------------------------- MODULE GateHistory ----------------------------
(***************************************************************************)
(* Gate with what its properties need to remember: which markers have      *)
(* denied a call, what was known when a call began, and the last turn in   *)
(* which the agent got through.  A marker is named by its created_at.      *)
(***************************************************************************)
EXTENDS Gate

VARIABLES
  opened,    \* markers that have denied a call
  rewritten, \* markers a dismissal has written back
  before,    \* opened, the archived rules and the turn when a call began
  passed     \* last turn in which a call has passed

history == <<opened, rewritten, before, passed>>

Archived == {r \in Rules : status[r] = "archived"}

HistoryInit ==
  /\ Init
  /\ opened = {} /\ rewritten = {} /\ passed = 0
  /\ before = [c \in Calls |-> [opened |-> {}, archived |-> {}, turn |-> 0]]

Remembers ==
  /\ opened' = opened \cup {call[c].marker.at : c \in {x \in Calls : Denied(x)}}
  /\ rewritten' = rewritten
       \cup {dismissal[d].marker.at : d \in {x \in Dismissals : RewriteMarker(x)}}
  /\ before' = [c \in Calls |->
       IF BeginCall(c) THEN [opened |-> opened, archived |-> Archived, turn |-> turn]
       ELSE IF call'[c] = NoCall THEN [opened |-> {}, archived |-> {}, turn |-> 0]
       ELSE before[c]]
  /\ passed' = IF \E c \in Calls : Passed(c) THEN turn ELSE passed

HistoryNext == Next /\ Remembers

HistorySpec == HistoryInit /\ [][HistoryNext]_<<vars, history>>
FairHistorySpec == HistorySpec /\ Fairness

-----------------------------------------------------------------------------
(* Properties                                                              *)

\* docs/en/gate.md:7, "After one block the marker is cleared, and later tool
\* calls in the same message run normally": a call that begins after a marker
\* has denied another one is not denied by it, unless a dismissal that had
\* loaded the marker wrote it back.
DeniesOncePerMarker ==
  [][\A c \in Calls : Denied(c) => call[c].marker.at \notin before[c].opened \ rewritten]_vars

\* A rule that was dismissed before a call began does not deny it, even if a
\* slow prompt hook or a slow rewrite brings it back into a marker.
DismissedNeverDenies ==
  [][\A c \in Calls : Denied(c) => call[c].denies \cap before[c].archived = {}]_vars

\* An agent that goes on calling its tool gets through in every turn, unless
\* the user sends the next prompt.
AgentGetsThrough == \A t \in 1..MaxTurns : turn = t ~> (passed >= t \/ turn > t)

-----------------------------------------------------------------------------
(* What a document says and the code does not do                           *)

\* docs/en/gate.md:89, if the hash "does not match because the user already
\* sent the next message, the marker is deleted and the tool is allowed": a
\* call of the current turn is denied for the current prompt only.
StaleMarkerAllows ==
  [][\A c \in Calls : (Denied(c) /\ before[c].turn = turn) => call[c].prompt = prompt]_vars
=============================================================================
