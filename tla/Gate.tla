-------------------------------- MODULE Gate --------------------------------
(***************************************************************************)
(* The gate of one session: the prompt hook writes a marker file for the   *)
(* turn when a gate-capable rule has been injected, and the hook before    *)
(* the first tool call that finds the marker consumes it and denies the    *)
(* call once.                                                              *)
(*                                                                         *)
(* Every hook is a process of its own and shares the marker files and the  *)
(* database with the others.  A step is one access to them: in between run *)
(* the hooks of parallel tool calls, dismissals that rewrite the markers   *)
(* and the lifecycle that moves the rules.  The host waits for the prompt  *)
(* hook, or kills it, before the agent calls a tool.                       *)
(*                                                                         *)
(* A prompt is the hash of its text, so the same prompt may come again.    *)
(* created_at is the turn: turns are seconds apart, and no two steps of    *)
(* different turns have the same timestamp.  The gate is enabled and the   *)
(* names of the tools match.                                               *)
(***************************************************************************)
EXTENDS Naturals, FiniteSets

CONSTANTS
  Prompts,     \* hashes of prompts
  NoPrompt,
  Rules,       \* rules that can be trusted and gate_eligible
  Calls,       \* tool calls in flight at once
  Dismissals,  \* dismissals in flight at once
  Cursor,      \* whether the host is Cursor, which may not run the prompt hook
  Timeouts,    \* whether the host may kill a hook that takes too long
  MaxTurns, MaxVersion  \* bounds of the exploration

ASSUME GateAssumption ==
  /\ NoPrompt \notin Prompts
  /\ {Cursor, Timeouts} \subseteq BOOLEAN
  /\ MaxTurns \in Nat /\ MaxVersion \in Nat \ {0}

VARIABLES
  turn, prompt,     \* what the user has sent last
  status,           \* of a rule: "capable" of denying, "other" or "archived"
  version,          \* its rule_version
  marker,           \* gate_markers/<session>/<hash>.json
  fired, lastFired, \* prompts with fire events, and the one of the newest
  claims,           \* user-prompt-submit claims in hook_coalesce
  acks, deferrals,  \* prompt_submit_ack and cursor_deferred
  submit,           \* the prompt hook
  call,             \* hooks before tool calls
  dismissal         \* dismissals that are stripping the markers

vars == <<turn, prompt, status, version, marker, fired, lastFired, claims, acks,
          deferrals, submit, call, dismissal>>
user == <<turn, prompt, claims>>
rules == <<status, version>>
events == <<fired, lastFired>>

-----------------------------------------------------------------------------
(* Types                                                                   *)

Versioned == Rules \X (1..MaxVersion)

NoMarker == [at |-> 0, rules |-> {}]
Marker == [at : 1..MaxTurns, rules : (SUBSET Versioned) \ {{}}] \cup {NoMarker}

NoSubmit == [pc |-> "idle", rules |-> {}]
Submit == [pc : {"retrieve", "clear", "fire", "write", "prune", "ack"},
           rules : SUBSET Versioned] \cup {NoSubmit}

NoCall == [pc |-> "idle", prompt |-> NoPrompt, marker |-> NoMarker, denies |-> {}]
Call == [pc : {"defer", "deliver", "latest", "resolve", "read", "check", "prune", "consume"},
         prompt : Prompts \cup {NoPrompt}, marker : Marker, denies : SUBSET Rules] \cup {NoCall}

NoDismissal == [rules |-> {}, left |-> {}, prompt |-> NoPrompt, marker |-> NoMarker]
Dismissal == [rules : SUBSET Rules, left : SUBSET Prompts,
              prompt : Prompts \cup {NoPrompt}, marker : Marker]

TypeOK ==
  /\ turn \in 0..MaxTurns /\ prompt \in Prompts \cup {NoPrompt}
  /\ status \in [Rules -> {"capable", "other", "archived"}]
  /\ version \in [Rules -> 1..MaxVersion]
  /\ marker \in [Prompts -> Marker]
  /\ fired \in SUBSET Prompts /\ lastFired \in Prompts \cup {NoPrompt}
  /\ claims \in SUBSET Prompts /\ acks \in SUBSET Prompts
  /\ deferrals \in SUBSET (Prompts \X (1..MaxTurns))
  /\ submit \in Submit
  /\ call \in [Calls -> Call]
  /\ dismissal \in [Dismissals -> Dismissal]

Init ==
  /\ turn = 0 /\ prompt = NoPrompt
  /\ status = [r \in Rules |-> "capable"]
  /\ version = [r \in Rules |-> 1]
  /\ marker = [p \in Prompts |-> NoMarker]
  /\ fired = {} /\ lastFired = NoPrompt
  /\ claims = {} /\ acks = {} /\ deferrals = {}
  /\ submit = NoSubmit
  /\ call = [c \in Calls |-> NoCall]
  /\ dismissal = [d \in Dismissals |-> NoDismissal]

-----------------------------------------------------------------------------
(* Marker files                                                            *)

Present == {p \in Prompts : marker[p] # NoMarker}

Latest(p) == p \in Present /\ \A q \in Present : marker[q].at <= marker[p].at

Delete(p) == marker' = [marker EXCEPT ![p] = NoMarker]
DeleteSession == marker' = [p \in Prompts |-> NoMarker]
PruneStale(current) == marker' = [p \in Prompts |-> IF p = current THEN marker[p] ELSE NoMarker]

-----------------------------------------------------------------------------
(* The prompt hook                                                         *)

\* The host starts the hook for the user's prompt; a prompt that has already
\* been claimed is taken for a duplicate of the same event.
SendPrompt(p) ==
  /\ turn < MaxTurns /\ submit = NoSubmit
  /\ turn' = turn + 1 /\ prompt' = p
  /\ claims' = claims \cup {p}
  /\ submit' = IF p \in claims THEN NoSubmit ELSE [NoSubmit EXCEPT !.pc = "retrieve"]
  /\ UNCHANGED <<rules, marker, events, acks, deferrals, call, dismissal>>

\* Cursor may send the prompt without running the hook.
SendUnseen(p) ==
  /\ Cursor
  /\ turn < MaxTurns /\ submit = NoSubmit
  /\ turn' = turn + 1 /\ prompt' = p
  /\ UNCHANGED <<rules, marker, events, claims, acks, deferrals, submit, call, dismissal>>

\* Maintenance prunes claims after a day.
PruneStaleClaims ==
  /\ claims # {} /\ claims' = {}
  /\ UNCHANGED <<turn, prompt, rules, marker, events, acks, deferrals, submit, call, dismissal>>

\* Retrieval renders some of the rules that match, and of the capable ones
\* keeps the version it has read for the marker.
Capable == {r \in Rules : status[r] = "capable"}
Retrieve ==
  /\ submit.pc = "retrieve"
  /\ \/ submit' = [submit EXCEPT !.pc = "clear"]
     \/ \E found \in SUBSET Capable :
          submit' = [pc |-> "fire", rules |-> {<<r, version[r]>> : r \in found}]
  /\ UNCHANGED <<user, rules, marker, events, acks, deferrals, call, dismissal>>

\* Nothing is rendered.  The acknowledgement is only written when a rule was
\* found that did not fit the budget.
Clear ==
  /\ submit.pc = "clear"
  /\ DeleteSession
  /\ submit' \in {NoSubmit, [submit EXCEPT !.pc = "ack"]}
  /\ UNCHANGED <<user, rules, events, acks, deferrals, call, dismissal>>

\* A fire event that cannot be written is given up.
CreateFireEvents(p) ==
  \/ fired' = fired \cup {p} /\ lastFired' = p
  \/ UNCHANGED events

RecordFireEvents ==
  /\ submit.pc = "fire"
  /\ CreateFireEvents(prompt)
  /\ submit' = [submit EXCEPT !.pc = "write"]
  /\ UNCHANGED <<user, rules, marker, acks, deferrals, call, dismissal>>

UpdateGateMarker ==
  /\ submit.pc = "write"
  /\ IF submit.rules # {}
       THEN /\ marker' = [marker EXCEPT ![prompt] = [at |-> turn, rules |-> submit.rules]]
            /\ submit' = [submit EXCEPT !.pc = "prune"]
       ELSE /\ DeleteSession
            /\ submit' = [submit EXCEPT !.pc = "ack"]
  /\ UNCHANGED <<user, rules, events, acks, deferrals, call, dismissal>>

PruneStaleMarkers ==
  /\ submit.pc = "prune"
  /\ PruneStale(prompt)
  /\ submit' = [submit EXCEPT !.pc = "ack"]
  /\ UNCHANGED <<user, rules, events, acks, deferrals, call, dismissal>>

Acknowledge ==
  /\ submit.pc = "ack"
  /\ acks' = acks \cup {prompt}
  /\ submit' = NoSubmit
  /\ UNCHANGED <<user, rules, marker, events, deferrals, call, dismissal>>

\* The host gives up on the hook, or the hook fails and lets the prompt pass.
SubmitTimesOut ==
  /\ Timeouts
  /\ submit # NoSubmit
  /\ submit' = NoSubmit
  /\ UNCHANGED <<user, rules, marker, events, acks, deferrals, call, dismissal>>

-----------------------------------------------------------------------------
(* The hook before a tool call                                             *)

Becomes(c, state) == call' = [call EXCEPT ![c] = state]
Goes(c, pc) == call' = [call EXCEPT ![c].pc = pc]

BeginCall(c) ==
  /\ call[c] = NoCall
  /\ turn > 0 /\ submit = NoSubmit
  /\ Goes(c, IF Cursor THEN "defer" ELSE "latest")
  /\ UNCHANGED <<user, rules, marker, events, acks, deferrals, submit, dismissal>>

\* The first call of a turn whose prompt was not acknowledged injects the
\* rules itself, and is denied to hand them over.  The claim is atomic.
ClaimDeferral(c) ==
  /\ call[c].pc = "defer"
  /\ IF prompt \in acks \/ <<prompt, turn>> \in deferrals
       THEN Goes(c, "latest") /\ UNCHANGED deferrals
       ELSE /\ deferrals' = deferrals \cup {<<prompt, turn>>}
            /\ Becomes(c, [call[c] EXCEPT !.pc = "deliver", !.prompt = prompt])
  /\ UNCHANGED <<user, rules, marker, events, acks, submit, dismissal>>

DeferredPass(c) ==
  /\ call[c].pc = "deliver"
  /\ Goes(c, "latest")
  /\ UNCHANGED <<user, rules, marker, events, acks, deferrals, submit, dismissal>>

DeferredDeny(c) ==
  /\ call[c].pc = "deliver"
  /\ CreateFireEvents(call[c].prompt)
  /\ Becomes(c, NoCall)
  /\ UNCHANGED <<user, rules, marker, acks, deferrals, submit, dismissal>>

\* The payload has no prompt: the turn is guessed from the newest marker.
ReadLatestMarker(c) ==
  /\ call[c].pc = "latest"
  /\ IF Present = {} THEN Becomes(c, [NoCall EXCEPT !.pc = "resolve"])
     ELSE \E p \in Prompts :
            /\ Latest(p)
            /\ Becomes(c, [NoCall EXCEPT !.pc = "resolve", !.prompt = p, !.marker = marker[p]])
  /\ UNCHANGED <<user, rules, marker, events, acks, deferrals, submit, dismissal>>

\* Failing that, from the newest fire event; a marker without fire event is
\* dropped, and all of them are when there is no turn to match.
ResolvePrompt(c) ==
  LET p == call[c].prompt
      resolved == IF p \in fired THEN p ELSE lastFired IN
  /\ call[c].pc = "resolve"
  /\ IF resolved = NoPrompt
       THEN DeleteSession /\ Becomes(c, NoCall)
       ELSE /\ IF p = NoPrompt \/ p \in fired THEN UNCHANGED marker ELSE Delete(p)
            /\ Becomes(c, [NoCall EXCEPT !.pc = "read", !.prompt = resolved])
  /\ UNCHANGED <<user, rules, events, acks, deferrals, submit, dismissal>>

\* The marker is read again; it may have outlived its TTL.
ReadMarker(c) ==
  LET m == marker[call[c].prompt] IN
  /\ call[c].pc = "read"
  /\ IF m = NoMarker THEN Goes(c, "prune")
     ELSE \E pc \in {"check", "consume"} :
            Becomes(c, [call[c] EXCEPT !.pc = pc, !.marker = m])
  /\ UNCHANGED <<user, rules, marker, events, acks, deferrals, submit, dismissal>>

PassWithoutMarker(c) ==
  /\ call[c].pc = "prune"
  /\ PruneStale(call[c].prompt)
  /\ Becomes(c, NoCall)
  /\ UNCHANGED <<user, rules, events, acks, deferrals, submit, dismissal>>

\* Mutant: archive_rule does not change the version, so the status has to be read.
EligibleByVersion(m) == {r \in Rules : <<r, version[r]>> \in m.rules}

\* The row must still be capable and of the version of the marker; the input of
\* the tool decides which of these rules it is about.
Eligible(m) == {r \in Rules : status[r] = "capable" /\ <<r, version[r]>> \in m.rules}

CheckEligibility(c) ==
  /\ call[c].pc = "check"
  /\ \E about \in SUBSET Eligible(call[c].marker) :
       Becomes(c, [call[c] EXCEPT !.pc = "consume", !.denies = about])
  /\ UNCHANGED <<user, rules, marker, events, acks, deferrals, submit, dismissal>>

\* Mutant: a marker that denies the call stays.
ConsumeUnlessDenied(c) ==
  /\ call[c].pc = "consume"
  /\ IF call[c].denies = {} THEN Delete(call[c].prompt) ELSE UNCHANGED marker
  /\ Becomes(c, NoCall)
  /\ UNCHANGED <<user, rules, events, acks, deferrals, submit, dismissal>>

Consume(c) ==
  /\ call[c].pc = "consume"
  /\ Delete(call[c].prompt)
  /\ Becomes(c, NoCall)
  /\ UNCHANGED <<user, rules, events, acks, deferrals, submit, dismissal>>

\* The host lets the call pass.
CallTimesOut(c) ==
  /\ Timeouts
  /\ call[c] # NoCall
  /\ Becomes(c, NoCall)
  /\ UNCHANGED <<user, rules, marker, events, acks, deferrals, submit, dismissal>>

\* How a call ends.  A step that could be either is taken for a denial.
Denied(c) == Consume(c) /\ call[c].denies # {}
Passed(c) ==
  /\ ~Denied(c) /\ ~DeferredDeny(c)
  /\ \/ PassWithoutMarker(c) \/ CallTimesOut(c)
     \/ Consume(c) /\ call[c].denies = {}
     \/ ResolvePrompt(c) /\ call'[c] = NoCall

-----------------------------------------------------------------------------
(* Rules that move                                                         *)

\* The row first, then marker after marker; the web endpoints leave the
\* markers alone.
Dismiss(d, r) ==
  /\ dismissal[d] = NoDismissal
  /\ status[r] # "archived"
  /\ status' = [status EXCEPT ![r] = "archived"]
  /\ \E left \in {{}, Prompts} :
       dismissal' = [dismissal EXCEPT ![d] =
         IF left = {} THEN NoDismissal ELSE [NoDismissal EXCEPT !.rules = {r}, !.left = left]]
  /\ UNCHANGED <<user, version, marker, events, acks, deferrals, submit, call>>

LoadMarker(d, p) ==
  LET strip == dismissal[d] IN
  /\ strip.prompt = NoPrompt /\ p \in strip.left
  /\ dismissal' = [dismissal EXCEPT ![d] =
       IF \E entry \in marker[p].rules : entry[1] \in strip.rules
         THEN [strip EXCEPT !.left = @ \ {p}, !.prompt = p, !.marker = marker[p]]
       ELSE IF strip.left = {p} THEN NoDismissal
       ELSE [strip EXCEPT !.left = @ \ {p}]]
  /\ UNCHANGED <<user, rules, marker, events, acks, deferrals, submit, call>>

\* Mutant: a marker without rules is written back.
RewriteMarkerEmpty(d) ==
  LET strip == dismissal[d]
      kept == {entry \in strip.marker.rules : entry[1] \notin strip.rules} IN
  /\ strip.prompt # NoPrompt
  /\ marker' = [marker EXCEPT ![strip.prompt] = [strip.marker EXCEPT !.rules = kept]]
  /\ dismissal' = [dismissal EXCEPT ![d] =
       IF strip.left = {} THEN NoDismissal
                          ELSE [strip EXCEPT !.prompt = NoPrompt, !.marker = NoMarker]]
  /\ UNCHANGED <<user, rules, events, acks, deferrals, submit, call>>

\* What has been loaded is written back without the rule, or deleted.
RewriteMarker(d) ==
  LET strip == dismissal[d]
      kept == {entry \in strip.marker.rules : entry[1] \notin strip.rules} IN
  /\ strip.prompt # NoPrompt
  /\ marker' = [marker EXCEPT ![strip.prompt] =
       IF kept = {} THEN NoMarker ELSE [strip.marker EXCEPT !.rules = kept]]
  /\ dismissal' = [dismissal EXCEPT ![d] =
       IF strip.left = {} THEN NoDismissal
                          ELSE [strip EXCEPT !.prompt = NoPrompt, !.marker = NoMarker]]
  /\ UNCHANGED <<user, rules, events, acks, deferrals, submit, call>>

\* A transition or a merge: a new version.  An archived rule takes longer than a
\* session to earn trust again.
Evolve(r) ==
  /\ status[r] # "archived" /\ version[r] < MaxVersion
  /\ \E to \in {"capable", "other"} : status' = [status EXCEPT ![r] = to]
  /\ version' = [version EXCEPT ![r] = @ + 1]
  /\ UNCHANGED <<user, marker, events, acks, deferrals, submit, call, dismissal>>

-----------------------------------------------------------------------------
PromptHook ==
  \/ Retrieve \/ Clear \/ RecordFireEvents \/ UpdateGateMarker \/ PruneStaleMarkers
  \/ Acknowledge

CallHook(c) ==
  \/ ClaimDeferral(c) \/ DeferredPass(c) \/ DeferredDeny(c)
  \/ ReadLatestMarker(c) \/ ResolvePrompt(c) \/ ReadMarker(c)
  \/ PassWithoutMarker(c) \/ CheckEligibility(c) \/ Consume(c)

Stripping(d) == RewriteMarker(d) \/ \E p \in Prompts : LoadMarker(d, p)

Next ==
  \/ \E p \in Prompts : SendPrompt(p) \/ SendUnseen(p)
  \/ PruneStaleClaims
  \/ PromptHook \/ SubmitTimesOut
  \/ \E c \in Calls : BeginCall(c) \/ CallHook(c) \/ CallTimesOut(c)
  \/ \E d \in Dismissals : Stripping(d) \/ \E r \in Rules : Dismiss(d, r)
  \/ \E r \in Rules : Evolve(r)

Spec == Init /\ [][Next]_vars

\* Hooks run to their end, and the agent goes on calling tools.
Fairness ==
  /\ WF_vars(PromptHook)
  /\ \A c \in Calls : WF_vars(BeginCall(c)) /\ WF_vars(CallHook(c))

FairSpec == Spec /\ Fairness
=============================================================================
