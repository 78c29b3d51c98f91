----------------------------- MODULE Gate_proofs -----------------------------
(***************************************************************************)
(* Safety of the gate for any number of prompts, rules, parallel calls and *)
(* dismissals, on either host, and without a bound on turns and versions   *)
(* other than being finite.                                                *)
(***************************************************************************)
EXTENDS GateHistory, TLAPS

-----------------------------------------------------------------------------
(* The inductive invariant                                                 *)

\* Nothing runs before the first prompt.
Sent ==
  /\ turn > 0 => prompt \in Prompts
  /\ submit # NoSubmit => turn > 0
  /\ \A c \in Calls : call[c] # NoCall => turn > 0

\* A call that has got as far has a prompt to look a marker up for.
Prompted ==
  \A c \in Calls :
    call[c].pc \in {"deliver", "read", "check", "prune", "consume"} => call[c].prompt \in Prompts

IInv == TypeOK /\ Sent /\ Prompted

\* What a call denies for was not archived when it began, and what was archived
\* then still is.
SpareArchived ==
  \A c \in Calls :
    /\ before[c].archived \subseteq Archived
    /\ call[c].denies \cap before[c].archived = {}

-----------------------------------------------------------------------------
(* Types                                                                   *)

\* Where a call and a prompt hook start from.
LEMMA Defaults ==
  /\ NoMarker \in Marker /\ NoSubmit \in Submit /\ NoCall \in Call
  /\ NoDismissal \in Dismissal
  BY DEF NoMarker, Marker, NoSubmit, Submit, NoCall, Call, NoDismissal, Dismissal

\* A prompt hook that runs is a record of its own type.
LEMMA BusySubmit ==
  ASSUME NEW s \in Submit, s # NoSubmit
  PROVE  s \in [pc : {"retrieve", "clear", "fire", "write", "prune", "ack"},
                rules : SUBSET Versioned]
  BY DEF Submit

\* Every state of a call is a record with a prompt, a marker and rules.
LEMMA CallRecord ==
  ASSUME NEW s \in Call
  PROVE  s \in [pc : {"idle", "defer", "deliver", "latest", "resolve", "read", "check",
                      "prune", "consume"},
                prompt : Prompts \cup {NoPrompt}, marker : Marker, denies : SUBSET Rules]
  BY Defaults DEF Call, NoCall

\* A marker file that is there was written in some turn for some rules.
LEMMA PresentMarker ==
  ASSUME NEW m \in Marker, m # NoMarker
  PROVE  m \in [at : 1..MaxTurns, rules : (SUBSET Versioned) \ {{}}]
  BY DEF Marker

\* Deletions keep the directory of markers in its type.
LEMMA DeletionType ==
  ASSUME TypeOK
  PROVE  /\ \A p \in Prompts : Delete(p) => marker' \in [Prompts -> Marker]
         /\ DeleteSession => marker' \in [Prompts -> Marker]
         /\ \A p \in Prompts : PruneStale(p) => marker' \in [Prompts -> Marker]
  BY Defaults DEF TypeOK, Delete, DeleteSession, PruneStale

\* Prompts reach the invariant with the turn they open.
LEMMA PromptStep ==
  ASSUME IInv, NEW p \in Prompts, SendPrompt(p) \/ SendUnseen(p)
  PROVE  IInv'
<1> USE DEF IInv, TypeOK, Sent, Prompted, user, rules, events
<1>1. turn' \in 1..MaxTurns /\ prompt' \in Prompts
  BY GateAssumption DEF SendPrompt, SendUnseen
<1>2. submit' \in Submit
  BY Defaults DEF SendPrompt, SendUnseen, NoSubmit, Submit
<1>3. claims' \in SUBSET Prompts
  BY DEF SendPrompt, SendUnseen
<1> QED
  BY <1>1, <1>2, <1>3 DEF SendPrompt, SendUnseen

\* The prompt hook keeps the invariant, and writes well formed markers.
LEMMA SubmitStep ==
  ASSUME IInv, PromptHook \/ SubmitTimesOut
  PROVE  IInv'
<1> USE DEF IInv, TypeOK, Sent, Prompted, user, rules, events
<1>1. submit # NoSubmit
  BY DEF PromptHook, Retrieve, Clear, RecordFireEvents, UpdateGateMarker, PruneStaleMarkers,
         Acknowledge, SubmitTimesOut, NoSubmit
<1>2. /\ submit \in [pc : {"retrieve", "clear", "fire", "write", "prune", "ack"},
                     rules : SUBSET Versioned]
      /\ turn \in 1..MaxTurns /\ prompt \in Prompts
  BY <1>1, BusySubmit, GateAssumption
<1>3. ASSUME NEW pc \in {"retrieve", "clear", "fire", "write", "prune", "ack"}
      PROVE  [submit EXCEPT !.pc = pc] \in Submit
  BY <1>2 DEF Submit
<1>4. CASE Retrieve
  <2>1. ASSUME NEW found \in SUBSET Capable
        PROVE  [pc |-> "fire", rules |-> {<<r, version[r]>> : r \in found}] \in Submit
    BY DEF Submit, Versioned, Capable
  <2>2. submit' \in Submit
    BY <1>3, <1>4, <2>1 DEF Retrieve
  <2> QED
    BY <1>2, <1>4, <2>2 DEF Retrieve
<1>5. CASE Clear
  <2>1. submit' \in Submit /\ marker' \in [Prompts -> Marker]
    BY <1>3, <1>5, Defaults, DeletionType DEF Clear
  <2> QED
    BY <1>2, <1>5, <2>1 DEF Clear
<1>6. CASE RecordFireEvents
  <2>1. submit' \in Submit
    BY <1>3, <1>6 DEF RecordFireEvents
  <2>2. fired' \in SUBSET Prompts /\ lastFired' \in Prompts \cup {NoPrompt}
    BY <1>2, <1>6 DEF RecordFireEvents, CreateFireEvents
  <2> QED
    BY <1>2, <1>6, <2>1, <2>2 DEF RecordFireEvents
<1>7. CASE UpdateGateMarker
  <2>1. submit' \in Submit
    BY <1>3, <1>7 DEF UpdateGateMarker
  <2>2. CASE submit.rules # {}
    <3>1. [at |-> turn, rules |-> submit.rules] \in Marker
      BY <1>2, <2>2 DEF Marker
    <3> QED
      BY <1>2, <1>7, <2>1, <2>2, <3>1 DEF UpdateGateMarker
  <2>3. CASE submit.rules = {}
    BY <1>2, <1>7, <2>1, <2>3, DeletionType DEF UpdateGateMarker
  <2> QED
    BY <2>2, <2>3
<1>8. CASE PruneStaleMarkers
  <2>1. submit' \in Submit /\ marker' \in [Prompts -> Marker]
    BY <1>2, <1>3, <1>8, DeletionType DEF PruneStaleMarkers
  <2> QED
    BY <1>2, <1>8, <2>1 DEF PruneStaleMarkers
<1>9. CASE Acknowledge \/ SubmitTimesOut
  BY <1>2, <1>9, Defaults DEF Acknowledge, SubmitTimesOut
<1> QED
  BY <1>4, <1>5, <1>6, <1>7, <1>8, <1>9 DEF PromptHook

\* A call becomes a record of its type, with a prompt once it needs one.
LEMMA CallBecomes ==
  ASSUME IInv, NEW c \in Calls, NEW s \in Call, Becomes(c, s), turn > 0,
         s.pc \in {"deliver", "read", "check", "prune", "consume"} => s.prompt \in Prompts,
         UNCHANGED <<turn, prompt, submit>>
  PROVE  /\ call' \in [Calls -> Call]
         /\ Sent' /\ Prompted'
  BY DEF IInv, TypeOK, Sent, Prompted, Becomes

Resolving(p, m) == [pc |-> "resolve", prompt |-> p, marker |-> m, denies |-> {}]

\* A call that has read the newest marker, or none.
LEMMA ResolvingCall ==
  /\ [NoCall EXCEPT !.pc = "resolve"] = Resolving(NoPrompt, NoMarker)
  /\ \A p, m : [NoCall EXCEPT !.pc = "resolve", !.prompt = p, !.marker = m] = Resolving(p, m)
<1>1. [NoCall EXCEPT !.pc = "resolve"] = Resolving(NoPrompt, NoMarker)
  BY DEF NoCall, Resolving
<1>2. ASSUME NEW p, NEW m
      PROVE  [NoCall EXCEPT !.pc = "resolve", !.prompt = p, !.marker = m] = Resolving(p, m)
  <2>1. [[NoCall EXCEPT !.pc = "resolve"] EXCEPT !.prompt = p] = Resolving(p, NoMarker)
    <3>1. [Resolving(NoPrompt, NoMarker) EXCEPT !.prompt = p] = Resolving(p, NoMarker)
      BY DEF Resolving
    <3> QED
      BY <1>1, <3>1
  <2>2. [Resolving(p, NoMarker) EXCEPT !.marker = m] = Resolving(p, m)
    BY DEF Resolving
  <2> QED
    BY <2>1, <2>2
<1> QED
  BY <1>1, <1>2

\* The hook before a tool call keeps the invariant.
LEMMA CallStep ==
  ASSUME IInv, NEW c \in Calls, BeginCall(c) \/ CallHook(c) \/ CallTimesOut(c)
  PROVE  IInv'
<1> USE DEF IInv, TypeOK, user, rules, events
<1> DEFINE Sound == call' \in [Calls -> Call] /\ Sent' /\ Prompted'
<1>1. turn > 0 /\ turn \in 1..MaxTurns /\ prompt \in Prompts
  <2>1. CASE BeginCall(c)
    BY <2>1, GateAssumption DEF BeginCall, Sent
  <2>2. CASE call[c] # NoCall
    BY <2>2, GateAssumption DEF Sent
  <2>3. CallHook(c) => call[c].pc # "idle"
    BY DEF CallHook, ClaimDeferral, DeferredPass, DeferredDeny, ReadLatestMarker, ResolvePrompt,
           ReadMarker, PassWithoutMarker, CheckEligibility, Consume
  <2>4. CallTimesOut(c) => call[c] # NoCall
    BY DEF CallTimesOut
  <2> QED
    BY <2>1, <2>2, <2>3, <2>4 DEF NoCall
<1>2. /\ call[c] \in [pc : {"idle", "defer", "deliver", "latest", "resolve", "read", "check",
                            "prune", "consume"},
                      prompt : Prompts \cup {NoPrompt}, marker : Marker, denies : SUBSET Rules]
  BY CallRecord
<1>3. ASSUME NEW pc \in {"defer", "deliver", "latest", "resolve", "read", "check", "prune", "consume"},
             NEW p \in Prompts \cup {NoPrompt}, NEW m \in Marker, NEW D \in SUBSET Rules
      PROVE  [pc |-> pc, prompt |-> p, marker |-> m, denies |-> D] \in Call
  BY DEF Call
<1>4. ASSUME NEW pc \in {"defer", "deliver", "latest", "resolve", "read", "check", "prune", "consume"}
      PROVE  /\ [call[c] EXCEPT !.pc = pc] \in Call
             /\ [call[c] EXCEPT !.pc = pc].pc = pc
             /\ [call[c] EXCEPT !.pc = pc].prompt = call[c].prompt
  BY <1>2 DEF Call
<1>5. NoCall \in Call /\ NoCall.pc = "idle"
  BY Defaults DEF NoCall
<1>6. CASE BeginCall(c)
  <2>1. PICK pc \in {"defer", "latest"} : Becomes(c, [call[c] EXCEPT !.pc = pc])
    BY <1>6 DEF BeginCall, Goes, Becomes
  <2>2. Sound
    BY <1>1, <1>4, <1>6, <2>1, CallBecomes DEF BeginCall
  <2> QED
    BY <1>6, <2>2 DEF BeginCall
<1>7. CASE ClaimDeferral(c)
  <2>1. CASE Goes(c, "latest") /\ UNCHANGED deferrals
    <3>1. Becomes(c, [call[c] EXCEPT !.pc = "latest"])
      BY <2>1 DEF Goes, Becomes
    <3>2. Sound
      BY <1>1, <1>4, <1>7, <3>1, CallBecomes DEF ClaimDeferral
    <3> QED
      BY <1>7, <2>1, <3>2 DEF ClaimDeferral
  <2>2. CASE /\ deferrals' = deferrals \cup {<<prompt, turn>>}
             /\ Becomes(c, [call[c] EXCEPT !.pc = "deliver", !.prompt = prompt])
    <3>1. /\ [call[c] EXCEPT !.pc = "deliver", !.prompt = prompt] \in Call
          /\ [call[c] EXCEPT !.pc = "deliver", !.prompt = prompt].prompt = prompt
      BY <1>1, <1>2 DEF Call
    <3>2. Sound
      BY <1>1, <1>7, <2>2, <3>1, CallBecomes DEF ClaimDeferral
    <3>3. deferrals' \in SUBSET (Prompts \X (1..MaxTurns))
      BY <1>1, <2>2
    <3> QED
      BY <1>7, <3>2, <3>3 DEF ClaimDeferral
  <2> QED
    BY <1>7, <2>1, <2>2 DEF ClaimDeferral
<1>8. CASE DeferredPass(c)
  <2>1. Becomes(c, [call[c] EXCEPT !.pc = "latest"])
    BY <1>8 DEF DeferredPass, Goes, Becomes
  <2>2. Sound
    BY <1>1, <1>4, <1>8, <2>1, CallBecomes DEF DeferredPass
  <2> QED
    BY <1>8, <2>2 DEF DeferredPass
<1>9. CASE DeferredDeny(c)
  <2>1. call[c].prompt \in Prompts
    BY <1>9 DEF DeferredDeny, Prompted
  <2>2. Sound
    BY <1>1, <1>5, <1>9, CallBecomes DEF DeferredDeny
  <2>3. fired' \in SUBSET Prompts /\ lastFired' \in Prompts \cup {NoPrompt}
    BY <1>9, <2>1 DEF DeferredDeny, CreateFireEvents
  <2> QED
    BY <1>9, <2>2, <2>3 DEF DeferredDeny
<1>10. CASE ReadLatestMarker(c)
  <2>1. CASE Becomes(c, [NoCall EXCEPT !.pc = "resolve"])
    <3>1. Becomes(c, Resolving(NoPrompt, NoMarker))
      BY <2>1, ResolvingCall
    <3>2. Sound
      BY <1>1, <1>3, <1>10, <3>1, Defaults, CallBecomes DEF ReadLatestMarker, Resolving
    <3> QED
      BY <1>10, <3>2 DEF ReadLatestMarker
  <2>2. ASSUME NEW p \in Prompts,
               Becomes(c, [NoCall EXCEPT !.pc = "resolve", !.prompt = p, !.marker = marker[p]])
        PROVE  IInv'
    <3>1. Becomes(c, Resolving(p, marker[p]))
      BY <2>2, ResolvingCall
    <3>2. Sound
      BY <1>1, <1>3, <1>10, <3>1, CallBecomes DEF ReadLatestMarker, Resolving
    <3> QED
      BY <1>10, <3>2 DEF ReadLatestMarker
  <2> QED
    BY <1>10, <2>1, <2>2 DEF ReadLatestMarker
<1>11. CASE ResolvePrompt(c)
  <2> DEFINE p == call[c].prompt
             resolved == IF p \in fired THEN p ELSE lastFired
  <2>1. CASE resolved = NoPrompt
    <3>1. Sound
      BY <1>1, <1>5, <1>11, <2>1, CallBecomes DEF ResolvePrompt
    <3>2. marker' \in [Prompts -> Marker]
      BY <1>11, <2>1, DeletionType DEF ResolvePrompt
    <3> QED
      BY <1>11, <3>1, <3>2 DEF ResolvePrompt
  <2>2. CASE resolved # NoPrompt
    <3>1. resolved \in Prompts /\ p \in Prompts \cup {NoPrompt}
      BY <1>2, <2>2
    <3>2. marker' \in [Prompts -> Marker]
      BY <1>11, <2>2, <3>1, DeletionType DEF ResolvePrompt
    <3>3. Becomes(c, [pc |-> "read", prompt |-> resolved, marker |-> NoMarker, denies |-> {}])
      BY <1>11, <2>2 DEF ResolvePrompt, Becomes, NoCall
    <3>4. Sound
      BY <1>1, <1>3, <1>11, <3>1, <3>3, Defaults, CallBecomes DEF ResolvePrompt
    <3> QED
      BY <1>11, <3>2, <3>4 DEF ResolvePrompt
  <2> QED
    BY <2>1, <2>2
<1>12. CASE ReadMarker(c)
  <2>1. call[c].prompt \in Prompts
    BY <1>12 DEF ReadMarker, Prompted
  <2>2. CASE Goes(c, "prune")
    <3>1. Becomes(c, [call[c] EXCEPT !.pc = "prune"])
      BY <2>2 DEF Goes, Becomes
    <3>2. Sound
      BY <1>1, <1>4, <1>12, <2>1, <3>1, CallBecomes DEF ReadMarker
    <3> QED
      BY <1>12, <3>2 DEF ReadMarker
  <2>3. ASSUME NEW pc \in {"check", "consume"},
               Becomes(c, [call[c] EXCEPT !.pc = pc, !.marker = marker[call[c].prompt]])
        PROVE  IInv'
    <3>1. /\ [call[c] EXCEPT !.pc = pc, !.marker = marker[call[c].prompt]] \in Call
          /\ [call[c] EXCEPT !.pc = pc, !.marker = marker[call[c].prompt]].prompt = call[c].prompt
      BY <1>2, <2>1 DEF Call
    <3>2. Sound
      BY <1>1, <1>12, <2>1, <2>3, <3>1, CallBecomes DEF ReadMarker
    <3> QED
      BY <1>12, <3>2 DEF ReadMarker
  <2> QED
    BY <1>12, <2>2, <2>3 DEF ReadMarker
<1>13. CASE PassWithoutMarker(c)
  <2>1. call[c].prompt \in Prompts
    BY <1>13 DEF PassWithoutMarker, Prompted
  <2>2. marker' \in [Prompts -> Marker]
    BY <1>13, <2>1, DeletionType DEF PassWithoutMarker
  <2>3. Sound
    BY <1>1, <1>5, <1>13, CallBecomes DEF PassWithoutMarker
  <2> QED
    BY <1>13, <2>2, <2>3 DEF PassWithoutMarker
<1>14. CASE CheckEligibility(c)
  <2>1. PICK about \in SUBSET Eligible(call[c].marker) :
               Becomes(c, [call[c] EXCEPT !.pc = "consume", !.denies = about])
    BY <1>14 DEF CheckEligibility
  <2>2. call[c].prompt \in Prompts
    BY <1>14 DEF CheckEligibility, Prompted
  <2>3. /\ [call[c] EXCEPT !.pc = "consume", !.denies = about] \in Call
        /\ [call[c] EXCEPT !.pc = "consume", !.denies = about].prompt = call[c].prompt
    BY <1>2, <2>1 DEF Call, Eligible
  <2>4. Sound
    BY <1>1, <1>14, <2>1, <2>2, <2>3, CallBecomes DEF CheckEligibility
  <2> QED
    BY <1>14, <2>4 DEF CheckEligibility
<1>15. CASE Consume(c)
  <2>1. call[c].prompt \in Prompts
    BY <1>15 DEF Consume, Prompted
  <2>2. marker' \in [Prompts -> Marker]
    BY <1>15, <2>1, DeletionType DEF Consume
  <2>3. Sound
    BY <1>1, <1>5, <1>15, CallBecomes DEF Consume
  <2> QED
    BY <1>15, <2>2, <2>3 DEF Consume
<1>16. CASE CallTimesOut(c)
  <2>1. Sound
    BY <1>1, <1>5, <1>16, CallBecomes DEF CallTimesOut
  <2> QED
    BY <1>16, <2>1 DEF CallTimesOut
<1> QED
  BY <1>6, <1>7, <1>8, <1>9, <1>10, <1>11, <1>12, <1>13, <1>14, <1>15, <1>16 DEF CallHook

\* A dismissal keeps the invariant: what it writes back has a rule left.
LEMMA DismissalStep ==
  ASSUME IInv, NEW d \in Dismissals,
         Stripping(d) \/ \E r \in Rules : Dismiss(d, r)
  PROVE  IInv'
<1> USE DEF IInv, TypeOK, Sent, Prompted, user, rules, events
<1>1. dismissal[d] \in [rules : SUBSET Rules, left : SUBSET Prompts,
                        prompt : Prompts \cup {NoPrompt}, marker : Marker]
  BY DEF Dismissal
<1>2. ASSUME NEW r \in Rules, Dismiss(d, r) PROVE IInv'
  <2>1. ASSUME NEW left \in {{}, Prompts}
        PROVE  [NoDismissal EXCEPT !.rules = {r}, !.left = left] \in Dismissal
    BY Defaults DEF NoDismissal, Dismissal
  <2>2. PICK left \in {{}, Prompts} :
               dismissal' = [dismissal EXCEPT ![d] =
                 IF left = {} THEN NoDismissal ELSE [NoDismissal EXCEPT !.rules = {r}, !.left = left]]
    BY <1>2 DEF Dismiss
  <2>3. dismissal' \in [Dismissals -> Dismissal]
    BY <2>1, <2>2, Defaults
  <2>4. status' \in [Rules -> {"capable", "other", "archived"}]
    BY <1>2 DEF Dismiss
  <2> QED
    BY <1>2, <2>3, <2>4 DEF Dismiss
<1>3. ASSUME NEW p \in Prompts, LoadMarker(d, p) PROVE IInv'
  <2>1. /\ [dismissal[d] EXCEPT !.left = @ \ {p}, !.prompt = p, !.marker = marker[p]] \in Dismissal
        /\ [dismissal[d] EXCEPT !.left = @ \ {p}] \in Dismissal
    BY <1>1 DEF Dismissal
  <2>2. dismissal' \in [Dismissals -> Dismissal]
    BY <1>3, <2>1, Defaults DEF LoadMarker
  <2> QED
    BY <1>3, <2>2 DEF LoadMarker
<1>4. CASE RewriteMarker(d)
  <2> DEFINE strip == dismissal[d]
             kept == {entry \in strip.marker.rules : entry[1] \notin strip.rules}
  <2>1. strip.prompt \in Prompts
    BY <1>1, <1>4 DEF RewriteMarker
  <2>2. ASSUME kept # {} PROVE [strip.marker EXCEPT !.rules = kept] \in Marker
    <3>1. strip.marker \in [at : 1..MaxTurns, rules : (SUBSET Versioned) \ {{}}]
      BY <1>1, <2>2, PresentMarker DEF NoMarker
    <3> QED
      BY <2>2, <3>1 DEF Marker
  <2>3. marker' \in [Prompts -> Marker]
    BY <1>4, <2>1, <2>2, Defaults DEF RewriteMarker
  <2>4. [strip EXCEPT !.prompt = NoPrompt, !.marker = NoMarker] \in Dismissal
    BY <1>1, Defaults DEF Dismissal
  <2>5. dismissal' \in [Dismissals -> Dismissal]
    BY <1>4, <2>4, Defaults DEF RewriteMarker
  <2> QED
    BY <1>4, <2>3, <2>5 DEF RewriteMarker
<1> QED
  BY <1>2, <1>3, <1>4 DEF Stripping

\* The first state satisfies the invariant.
LEMMA InitIInv == Init => IInv
<1> SUFFICES ASSUME Init PROVE IInv
  OBVIOUS
<1>1. turn \in 0..MaxTurns /\ \A r \in Rules : version[r] \in 1..MaxVersion
  BY GateAssumption DEF Init
<1>2. TypeOK
  BY <1>1, Defaults DEF Init, TypeOK
<1>3. Sent
  BY DEF Init, Sent
<1>4. Prompted
  BY DEF Init, Prompted, NoCall
<1> QED
  BY <1>2, <1>3, <1>4 DEF IInv

\* Every step preserves the invariant.
LEMMA StepIInv ==
  ASSUME IInv, [Next]_vars
  PROVE  IInv'
<1>1. ASSUME NEW r \in Rules, Evolve(r) PROVE IInv'
  <2>1. version' \in [Rules -> 1..MaxVersion]
    BY <1>1, GateAssumption DEF Evolve, IInv, TypeOK
  <2>2. status' \in [Rules -> {"capable", "other", "archived"}]
    BY <1>1 DEF Evolve, IInv, TypeOK
  <2> QED
    BY <1>1, <2>1, <2>2 DEF Evolve, IInv, TypeOK, Sent, Prompted, user, events
<1>2. CASE PruneStaleClaims
  BY <1>2 DEF PruneStaleClaims, IInv, TypeOK, Sent, Prompted, rules, events
<1>3. CASE UNCHANGED vars
  BY <1>3 DEF vars, IInv, TypeOK, Sent, Prompted
<1> QED
  BY <1>1, <1>2, <1>3, PromptStep, SubmitStep, CallStep, DismissalStep DEF Next

\* Every file, row and value a hook carries keeps its type; in particular no
\* marker without rules is ever on disk (marker.py).
THEOREM TypeCorrect == HistorySpec => []TypeOK
<1>1. HistoryInit => IInv
  BY InitIInv DEF HistoryInit
<1>2. IInv /\ [HistoryNext]_<<vars, history>> => IInv'
  BY StepIInv DEF HistoryNext
<1>3. IInv => TypeOK
  BY DEF IInv
<1> QED
  BY <1>1, <1>2, <1>3, PTL DEF HistorySpec

-----------------------------------------------------------------------------
(* Dismissed rules                                                         *)

\* An archived rule stays archived.
LEMMA ArchivedStays ==
  ASSUME TypeOK, [Next]_vars
  PROVE  Archived \subseteq Archived'
<1>1. ASSUME NEW r \in Rules, NEW d \in Dismissals, Dismiss(d, r) PROVE Archived \subseteq Archived'
  BY <1>1 DEF Dismiss, Archived, TypeOK
<1>2. ASSUME NEW r \in Rules, Evolve(r) PROVE Archived \subseteq Archived'
  BY <1>2 DEF Evolve, Archived, TypeOK
<1>3. CASE UNCHANGED status
  BY <1>3 DEF Archived
<1> QED
  BY <1>1, <1>2, <1>3
     DEF Next, vars, rules, SendPrompt, SendUnseen, PruneStaleClaims, PromptHook, Retrieve, Clear,
         RecordFireEvents, UpdateGateMarker, PruneStaleMarkers, Acknowledge, SubmitTimesOut,
         BeginCall, CallHook, ClaimDeferral, DeferredPass, DeferredDeny, ReadLatestMarker,
         ResolvePrompt, ReadMarker, PassWithoutMarker, CheckEligibility, Consume, CallTimesOut,
         Stripping, RewriteMarker, LoadMarker

\* What a call denies for changes when it checks the rows, and when it ends.
LEMMA DenialsAreChecked ==
  ASSUME TypeOK, [Next]_vars, NEW c \in Calls
  PROVE  \/ call'[c].denies \subseteq call[c].denies
         \/ call'[c].denies \subseteq Rules \ Archived
<1> DEFINE Good == \/ call'[c].denies \subseteq call[c].denies
                   \/ call'[c].denies \subseteq Rules \ Archived
<1> USE DEF TypeOK
<1>1. call[c] \in [pc : {"idle", "defer", "deliver", "latest", "resolve", "read", "check", "prune",
                         "consume"},
                   prompt : Prompts \cup {NoPrompt}, marker : Marker, denies : SUBSET Rules]
  BY CallRecord
<1>2. CASE UNCHANGED call
  BY <1>2
<1>3. ASSUME NEW x \in Calls, NEW s \in {NoCall} \cup [pc : {"resolve", "read"},
                     prompt : Prompts \cup {NoPrompt}, marker : Marker, denies : {{}}],
             Becomes(x, s)
      PROVE  Good
  <2>1. s.denies = {}
    BY DEF NoCall
  <2>2. call'[c] = s \/ call'[c] = call[c]
    BY <1>3 DEF Becomes
  <2> QED
    BY <2>1, <2>2
<1>4. ASSUME NEW x \in Calls, call'[c] = call[c] \/ (x = c /\ call'[c].denies = call[c].denies)
      PROVE  Good
  BY <1>4
<1>5. ASSUME NEW x \in Calls, NEW pc, Goes(x, pc) PROVE Good
  BY <1>1, <1>5 DEF Goes
<1>6. ASSUME NEW x \in Calls, CheckEligibility(x) PROVE Good
  <2>1. PICK about \in SUBSET Eligible(call[x].marker) :
               call' = [call EXCEPT ![x] = [call[x] EXCEPT !.pc = "consume", !.denies = about]]
    BY <1>6 DEF CheckEligibility, Becomes
  <2>2. about \subseteq Rules \ Archived
    BY DEF Eligible, Archived
  <2> QED
    BY <1>1, <2>1, <2>2
<1>7. ASSUME NEW x \in Calls, ClaimDeferral(x) PROVE Good
  <2>1. CASE Goes(x, "latest")
    BY <1>5, <2>1
  <2>2. CASE Becomes(x, [call[x] EXCEPT !.pc = "deliver", !.prompt = prompt])
    BY <1>1, <2>2 DEF Becomes
  <2> QED
    BY <1>7, <2>1, <2>2 DEF ClaimDeferral
<1>8. ASSUME NEW x \in Calls, ReadMarker(x) PROVE Good
  <2>1. CASE Goes(x, "prune")
    BY <1>5, <2>1
  <2>2. ASSUME NEW pc, Becomes(x, [call[x] EXCEPT !.pc = pc, !.marker = marker[call[x].prompt]])
        PROVE  Good
    BY <1>1, <2>2 DEF Becomes
  <2> QED
    BY <1>8, <2>1, <2>2 DEF ReadMarker
<1>9. ASSUME NEW x \in Calls, ReadLatestMarker(x) PROVE Good
  <2>1. CASE Becomes(x, [NoCall EXCEPT !.pc = "resolve"])
    BY <2>1 DEF Becomes, NoCall
  <2>2. ASSUME NEW p \in Prompts,
               Becomes(x, [NoCall EXCEPT !.pc = "resolve", !.prompt = p, !.marker = marker[p]])
        PROVE  Good
    BY <2>2 DEF Becomes, NoCall
  <2> QED
    BY <1>9, <2>1, <2>2 DEF ReadLatestMarker
<1>10. ASSUME NEW x \in Calls, ResolvePrompt(x) PROVE Good
  <2>1. CASE Becomes(x, NoCall)
    BY <1>3, <2>1
  <2>2. ASSUME NEW p, Becomes(x, [NoCall EXCEPT !.pc = "read", !.prompt = p])
        PROVE  Good
    BY <2>2 DEF Becomes, NoCall
  <2> QED
    BY <1>10, <2>1, <2>2 DEF ResolvePrompt
<1>11. ASSUME NEW x \in Calls,
              DeferredDeny(x) \/ PassWithoutMarker(x) \/ Consume(x) \/ CallTimesOut(x)
       PROVE  Good
  BY <1>3, <1>11 DEF DeferredDeny, PassWithoutMarker, Consume, CallTimesOut
<1>12. ASSUME NEW x \in Calls, BeginCall(x) \/ DeferredPass(x) PROVE Good
  BY <1>5, <1>12 DEF BeginCall, DeferredPass
<1>13. (\E x \in Calls : BeginCall(x) \/ CallHook(x) \/ CallTimesOut(x)) => Good
  BY <1>6, <1>7, <1>8, <1>9, <1>10, <1>11, <1>12 DEF CallHook
<1> QED
  BY <1>2, <1>13
     DEF Next, vars, SendPrompt, SendUnseen, PruneStaleClaims, PromptHook, Retrieve, Clear,
         RecordFireEvents, UpdateGateMarker, PruneStaleMarkers, Acknowledge, SubmitTimesOut,
         Stripping, RewriteMarker, LoadMarker, Dismiss, Evolve

\* What a call spares at its beginning it spares until it ends.
LEMMA SpareStep ==
  ASSUME TypeOK, SpareArchived, [HistoryNext]_<<vars, history>>
  PROVE  SpareArchived'
<1>1. [Next]_vars
  BY DEF HistoryNext, vars
<1>2. Archived \subseteq Archived'
  BY <1>1, ArchivedStays
<1> SUFFICES ASSUME NEW c \in Calls
             PROVE  /\ before'[c].archived \subseteq Archived'
                    /\ call'[c].denies \cap before'[c].archived = {}
  BY DEF SpareArchived
<1>3. CASE before'[c] = before[c]
  BY <1>1, <1>2, <1>3, DenialsAreChecked DEF SpareArchived
<1>4. CASE before'[c] = [opened |-> {}, archived |-> {}, turn |-> 0]
  BY <1>4
<1>5. CASE BeginCall(c) /\ before'[c] = [opened |-> opened, archived |-> Archived, turn |-> turn]
  <2>1. call'[c].denies = {}
    BY <1>5 DEF BeginCall, Goes, NoCall, TypeOK
  <2> QED
    BY <1>2, <1>5, <2>1
<1> QED
  BY <1>3, <1>4, <1>5 DEF HistoryNext, Remembers, history

\* A rule that was dismissed before a call began never denies it, whatever
\* brings it back into a marker in the meantime (gate/engine.py:187).
THEOREM DismissedIsSpared == HistorySpec => DismissedNeverDenies
<1>1. HistoryInit => SpareArchived
  BY DEF HistoryInit, Init, SpareArchived, NoCall
<1>2. SpareArchived /\ [HistoryNext]_<<vars, history>> =>
        [\A c \in Calls : Denied(c) => call[c].denies \cap before[c].archived = {}]_vars
  BY DEF SpareArchived
<1>3. TypeOK /\ SpareArchived /\ [HistoryNext]_<<vars, history>> => SpareArchived'
  BY SpareStep
<1> QED
  BY <1>1, <1>2, <1>3, TypeCorrect, PTL DEF HistorySpec, DismissedNeverDenies
-----------------------------------------------------------------------------
(* One denial per marker                                                   *)

\* Someone holds the marker of turn t of a prompt: the disk, a call that has
\* read it, or a dismissal that has loaded it.
CallHolds(c, p, t) ==
  call[c].pc \in {"check", "consume"} /\ call[c].prompt = p /\ call[c].marker.at = t
DismissalHolds(d, p, t) == dismissal[d].prompt = p /\ dismissal[d].marker.at = t
Held(p, t) ==
  \/ marker[p].at = t
  \/ \E c \in Calls : CallHolds(c, p, t)
  \/ \E d \in Dismissals : DismissalHolds(d, p, t)

\* The prompt hook has not written the marker of its turn yet.
Writing == submit.pc \in {"retrieve", "clear", "fire", "write"}

\* The marker of a turn is held for one prompt only, the one sent in that turn,
\* and after the prompt hook has written it.
OneHolder ==
  /\ \A p \in Prompts, t \in 1..MaxTurns :
       Held(p, t) => /\ t <= turn
                     /\ t = turn => p = prompt /\ ~Writing
                     /\ \A q \in Prompts : Held(q, t) => p = q
  /\ opened \subseteq 0..turn /\ (Writing => turn \notin opened)

\* A marker that has denied a call is not on disk any more, nor has a call got
\* hold of it that began later, unless a dismissal has written it back.
SpentIsGone ==
  /\ \A p \in Prompts : marker[p] # NoMarker /\ marker[p].at \in opened => marker[p].at \in rewritten
  /\ \A c \in Calls :
       /\ before[c].opened \subseteq opened
       /\ call[c].pc \in {"check", "consume"} /\ call[c].marker.at \in before[c].opened =>
            call[c].marker.at \in rewritten

\* What the hooks and the dismissals leave alone.
LEMMA CallTouches ==
  ASSUME NEW c \in Calls, BeginCall(c) \/ CallHook(c) \/ CallTimesOut(c)
  PROVE  UNCHANGED <<turn, prompt, submit, dismissal>>
<1>1. CASE BeginCall(c) \/ ClaimDeferral(c) \/ DeferredPass(c) \/ DeferredDeny(c)
  BY <1>1 DEF BeginCall, ClaimDeferral, DeferredPass, DeferredDeny, user
<1>2. CASE ReadLatestMarker(c) \/ ReadMarker(c) \/ PassWithoutMarker(c) \/ CheckEligibility(c)
  BY <1>2 DEF ReadLatestMarker, ReadMarker, PassWithoutMarker, CheckEligibility, user
<1>3. CASE ResolvePrompt(c) \/ Consume(c) \/ CallTimesOut(c)
  BY <1>3 DEF ResolvePrompt, Consume, CallTimesOut, user
<1> QED
  BY <1>1, <1>2, <1>3 DEF CallHook

\* A dismissal writes rules and markers, and nothing of the turn or of the calls.
LEMMA DismissalTouches ==
  ASSUME NEW d \in Dismissals, Stripping(d) \/ \E r \in Rules : Dismiss(d, r)
  PROVE  UNCHANGED <<turn, prompt, submit, call>>
<1>1. ASSUME NEW r \in Rules, Dismiss(d, r) PROVE UNCHANGED <<turn, prompt, submit, call>>
  BY <1>1 DEF Dismiss, user
<1>2. ASSUME NEW p \in Prompts, LoadMarker(d, p) PROVE UNCHANGED <<turn, prompt, submit, call>>
  BY <1>2 DEF LoadMarker, user
<1>3. CASE RewriteMarker(d)
  BY <1>3 DEF RewriteMarker, user
<1> QED
  BY <1>1, <1>2, <1>3 DEF Stripping

\* The prompt hook leaves the turn, the calls and the dismissals alone.
LEMMA PromptTouches ==
  ASSUME PromptHook \/ SubmitTimesOut
  PROVE  submit # NoSubmit /\ UNCHANGED <<turn, prompt, call, dismissal>>
  BY DEF PromptHook, Retrieve, Clear, RecordFireEvents, UpdateGateMarker, PruneStaleMarkers,
         Acknowledge, SubmitTimesOut, NoSubmit, user

\* The steps by what they may touch.
LEMMA Steps ==
  ASSUME [Next]_vars
  PROVE  \/ turn' = turn + 1 /\ UNCHANGED <<marker, call, dismissal>>
         \/ PromptHook \/ SubmitTimesOut
         \/ \E c \in Calls : BeginCall(c) \/ CallHook(c) \/ CallTimesOut(c)
         \/ \E d \in Dismissals : Stripping(d) \/ \E r \in Rules : Dismiss(d, r)
         \/ UNCHANGED <<turn, prompt, submit, marker, call, dismissal>>
<1>1. ASSUME NEW p \in Prompts, SendPrompt(p) \/ SendUnseen(p)
      PROVE  turn' = turn + 1 /\ UNCHANGED <<marker, call, dismissal>>
  BY <1>1 DEF SendPrompt, SendUnseen
<1>2. ASSUME NEW r \in Rules, Evolve(r)
      PROVE  UNCHANGED <<turn, prompt, submit, marker, call, dismissal>>
  BY <1>2 DEF Evolve, user
<1>3. CASE PruneStaleClaims \/ UNCHANGED vars
  BY <1>3 DEF PruneStaleClaims, vars
<1> QED
  BY <1>1, <1>2, <1>3 DEF Next

\* Turns pass only with prompts, and only a prompt starts to write a marker.
LEMMA TurnStep ==
  ASSUME IInv, [Next]_vars
  PROVE  \/ turn' = turn /\ prompt' = prompt /\ (Writing' => Writing)
         \/ turn' = turn + 1 /\ UNCHANGED <<marker, call, dismissal>>
<1> USE DEF Writing
<1>1. CASE PromptHook \/ SubmitTimesOut
  <2>1. submit # NoSubmit /\ UNCHANGED <<turn, prompt>>
    BY <1>1, PromptTouches
  <2>2. submit \in [pc : {"retrieve", "clear", "fire", "write", "prune", "ack"}, rules : SUBSET Versioned]
    BY <2>1, BusySubmit DEF IInv, TypeOK
  <2>3. Writing' => Writing
    BY <1>1, <2>2 DEF PromptHook, Retrieve, Clear, RecordFireEvents, UpdateGateMarker,
                      PruneStaleMarkers, Acknowledge, SubmitTimesOut, NoSubmit
  <2> QED
    BY <2>1, <2>3
<1> QED
  BY <1>1, Steps, CallTouches, DismissalTouches

\* A marker appears by the prompt hook of its turn, or by a dismissal that had
\* loaded it.
LEMMA MarkerStep ==
  ASSUME IInv, [Next]_vars, NEW p \in Prompts
  PROVE  \/ marker'[p] \in {marker[p], NoMarker}
         \/ submit.pc = "write" /\ p = prompt /\ marker'[p].at = turn
              /\ UNCHANGED <<turn, prompt, call, dismissal>> /\ ~Writing'
         \/ \E d \in Dismissals : RewriteMarker(d) /\ DismissalHolds(d, p, marker'[p].at)
<1> DEFINE Good == \/ marker'[p] \in {marker[p], NoMarker}
                   \/ submit.pc = "write" /\ p = prompt /\ marker'[p].at = turn
                        /\ UNCHANGED <<turn, prompt, call, dismissal>> /\ ~Writing'
                   \/ \E d \in Dismissals : RewriteMarker(d) /\ DismissalHolds(d, p, marker'[p].at)
<1> USE DEF IInv, TypeOK
<1>1. ASSUME NEW q \in Prompts \cup {NoPrompt}, Delete(q) \/ DeleteSession \/ PruneStale(q) PROVE Good
  BY <1>1 DEF Delete, DeleteSession, PruneStale
<1>2. CASE UpdateGateMarker
  <2>1. submit \in [pc : {"retrieve", "clear", "fire", "write", "prune", "ack"}, rules : SUBSET Versioned]
    BY <1>2, BusySubmit DEF UpdateGateMarker, NoSubmit
  <2>2. CASE submit.rules # {}
    <3>1. marker' = [marker EXCEPT ![prompt] = [at |-> turn, rules |-> submit.rules]]
      BY <1>2, <2>2 DEF UpdateGateMarker
    <3>2. ~Writing'
      BY <1>2, <2>1, <2>2 DEF UpdateGateMarker, Writing
    <3>3. marker'[p] = marker[p] \/ (p = prompt /\ marker'[p].at = turn)
      BY <3>1
    <3> QED
      BY <1>2, <3>2, <3>3 DEF UpdateGateMarker, user
  <2>3. CASE submit.rules = {}
    BY <1>1, <1>2, <2>3 DEF UpdateGateMarker
  <2> QED
    BY <2>2, <2>3
<1>3. ASSUME NEW d \in Dismissals, RewriteMarker(d) PROVE Good
  <2> DEFINE strip == dismissal[d]
             kept == {entry \in strip.marker.rules : entry[1] \notin strip.rules}
  <2>1. strip \in [rules : SUBSET Rules, left : SUBSET Prompts,
                   prompt : Prompts \cup {NoPrompt}, marker : Marker]
    BY DEF Dismissal
  <2>2. marker' = [marker EXCEPT ![strip.prompt] =
                     IF kept = {} THEN NoMarker ELSE [strip.marker EXCEPT !.rules = kept]]
    BY <1>3 DEF RewriteMarker
  <2>3. CASE p = strip.prompt /\ kept # {}
    <3>1. strip.marker \in [at : 1..MaxTurns, rules : (SUBSET Versioned) \ {{}}]
      BY <2>1, <2>3, PresentMarker DEF NoMarker
    <3>2. marker'[p].at = strip.marker.at
      BY <2>2, <2>3, <3>1
    <3> QED
      BY <1>3, <2>3, <3>2 DEF DismissalHolds
  <2>4. CASE p # strip.prompt \/ kept = {}
    BY <2>2, <2>4
  <2> QED
    BY <2>3, <2>4
<1>4. CASE PromptHook \/ SubmitTimesOut
  <2>1. submit # NoSubmit
    BY <1>4 DEF PromptHook, Retrieve, Clear, RecordFireEvents, UpdateGateMarker, PruneStaleMarkers,
                Acknowledge, SubmitTimesOut, NoSubmit
  <2> QED
    BY <1>1, <1>2, <1>4 DEF PromptHook, Retrieve, Clear, RecordFireEvents, PruneStaleMarkers,
                            Acknowledge, SubmitTimesOut
<1>5. ASSUME NEW x \in Calls, BeginCall(x) \/ CallHook(x) \/ CallTimesOut(x) PROVE Good
  <2>1. call[x].prompt \in Prompts \cup {NoPrompt}
    BY CallRecord
  <2>2. CASE ResolvePrompt(x) \/ PassWithoutMarker(x) \/ Consume(x)
    BY <1>1, <2>1, <2>2 DEF ResolvePrompt, PassWithoutMarker, Consume
  <2>3. CASE BeginCall(x) \/ ClaimDeferral(x) \/ DeferredPass(x) \/ DeferredDeny(x)
    BY <2>3 DEF BeginCall, ClaimDeferral, DeferredPass, DeferredDeny
  <2>4. CASE ReadLatestMarker(x) \/ ReadMarker(x) \/ CheckEligibility(x) \/ CallTimesOut(x)
    BY <2>4 DEF ReadLatestMarker, ReadMarker, CheckEligibility, CallTimesOut
  <2> QED
    BY <1>5, <2>2, <2>3, <2>4 DEF CallHook
<1>6. ASSUME NEW d \in Dismissals, Stripping(d) \/ \E r \in Rules : Dismiss(d, r) PROVE Good
  <2>1. ASSUME NEW r \in Rules, Dismiss(d, r) PROVE marker' = marker
    BY <2>1 DEF Dismiss
  <2>2. ASSUME NEW q \in Prompts, LoadMarker(d, q) PROVE marker' = marker
    BY <2>2 DEF LoadMarker
  <2> QED
    BY <1>3, <1>6, <2>1, <2>2 DEF Stripping
<1> QED
  BY <1>4, <1>5, <1>6, Steps

\* A call gets hold of a marker by reading it from the disk.
LEMMA CallHoldsStep ==
  ASSUME IInv, [Next]_vars, NEW c \in Calls, call'[c].pc \in {"check", "consume"}
  PROVE  /\ call'[c].prompt = call[c].prompt
         /\ \/ call[c].pc \in {"check", "consume"} /\ call'[c].marker = call[c].marker
            \/ ReadMarker(c) /\ call[c].prompt \in Prompts
                 /\ marker[call[c].prompt] # NoMarker /\ call'[c].marker = marker[call[c].prompt]
<1> DEFINE Good == /\ call'[c].prompt = call[c].prompt
                   /\ \/ call[c].pc \in {"check", "consume"} /\ call'[c].marker = call[c].marker
                      \/ ReadMarker(c) /\ call[c].prompt \in Prompts
                           /\ marker[call[c].prompt] # NoMarker
                           /\ call'[c].marker = marker[call[c].prompt]
<1> USE DEF IInv, TypeOK
<1>1. call[c] \in [pc : {"idle", "defer", "deliver", "latest", "resolve", "read", "check", "prune",
                         "consume"},
                   prompt : Prompts \cup {NoPrompt}, marker : Marker, denies : SUBSET Rules]
  BY CallRecord
<1>2. CASE call'[c] = call[c]
  BY <1>2
<1>3. ASSUME NEW x \in Calls, NEW s, Becomes(x, s), s.pc \notin {"check", "consume"} PROVE Good
  BY <1>2, <1>3 DEF Becomes
<1>4. ASSUME NEW x \in Calls, NEW pc \in {"defer", "latest", "prune"}, Goes(x, pc) PROVE Good
  BY <1>1, <1>2, <1>4 DEF Goes
<1>5. ASSUME NEW x \in Calls, CheckEligibility(x) PROVE Good
  <2>1. PICK about \in SUBSET Eligible(call[x].marker) :
               Becomes(x, [call[x] EXCEPT !.pc = "consume", !.denies = about])
    BY <1>5 DEF CheckEligibility
  <2>2. call[x].pc = "check"
    BY <1>5 DEF CheckEligibility
  <2> QED
    BY <1>1, <1>2, <2>1, <2>2 DEF Becomes
<1>6. ASSUME NEW x \in Calls, ClaimDeferral(x) PROVE Good
  <2>1. CASE Goes(x, "latest")
    BY <1>4, <2>1
  <2>2. CASE Becomes(x, [call[x] EXCEPT !.pc = "deliver", !.prompt = prompt])
    BY <1>1, <1>2, <2>2 DEF Becomes
  <2> QED
    BY <1>6, <2>1, <2>2 DEF ClaimDeferral
<1>7. ASSUME NEW x \in Calls, ReadMarker(x) PROVE Good
  <2>1. CASE Goes(x, "prune")
    BY <1>4, <2>1
  <2>2. ASSUME NEW pc, marker[call[x].prompt] # NoMarker,
               Becomes(x, [call[x] EXCEPT !.pc = pc, !.marker = marker[call[x].prompt]])
        PROVE  Good
    <3>1. call[x].prompt \in Prompts
      BY <1>7 DEF ReadMarker, Prompted
    <3> QED
      BY <1>1, <1>2, <1>7, <2>2, <3>1 DEF Becomes
  <2> QED
    BY <1>7, <2>1, <2>2 DEF ReadMarker
<1>8. ASSUME NEW x \in Calls, ReadLatestMarker(x) PROVE Good
  <2>1. CASE Becomes(x, [NoCall EXCEPT !.pc = "resolve"])
    <3>1. [NoCall EXCEPT !.pc = "resolve"].pc = "resolve"
      BY DEF NoCall
    <3> QED
      BY <1>3, <2>1, <3>1
  <2>2. ASSUME NEW p \in Prompts,
               Becomes(x, [NoCall EXCEPT !.pc = "resolve", !.prompt = p, !.marker = marker[p]])
        PROVE  Good
    <3>1. [NoCall EXCEPT !.pc = "resolve", !.prompt = p, !.marker = marker[p]].pc = "resolve"
      BY ResolvingCall DEF Resolving
    <3> QED
      BY <1>3, <2>2, <3>1
  <2> QED
    BY <1>8, <2>1, <2>2 DEF ReadLatestMarker
<1>9. ASSUME NEW x \in Calls, ResolvePrompt(x) PROVE Good
  <2>1. CASE Becomes(x, NoCall)
    BY <1>3, <2>1 DEF NoCall
  <2>2. ASSUME NEW p, Becomes(x, [NoCall EXCEPT !.pc = "read", !.prompt = p]) PROVE Good
    <3>1. [NoCall EXCEPT !.pc = "read", !.prompt = p].pc = "read"
      BY DEF NoCall
    <3> QED
      BY <1>3, <2>2, <3>1
  <2> QED
    BY <1>9, <2>1, <2>2 DEF ResolvePrompt
<1>10. ASSUME NEW x \in Calls,
              DeferredDeny(x) \/ PassWithoutMarker(x) \/ Consume(x) \/ CallTimesOut(x)
       PROVE  Good
  BY <1>3, <1>10 DEF DeferredDeny, PassWithoutMarker, Consume, CallTimesOut, NoCall
<1>11. ASSUME NEW x \in Calls, BeginCall(x) \/ DeferredPass(x) PROVE Good
  BY <1>4, <1>11 DEF BeginCall, DeferredPass
<1>12. (\E x \in Calls : BeginCall(x) \/ CallHook(x) \/ CallTimesOut(x)) => Good
  BY <1>5, <1>6, <1>7, <1>8, <1>9, <1>10, <1>11 DEF CallHook
<1> QED
  BY <1>2, <1>12, Steps, PromptTouches, DismissalTouches

\* A dismissal gets hold of a marker by loading it from the disk.
LEMMA DismissalHoldsStep ==
  ASSUME IInv, [Next]_vars, NEW d \in Dismissals, NEW p \in Prompts, NEW t,
         DismissalHolds(d, p, t)'
  PROVE  DismissalHolds(d, p, t) \/ marker[p].at = t
<1> USE DEF IInv, TypeOK, DismissalHolds
<1>1. dismissal[d] \in [rules : SUBSET Rules, left : SUBSET Prompts,
                        prompt : Prompts \cup {NoPrompt}, marker : Marker]
  BY DEF Dismissal
<1>2. CASE dismissal'[d] = dismissal[d]
  BY <1>2
<1>3. CASE dismissal'[d].prompt = NoPrompt
  BY <1>3, GateAssumption
<1>4. ASSUME NEW x \in Dismissals, NEW r \in Rules, Dismiss(x, r)
      PROVE  dismissal'[d] = dismissal[d] \/ dismissal'[d].prompt = NoPrompt
  BY <1>4 DEF Dismiss, NoDismissal
<1>5. ASSUME NEW x \in Dismissals, RewriteMarker(x)
      PROVE  dismissal'[d] = dismissal[d] \/ dismissal'[d].prompt = NoPrompt
  BY <1>1, <1>5 DEF RewriteMarker, NoDismissal
<1>6. ASSUME NEW x \in Dismissals, NEW q \in Prompts, LoadMarker(x, q)
      PROVE  \/ dismissal'[d] = dismissal[d] \/ dismissal'[d].prompt = NoPrompt
             \/ dismissal'[d].prompt = q /\ dismissal'[d].marker = marker[q]
  BY <1>1, <1>6 DEF LoadMarker, NoDismissal
<1>7. ASSUME NEW x \in Dismissals, Stripping(x) \/ \E r \in Rules : Dismiss(x, r)
      PROVE  \/ dismissal'[d] = dismissal[d] \/ dismissal'[d].prompt = NoPrompt
             \/ \E q \in Prompts : dismissal'[d].prompt = q /\ dismissal'[d].marker = marker[q]
  BY <1>4, <1>5, <1>6, <1>7 DEF Stripping
<1>8. \/ dismissal'[d] = dismissal[d] \/ dismissal'[d].prompt = NoPrompt
      \/ \E q \in Prompts : dismissal'[d].prompt = q /\ dismissal'[d].marker = marker[q]
  BY <1>7, Steps, PromptTouches, CallTouches
<1> QED
  BY <1>2, <1>3, <1>8

\* Nobody gets hold of an older marker than those that are held, but for the
\* one that the prompt hook of the turn writes.
LEMMA HeldStep ==
  ASSUME IInv, [Next]_vars, NEW p \in Prompts, NEW t \in 1..MaxTurns, Held(p, t)'
  PROVE  \/ Held(p, t)
         \/ submit.pc = "write" /\ p = prompt /\ t = turn
              /\ UNCHANGED <<turn, prompt>> /\ ~Writing'
<1> USE GateAssumption
<1>1. CASE marker'[p].at = t
  <2>1. NoMarker.at # t
    BY DEF NoMarker
  <2> QED
    BY <1>1, <2>1, MarkerStep DEF Held
<1>2. ASSUME NEW c \in Calls, CallHolds(c, p, t)' PROVE Held(p, t)
  BY <1>2, CallHoldsStep DEF CallHolds, Held
<1>3. ASSUME NEW d \in Dismissals, DismissalHolds(d, p, t)' PROVE Held(p, t)
  BY <1>3, DismissalHoldsStep DEF Held
<1> QED
  BY <1>1, <1>2, <1>3 DEF Held

\* A denial ends a call that holds its marker, and takes it off the disk.
LEMMA DenialStep ==
  ASSUME IInv, NEW c \in Calls, Denied(c)
  PROVE  /\ call[c].prompt \in Prompts /\ call[c].marker.at \in 0..MaxTurns
         /\ CallHolds(c, call[c].prompt, call[c].marker.at)
         /\ \A p \in Prompts :
              marker'[p] = IF p = call[c].prompt THEN NoMarker ELSE marker[p]
         /\ UNCHANGED <<turn, submit>> /\ call'[c] = NoCall
<1> USE DEF IInv, TypeOK
<1>1. call[c].pc = "consume" /\ call[c].prompt \in Prompts
  BY DEF Denied, Consume, Prompted
<1>2. call[c].marker \in Marker
  BY CallRecord
<1>3. call[c].marker.at \in 0..MaxTurns
  BY <1>2, GateAssumption DEF Marker, NoMarker
<1>4. /\ marker' = [marker EXCEPT ![call[c].prompt] = NoMarker]
      /\ call' = [call EXCEPT ![c] = NoCall] /\ UNCHANGED <<turn, submit>>
  BY DEF Denied, Consume, Delete, Becomes, user
<1> QED
  BY <1>1, <1>3, <1>4 DEF CallHolds

\* What the history adds to the markers that have denied.
LEMMA OpenedStep ==
  ASSUME [HistoryNext]_<<vars, history>>, NEW t \in opened' \ opened
  PROVE  \E c \in Calls : Denied(c) /\ t = call[c].marker.at
  BY DEF HistoryNext, Remembers, history

\* Every step keeps the marker of a turn with one prompt.
LEMMA OneHolderStep ==
  ASSUME IInv, OneHolder, [HistoryNext]_<<vars, history>>
  PROVE  OneHolder'
<1> USE GateAssumption DEF IInv, TypeOK
<1>1. [Next]_vars
  BY DEF HistoryNext, vars
<1>2. \/ turn' = turn /\ prompt' = prompt /\ (Writing' => Writing)
      \/ turn' = turn + 1 /\ UNCHANGED <<marker, call, dismissal>>
  BY <1>1, TurnStep
<1>3. ASSUME NEW p \in Prompts, NEW t \in 1..MaxTurns, Held(p, t)'
      PROVE  /\ t <= turn'
             /\ t = turn' => p = prompt' /\ ~Writing'
             /\ \A q \in Prompts : Held(q, t)' => p = q
  <2>1. CASE Held(p, t)
    <3>1. t <= turn /\ (t = turn => p = prompt /\ ~Writing)
      BY <2>1 DEF OneHolder
    <3>2. ASSUME NEW q \in Prompts, Held(q, t)' PROVE p = q
      <4>1. CASE Held(q, t)
        BY <2>1, <4>1 DEF OneHolder
      <4>2. CASE submit.pc = "write" /\ t = turn
        BY <3>1, <4>2 DEF Writing
      <4> QED
        BY <1>1, <3>2, <4>1, <4>2, HeldStep
    <3> QED
      BY <1>2, <3>1, <3>2
  <2>2. CASE submit.pc = "write" /\ p = prompt /\ t = turn /\ UNCHANGED <<turn, prompt>> /\ ~Writing'
    <3>1. ASSUME NEW q \in Prompts, Held(q, t)' PROVE p = q
      <4>1. ~Held(q, t)
        BY <2>2 DEF OneHolder, Writing
      <4> QED
        BY <1>1, <2>2, <3>1, <4>1, HeldStep
    <3> QED
      BY <2>2, <3>1
  <2> QED
    BY <1>1, <1>3, <2>1, <2>2, HeldStep
<1>4. opened' \subseteq 0..turn' /\ (Writing' => turn' \notin opened')
  <2>1. ASSUME NEW t \in opened' \ opened PROVE t \in 0..turn /\ turn' = turn /\ (t = turn => ~Writing')
    <3>1. PICK c \in Calls : Denied(c) /\ t = call[c].marker.at
      BY OpenedStep
    <3>2. t \in 0..MaxTurns /\ UNCHANGED <<turn, submit>>
      BY <3>1, DenialStep
    <3>3. CASE t = 0
      <4>1. turn > 0
        <5>1. call[c] # NoCall
          BY <3>1 DEF Denied, Consume, NoCall
        <5> QED
          BY <5>1 DEF Sent
      <4> QED
        BY <3>2, <3>3, <4>1
    <3>4. CASE t # 0
      <4>1. Held(call[c].prompt, t) /\ call[c].prompt \in Prompts
        BY <3>1, DenialStep DEF Held
      <4> QED
        BY <3>2, <3>4, <4>1 DEF OneHolder, Writing
    <3> QED
      BY <3>3, <3>4
  <2>2. ASSUME NEW t \in opened PROVE t \in 0..turn' /\ (t = turn' => ~Writing')
    <3>1. t \in 0..turn /\ (t = turn => ~Writing)
      BY <2>2 DEF OneHolder
    <3> QED
      BY <1>2, <3>1
  <2>3. ASSUME NEW t \in opened' PROVE t \in 0..turn' /\ (t = turn' => ~Writing')
    BY <2>1, <2>2
  <2> QED
    BY <2>3
<1> QED
  BY <1>3, <1>4 DEF OneHolder

\* Every step keeps a spent marker off the disk and out of later calls.
LEMMA SpentStep ==
  ASSUME IInv, OneHolder, SpentIsGone, [HistoryNext]_<<vars, history>>
  PROVE  SpentIsGone'
<1> USE GateAssumption DEF IInv, TypeOK
<1>1. [Next]_vars /\ opened \subseteq opened' /\ rewritten \subseteq rewritten'
  BY DEF HistoryNext, vars, Remembers, history
<1>2. ASSUME NEW p \in Prompts, marker'[p] # NoMarker, marker'[p].at \in opened'
      PROVE  marker'[p].at \in rewritten'
  <2>1. CASE marker'[p] = marker[p]
    <3>1. CASE marker'[p].at \in opened
      BY <1>1, <1>2, <2>1, <3>1 DEF SpentIsGone
    <3>2. ASSUME NEW c \in Calls, Denied(c), marker'[p].at = call[c].marker.at PROVE FALSE
      <4>1. p # call[c].prompt /\ CallHolds(c, call[c].prompt, marker[p].at) /\ call[c].prompt \in Prompts
        BY <1>2, <2>1, <3>2, DenialStep
      <4>2. marker[p].at \in 1..MaxTurns
        <5>1. marker[p] \in Marker /\ marker[p] # NoMarker
          BY <1>2, <2>1
        <5> QED
          BY <5>1, PresentMarker
      <4>3. Held(p, marker[p].at) /\ Held(call[c].prompt, marker[p].at)
        BY <4>1 DEF Held
      <4> QED
        BY <4>1, <4>2, <4>3 DEF OneHolder
    <3> QED
      BY <1>2, <3>1, <3>2, OpenedStep
  <2>2. CASE submit.pc = "write" /\ marker'[p].at = turn /\ UNCHANGED call
    <3>1. turn \notin opened
      BY <2>2 DEF OneHolder, Writing
    <3>2. ASSUME NEW c \in Calls, Denied(c) PROVE FALSE
      <4>1. call[c].pc = "consume" /\ call[c] = NoCall
        BY <2>2, <3>2, DenialStep DEF Denied, Consume
      <4> QED
        BY <4>1 DEF NoCall
    <3> QED
      BY <1>2, <2>2, <3>1, <3>2, OpenedStep
  <2>3. ASSUME NEW d \in Dismissals, RewriteMarker(d), DismissalHolds(d, p, marker'[p].at)
        PROVE  marker'[p].at \in rewritten'
    <3>1. CASE HistoryNext
      BY <2>3, <3>1 DEF HistoryNext, Remembers, DismissalHolds
    <3>2. CASE marker' = marker
      BY <2>1, <3>2
    <3> QED
      BY <3>1, <3>2 DEF vars
  <2>4. marker'[p] \in {marker[p], NoMarker} => marker'[p] = marker[p]
    BY <1>2
  <2> QED
    BY <1>1, <2>1, <2>2, <2>3, <2>4, MarkerStep
<1>3. ASSUME NEW c \in Calls
      PROVE  /\ before'[c].opened \subseteq opened'
             /\ call'[c].pc \in {"check", "consume"} /\ call'[c].marker.at \in before'[c].opened =>
                  call'[c].marker.at \in rewritten'
  <2>1. CASE before'[c] = before[c]
    <3>1. before[c].opened \subseteq opened'
      BY <1>1 DEF SpentIsGone
    <3>2. ASSUME call'[c].pc \in {"check", "consume"}, call'[c].marker.at \in before[c].opened
          PROVE  call'[c].marker.at \in rewritten
      <4>1. CASE call[c].pc \in {"check", "consume"} /\ call'[c].marker = call[c].marker
        BY <3>2, <4>1 DEF SpentIsGone
      <4>2. CASE /\ call[c].prompt \in Prompts
                 /\ marker[call[c].prompt] # NoMarker /\ call'[c].marker = marker[call[c].prompt]
        BY <3>2, <4>2 DEF SpentIsGone
      <4> QED
        BY <1>1, <3>2, <4>1, <4>2, CallHoldsStep
    <3> QED
      BY <1>1, <2>1, <3>1, <3>2
  <2>2. CASE before'[c] = [opened |-> {}, archived |-> {}, turn |-> 0]
    BY <2>2
  <2>3. CASE BeginCall(c) /\ before'[c] = [opened |-> opened, archived |-> Archived, turn |-> turn]
    <3>1. call'[c].pc \in {"defer", "latest"}
      <4>1. call[c] = NoCall /\ call'[c] = [call[c] EXCEPT !.pc = IF Cursor THEN "defer" ELSE "latest"]
        BY <2>3 DEF BeginCall, Goes
      <4> QED
        BY <4>1 DEF NoCall
    <3> QED
      BY <1>1, <2>3, <3>1
  <2> QED
    BY <2>1, <2>2, <2>3 DEF HistoryNext, Remembers, history
<1> QED
  BY <1>2, <1>3 DEF SpentIsGone

\* A marker that has denied a call denies no call that began after that, unless
\* a dismissal has written it back (gate/engine.py:136, gate/marker.py:202).
THEOREM DeniesOnce == HistorySpec => DeniesOncePerMarker
<1> DEFINE Inv == IInv /\ OneHolder /\ SpentIsGone
<1>1. HistoryInit => Inv
  <2> SUFFICES ASSUME HistoryInit PROVE Inv
    OBVIOUS
  <2>1. IInv
    BY InitIInv DEF HistoryInit
  <2>2. SpentIsGone
    BY DEF HistoryInit, Init, SpentIsGone, NoCall
  <2>3. ASSUME NEW p \in Prompts, NEW t \in 1..MaxTurns PROVE ~Held(p, t)
    BY <2>3, GateAssumption
       DEF HistoryInit, Init, Held, CallHolds, DismissalHolds, NoMarker, NoCall, NoDismissal
  <2>4. OneHolder
    BY <2>3 DEF HistoryInit, Init, OneHolder, Writing, NoSubmit
  <2> QED
    BY <2>1, <2>2, <2>4
<1>2. Inv /\ [HistoryNext]_<<vars, history>> => Inv'
  <2>1. [HistoryNext]_<<vars, history>> => [Next]_vars
    BY DEF HistoryNext, vars
  <2> QED
    BY <2>1, StepIInv, OneHolderStep, SpentStep
<1>3. Inv /\ [HistoryNext]_<<vars, history>> =>
        [\A c \in Calls : Denied(c) => call[c].marker.at \notin before[c].opened \ rewritten]_vars
  BY DEF SpentIsGone, Denied, Consume
<1> QED
  BY <1>1, <1>2, <1>3, PTL DEF HistorySpec, DeniesOncePerMarker
=============================================================================
