----------------------------- MODULE EventWindow -----------------------------
(***************************************************************************)
(* The part of a transcript on which a fire is judged: from the prompt in  *)
(* which the rule was injected to the next prompt after a tool was used,   *)
(* or to where the topic shifts.  A turn: [role, tokens, hash, marker, far,*)
(* tool].  A transcript is a sequence of turns, counted from 1 here.       *)
(***************************************************************************)
EXTENDS Integers, Sequences, FiniteSets, SequencesExt

CONSTANT LARGE_TURN_GAP, MIN_TOKENS, SIMILARITY \* in percent

\* The share of the tokens of the prompt that others have too.
Similar(prompt, others) == 100 * Cardinality(prompt \cap others) >= SIMILARITY * Cardinality(prompt)

Recent(turns, start, i) ==
  UNION {turns[k].tokens : k \in {j \in start..(i - 1) : j >= i - 3}}

\* Whether turn i is about something else than turn start, all turns between
\* them being in the window.  embeds: the caller has a function for embeddings.
TopicShift(turns, start, i, tags, embeds) ==
  LET turn == turns[i]
      prompt == turns[start].tokens
      size == i - start
  IN \/ embeds /\ turn.role = "user" /\ turn.far
     \/ turn.marker
     \/ /\ size >= LARGE_TURN_GAP
        /\ Recent(turns, start, i) = {} \/ prompt = {} \/ ~Similar(prompt, Recent(turns, start, i))
     \/ /\ turn.role = "user" /\ prompt # {} /\ Cardinality(turn.tokens) >= MIN_TOKENS
        /\ ~Similar(prompt, turn.tokens)
     \/ /\ turn.role = "assistant" /\ tags # {} /\ turn.tool # "none"
        /\ turn.tool \notin tags /\ size >= 3

PrecededByToolSequence(turns, i) == i > 1 /\ (turns[i - 1].tool # "none" \/ turns[i - 1].role = "tool")

Ends(turns, i) == turns[i].role = "user" /\ PrecededByToolSequence(turns, i)

\* The last turn of the window, which is taken before it is looked at as an end.
LastOfWindow(turns, start, tags, embeds) ==
  LET stops(i) == \/ i = Len(turns)
                  \/ TopicShift(turns, start, i + 1, tags, embeds)
                  \/ i > start /\ Ends(turns, i)
  IN CHOOSE i \in start..Len(turns) : stops(i) /\ \A j \in start..(i - 1) : ~stops(j)

ComputeEventWindow(turns, start, tags, embeds) ==
  SubSeq(turns, start, LastOfWindow(turns, start, tags, embeds))

\* Mutant: a turn index is believed without its hash.
InjectionTurnUnchecked(turns, hash, index) ==
  IF index \in DOMAIN turns /\ turns[index].role = "user" THEN index
  ELSE IF hash = "none" THEN 0
  ELSE SelectInSeq(turns, LAMBDA t : t.role = "user" /\ t.hash = hash)

\* The turn of a fire: by its index if that is a prompt with its hash, else the
\* first prompt with its hash.  0: there is none.
InjectionTurn(turns, hash, index) ==
  IF /\ index \in DOMAIN turns /\ turns[index].role = "user"
     /\ hash \in {"none", turns[index].hash}
  THEN index
  ELSE IF hash = "none" THEN 0
  ELSE SelectInSeq(turns, LAMBDA t : t.role = "user" /\ t.hash = hash)

\* An empty window: the fire is not judged.
WindowOf(turns, hash, index, tags, embeds) ==
  LET start == InjectionTurn(turns, hash, index)
  IN IF start = 0 THEN <<>> ELSE ComputeEventWindow(turns, start, tags, embeds)
=============================================================================
