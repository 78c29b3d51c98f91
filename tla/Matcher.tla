------------------------------ MODULE Matcher ------------------------------
(***************************************************************************)
(* The deterministic matcher of a rule: what compiles, and what a compiled *)
(* rule matches in a prompt.  A text is a sequence of words.  A phrase is  *)
(* found wherever its words are parts of consecutive words of the text, as *)
(* the code searches substrings and has no word boundaries; a regular      *)
(* expression is a phrase like any other.                                  *)
(***************************************************************************)
EXTENDS Integers, Sequences, FiniteSets

CONSTANTS
  GENERIC_TOKENS,       \* words that are no anchor
  GENERIC_ACTION_WORDS, \* words of a canonical trigger that are no anchor
  PartOf                \* the pairs of words of which the first is a part of the second

WordsOf(text) == {text[i] : i \in DOMAIN text}

Inside(w, v) == w = v \/ <<w, v>> \in PartOf

Finds(text, phrase) ==
  \E i \in 0..(Len(text) - Len(phrase)) : \A k \in DOMAIN phrase : Inside(phrase[k], text[i + k])

\* A prompt: [text, toolName, toolInput, paths, tags]; the first three are texts.
Combined(p) == p.text \o p.toolInput

-----------------------------------------------------------------------------
(* Compilation.  trigger: [concepts, groups, variants, contexts, canonical,*)
(* search]; concept: [id, mode, required, aliases].                        *)

AliasCompiles(a, mode) ==
  /\ a.text # <<>>
  /\ a.strength = "weak" => a.neighbors # {}
  /\ ~(/\ a.strength = "strong" /\ mode \in {"any_alias", "phrase"}
       /\ Len(a.text) = 1 /\ a.text[1] \in GENERIC_TOKENS)

ConceptCompiles(c) == c.aliases # {} /\ \A a \in c.aliases : AliasCompiles(a, c.mode)

Ids(concepts) == {c.id : c \in concepts}
RequiredIds(concepts) == {c.id : c \in {d \in concepts : d.required}}

GroupCompiles(g, concepts) == g.allOf # {} /\ g.allOf \subseteq RequiredIds(concepts)

VariantCompiles(v, concepts) ==
  /\ v.text # <<>>
  /\ v.kind = "strong_anchor" =>
       v.requires # {} /\ v.requires \subseteq Ids(concepts) /\ Len(v.text) > 1

ContextCompiles(x) == x.patterns # {}

Compiles(trigger) ==
  /\ \A c \in trigger.concepts : ConceptCompiles(c)
  /\ \A g \in trigger.groups : GroupCompiles(g, trigger.concepts)
  /\ \A v \in trigger.variants : VariantCompiles(v, trigger.concepts)
  /\ \A x \in trigger.contexts : ContextCompiles(x)

\* The words and phrases that count for the coverage of a trigger.
AnchorTokens(trigger) ==
  (UNION {UNION {WordsOf(a.text) : a \in c.aliases} : c \in {d \in trigger.concepts : d.required}}
     \ GENERIC_TOKENS)
  \cup (WordsOf(trigger.canonical) \ (GENERIC_TOKENS \cup GENERIC_ACTION_WORDS))

AnchorPhrases(trigger) == {v.text : v \in {w \in trigger.variants : w.kind = "strong_anchor"}}

-----------------------------------------------------------------------------
(* Concepts and variants                                                   *)

AliasMatches(a, mode, p) ==
  CASE mode = "tool_pattern" -> Finds(p.toolName, a.text) \/ Finds(p.toolInput, a.text)
    [] mode = "all_terms" -> WordsOf(a.text) \subseteq WordsOf(p.text)
    [] OTHER -> Finds(p.text, a.text) \/ Finds(p.toolInput, a.text)

NeighborPresent(a, p) ==
  \E n \in a.neighbors :
    \/ Finds(p.text, <<n>>) \/ Finds(p.toolName, <<n>>)
    \/ \E path \in p.paths : Inside(n, path)
    \/ n \in p.tags

\* A weak alias needs one of its neighbours.
ConceptHolds(c, p) ==
  \E a \in c.aliases : AliasMatches(a, c.mode, p) /\ (a.strength = "weak" => NeighborPresent(a, p))

SatisfiedConcepts(trigger, p) == {c.id : c \in {d \in trigger.concepts : ConceptHolds(d, p)}}

RequiredConceptsMatch(trigger, p) ==
  \E g \in trigger.groups : g.allOf \subseteq SatisfiedConcepts(trigger, p)

VariantHits(trigger, p) ==
  {v \in trigger.variants :
     /\ Finds(Combined(p), v.text) \/ Finds(p.toolInput, v.text)
     /\ v.kind = "strong_anchor" => v.requires \subseteq SatisfiedConcepts(trigger, p)}

MatchedAnchors(trigger, p) ==
  (AnchorTokens(trigger) \cap WordsOf(Combined(p)))
  \cup UNION {WordsOf(f) : f \in {g \in AnchorPhrases(trigger) : Finds(Combined(p), g)}}

\* The share of the anchors that the prompt holds, in percent.
TriggerCoverage(trigger, p) ==
  LET total == Cardinality(AnchorTokens(trigger)) + Cardinality(AnchorPhrases(trigger))
      found == Cardinality(AnchorTokens(trigger) \cap WordsOf(Combined(p)))
                 + Cardinality({f \in AnchorPhrases(trigger) : Finds(Combined(p), f)})
  IN (100 * found) \div (IF total = 0 THEN 1 ELSE total)

-----------------------------------------------------------------------------
(* Excluded contexts: [patterns, scope, window, override, requires]        *)

PatternIn(x, text) == \E q \in x.patterns : Finds(text, q)

\* The words of the prompt that are anchors, alone or within a whole phrase.
TriggerPositions(trigger, p) ==
  {i \in DOMAIN Combined(p) : Combined(p)[i] \in AnchorTokens(trigger)}
  \cup {i \in DOMAIN Combined(p) :
          \E f \in AnchorPhrases(trigger), k \in 0..(Len(Combined(p)) - 1) :
            /\ i \in (k + 1)..(k + Len(f)) /\ k + Len(f) <= Len(Combined(p))
            /\ SubSeq(Combined(p), k + 1, k + Len(f)) = f}

\* Mutant: the window ends before its last word.
WindowShort(text, i, radius) ==
  SubSeq(text, IF i > radius THEN i - radius ELSE 1, IF i + radius <= Len(text) THEN i + radius - 1 ELSE Len(text))
Window(text, i, radius) ==
  SubSeq(text, IF i > radius THEN i - radius ELSE 1, IF i + radius <= Len(text) THEN i + radius ELSE Len(text))

ContextFires(x, trigger, p) ==
  CASE x.scope = "tool_input_only" -> PatternIn(x, p.toolInput)
    [] x.scope = "prompt_only" -> PatternIn(x, p.text)
    [] x.scope = "near_trigger_span" ->
         \E i \in TriggerPositions(trigger, p) : PatternIn(x, Window(Combined(p), i, x.window))
    [] OTHER -> PatternIn(x, Combined(p))

Overridden(x, p) == x.override /\ \A q \in x.requires : Finds(Combined(p), q)

Fired(trigger, p) == {x \in trigger.contexts : ContextFires(x, trigger, p)}

\* One context that fires and is not overridden is enough to exclude.
OverridePassed(trigger, p) ==
  Fired(trigger, p) # {} /\ \A x \in Fired(trigger, p) : Overridden(x, p)

-----------------------------------------------------------------------------
(* The result                                                              *)

HasTriggerEvidence(trigger, p) ==
  \/ \E v \in VariantHits(trigger, p) : v.kind = "strong_anchor"
  \/ RequiredConceptsMatch(trigger, p)
  \/ TriggerCoverage(trigger, p) > 0

EvaluateMatch(trigger, p) ==
  [strong |-> \E v \in VariantHits(trigger, p) : v.kind = "strong_anchor",
   concepts |-> RequiredConceptsMatch(trigger, p),
   coverage |-> TriggerCoverage(trigger, p),
   anchors |-> MatchedAnchors(trigger, p),
   excluded |-> Fired(trigger, p) # {},
   override |-> OverridePassed(trigger, p),
   actionOnly |-> ~HasTriggerEvidence(trigger, p),
   searchOnly |-> ~HasTriggerEvidence(trigger, p) /\ \E s \in trigger.search : Finds(Combined(p), s)]
=============================================================================
