------------------------------ MODULE Policies ------------------------------
(***************************************************************************)
(* The algorithms of Nokori, each against what it promises.  A behaviour   *)
(* asks one question and stops, but for the installation, which goes on    *)
(* with any number of commands; the inputs that are asked about are        *)
(* constants.                                                              *)
(***************************************************************************)
EXTENDS SyntheticEval, PromotionBarriers, Installation

CONSTANTS
  Rules, Hits, Prompts, Pools,        \* of the matcher
  Trials, Cases,                      \* of the synthetic evaluation
  SomeStandings, SomeMatches, Doubts, \* of the policy; Doubts weaken a match
  Results, MaxResults, Budget,        \* of the selection
  SomeShadow, SomeFire,               \* evidence
  Turns, MaxTurns, Tags,              \* of transcripts
  LARGE_TURN_GAP, MIN_TOKENS, SIMILARITY,
  Table, MaxRules, New, Cosines, Limits, RECENT, FINGERPRINTS, Memory,
  SomeFiles, Flags

\* A doubt takes some of the fields of a match.
ASSUME QuestionsAreTyped ==
  /\ SomeStandings \subseteq Standings /\ SomeMatches \subseteq Matches
  /\ \A d \in Doubts, m \in SomeMatches : d @@ m \in Matches

\* A rule that is not in service is cold whatever it is shown, so its trial
\* says nothing.
ASSUME TrialsAreOfServedRules == \A t \in Trials : t.status \in {"active", "trusted"}

\* A text is a sequence of words.
IsText(t) == t \in Seq(WordsOf(t))

ASSUME TextsAreSequences ==
  /\ \A p \in Prompts : IsText(p.text) /\ IsText(p.toolInput)
  /\ \A r \in Rules : \A x \in TriggerData(r).contexts :
       x.window \in Nat /\ \A q \in x.patterns : IsText(q)

\* A utility may be negative, a text has no negative length.
ASSUME ResultsAreTyped ==
  /\ \A r \in Results : "rule" \in DOMAIN r /\ r.utility \in Int /\ r.cost \in Nat
  /\ MaxResults \in Nat /\ Budget \in Nat /\ TOP_K \in Nat

\* A new rule has a trigger, and no id that a rule has.
ASSUME NeighboursAreTyped ==
  /\ \A r \in Table : {"id", "updated"} \subseteq DOMAIN r
  /\ MaxRules \in Nat /\ Limits \subseteq Nat \ {0} /\ RECENT \in Nat \ {0} /\ FINGERPRINTS \in Nat
  /\ IsText(New.trigger) /\ New.trigger # <<>> /\ IsText(New.action) /\ New.id = 0
  /\ \A S \in {New.variants, New.search, New.domains, New.tools} : IsFiniteSet(S)
  /\ \A c \in Cosines : \A i \in DOMAIN c : c[i] \in Int
  /\ Memory \in Seq(ToSet(Memory))

\* Nothing is recorded of the user's files.  Hooks may be in them that Nokori
\* takes for its own, for some of the events or for all.
ASSUME FilesAreTheUsers ==
  /\ Events # {}
  /\ \A f \in SomeFiles :
       /\ DOMAIN f = Hosts \cup {"platforms"} /\ f.platforms = {}
       /\ \A h \in {"claude", "cursor"} :
            /\ "hooks" \in DOMAIN f[h]
            /\ \A e \in Events : LET spec == SpecOf(f[h].hooks, e) IN spec \in Seq(ToSet(spec))
       /\ "env" \in DOMAIN f.claude
       /\ {f.pi, f.omp} \subseteq {"none", "managed", "foreign"}

VARIABLE question

Windows == INSTANCE EventWindow
Neighbours == INSTANCE MergeNeighbours

-----------------------------------------------------------------------------
Init == question = [about |-> "none"]

Ask(what) == question' = what

AskMatch ==
  \E r \in Rules, h \in Hits, p \in Prompts, s \in Pools :
    Ask([about |-> "match", rule |-> r, hit |-> h, prompt |-> p, stats |-> s])

AskTrial ==
  \E t \in Trials, c \in Cases, s \in Pools :
    Ask([about |-> "trial", rule |-> t, cases |-> c, stats |-> s])

AskLevel ==
  \E r \in SomeStandings, m \in SomeMatches : Ask([about |-> "level", standing |-> r, match |-> m])

\* Rule k has the k-th result.  Words and embeddings may both miss the first
\* rule; the embeddings rank the rules the other way round, and so do the words
\* when they are looked for in the formal rules alone: how much a word is worth
\* depends on how many of the rules searched have it.
AskSelection ==
  \E n \in 2..MaxResults :
    \E r \in [1..n -> Results], skip \in 0..1, far \in 0..1, last \in (n - 2)..n,
       known \in BOOLEAN, enabled \in BOOLEAN :
      Ask([about |-> "selection", pool |-> 1..n, formal |-> 1..last, known |-> known, enabled |-> enabled,
           words |-> [k \in 1..(n - skip) |-> k + skip],
           alone |-> [k \in 1..(last - skip) |-> last + 1 - k],
           embeddings |-> [k \in 1..(n - far) |-> n + 1 - k],
           result |-> [k \in 1..n |-> [r[k] EXCEPT !.rule = k]]])

AskBarriers ==
  \/ \E e \in SomeShadow, s \in {"candidate", "suppressed"} :
       Ask([about |-> "barriers", status |-> s, evidence |-> e])
  \/ \E e \in SomeFire : Ask([about |-> "barriers", status |-> "active", evidence |-> e])

AskWindow ==
  \E n \in 1..MaxTurns :
    \E t \in [1..n -> Turns], i \in {0, 1, n}, h \in {"none", "h1"}, tags \in Tags, e \in BOOLEAN :
      Ask([about |-> "window", turns |-> t, index |-> i, hash |-> h, tags |-> tags, embeds |-> e])

AskNeighbours ==
  \E n \in 1..MaxRules : \E t \in [1..n -> Table], c \in Cosines, limit \in Limits :
    Ask([about |-> "neighbours", rules |-> [k \in 1..n |-> [t[k] EXCEPT !.id = k, !.updated = k]],
         cosine |-> c, limit |-> limit])

AskInstall ==
  \E f \in SomeFiles :
    Ask([about |-> "install", before |-> f, files |-> f, torn |-> {}, disabled |-> FALSE])

\* The next command of nokori install, which may fail at any of its writes.
Command ==
  /\ question.about = "install"
  /\ \E verb \in Verbs, flags \in Flags, reach \in Reaches :
       question' = [question EXCEPT
         !.files = Run(@, verb, flags, reach),
         !.torn = TornBy(@, question.files, verb, flags, reach),
         !.disabled = @ \/ verb = "disable"]

Next ==
  \/ /\ question.about = "none"
     /\ \/ AskMatch \/ AskTrial \/ AskLevel \/ AskSelection
        \/ AskBarriers \/ AskWindow \/ AskNeighbours \/ AskInstall
  \/ Command

Spec == Init /\ [][Next]_question

-----------------------------------------------------------------------------
(* The matcher                                                             *)

\* The words of a pattern stand next to a word that triggers the rule.
NextToTrigger(q, x, trigger, p) ==
  \E i \in TriggerPositions(trigger, p), k \in 0..Len(Combined(p)) :
    /\ k + Len(q) <= Len(Combined(p))
    /\ \A j \in DOMAIN q : Inside(q[j], Combined(p)[k + j]) /\ k + j \in (i - x.window)..(i + x.window)

Excludes(x, trigger, p) ==
  \E q \in x.patterns :
    CASE x.scope = "near_trigger_span" -> NextToTrigger(q, x, trigger, p)
      [] x.scope = "tool_input_only" -> Finds(p.toolInput, q)
      [] OTHER -> Finds(p.text, q)

\* A phrase is said word for word, by the tool, or by all its words.
Says(p, phrase) ==
  \/ \E text \in {p.text, p.toolName, p.toolInput} : Finds(text, phrase)
  \/ WordsOf(phrase) \subseteq WordsOf(p.text)

Names(g, trigger, p) ==
  \A id \in g.allOf : \E c \in trigger.concepts :
    c.id = id /\ \E a \in c.aliases : Says(p, a.text)

\* A rule reaches a prompt only if the prompt names everything that one of its
\* groups requires and says nothing the rule excludes, unless it also says what
\* overrides that; an excluded rule never gets to block a tool, overridden or
\* not.  Rules from before rules had concepts are left out: for them the words
\* found in their fields count.  (matcher/runtime.py, search/applicability.py, search/evidence.py)
InjectsOnlyOnTrigger ==
  question.about = "match" /\ ~question.rule.old =>
    LET p == question.prompt
        trigger == TriggerData(question.rule)
        level == EvaluateEvidence(question.rule, question.hit, p, question.stats)
        against == {x \in trigger.contexts : Excludes(x, trigger, p)}
    IN /\ level # "dropped" =>
            (\E g \in trigger.groups : Names(g, trigger, p)) /\ (\A x \in against : Overridden(x, p))
       /\ level = "gate" => against = {}

-----------------------------------------------------------------------------
(* The synthetic evaluation                                                *)

\* A rule that has passed its trial is silent on every hostile prompt of the
\* trial, and stays so when it has become useful, trusted or a gate: the trial
\* looks at no noise, and only the coverage a new rule must have is asked of a
\* prompt besides.  (eval/synthetic.py, search/applicability.py)
PassedStaysSilent ==
  question.about = "trial" /\ RunSyntheticEval(question.rule, question.rule.trigger, question.cases, question.stats) =>
    \A c \in question.cases :
      LET m == CaseMatch(question.rule.trigger, c.prompt, question.stats)
      IN c.kind \in Hostile /\ ~(m.coverage < NEWLY_ACTIVE_COVERAGE_MIN) =>
           \A r \in SomeStandings : EvaluateApplicability(r, m) = "cold"

-----------------------------------------------------------------------------
(* The policy                                                              *)

\* Less evidence, or more against a rule, never raises it; neither does it harm
\* a rule to be trusted, useful or less noisy.  (search/applicability.py)
LevelIsMonotone ==
  question.about = "level" =>
    \A d \in Doubts : LET n == d @@ question.match IN
      Monotone(question.standing, question.match, n) /\ Monotone(question.standing, n, question.match)

-----------------------------------------------------------------------------
(* The selection                                                           *)

\* The characters of the texts of some rules.
Characters(S) == UNION {{r} \X (1..r.cost) : r \in S}

Worth(r) == r.level \in {"hot", "gate"} /\ r.utility > 0

\* No warm rule says what another selected one says; the warm rules fit the
\* budget; of the rules that may be hot and are worth it the best is; and a rule
\* that only an embedding of an unknown profile has found is not selected.
\* What is injected is what would be without the candidates and suppressed
\* rules matched along, in whatever order the words then rank the rest; but only
\* when no ranking is cut, no two of the formal rules found are worth the same,
\* and the embeddings are used, or not used, either way.  engine.py:80 and
\* docs/en/architecture.md:65 promise it without these conditions, and without
\* them it does not hold: the shadow rules count for the size from which on
\* embeddings are used, take places in the rankings before the cut, and shift
\* the ranks by which equals are ordered.  (search/engine.py, search/scorer.py,
\* search/selector.py, search/bm25.py)
SelectionIsFair ==
  question.about = "selection" =>
    LET q == question
        alone == [q EXCEPT !.pool = q.formal, !.words = q.alone,
                           !.embeddings = Keep(q.embeddings, LAMBDA k : k \in q.formal)]
        ranked(S) == \A r, s \in S : r.utility = s.utility => r = s
        uncut == Len(q.words) <= TOP_K /\ Len(Used(q)) <= TOP_K
    IN \E all \in {Retrieve(q, Budget).formal}, apart \in {Retrieve(alone, Budget).formal},
          formal \in {{r \in ToSet(Eligible(q.words, Used(q), q.known, q.result)) : r.rule \in q.formal}} :
         /\ ranked(formal) /\ uncut /\ UsesEmbeddings(q) = UsesEmbeddings(alone) =>
              all.hot = apart.hot /\ all.warm = apart.warm
         /\ ~q.known => \A r \in all.hot \cup all.warm : r.rule \in ToSet(q.words)
         /\ \A r \in all.warm : ~NearDuplicate(r, (all.hot \cup all.warm) \ {r})
         /\ Cardinality(Characters(all.warm)) <= Budget
         /\ \A r \in formal : Worth(r) => \E s \in all.hot : Worth(s) /\ s.utility >= r.utility

-----------------------------------------------------------------------------
(* The barriers                                                            *)

\* When the user is told that nothing is in the way of a promotion, the next
\* evaluation of the same evidence promotes the rule unless something demotes
\* it; when something is in the way it does not, but for the path of a single
\* session.  (lifecycle/transition_barriers.py, lifecycle/transition_evaluate.py)
BarriersAgree ==
  question.about = "barriers" =>
    LET e == question.evidence
        free == ComputePromotionBarriers(question.status, e) = "nothing"
    IN CASE question.status = "candidate" ->
              /\ free => EvaluateCandidate(e) = IF CandidateFails(e) THEN "archived" ELSE "active"
              /\ EvaluateCandidate(e) = "active" => free \/ SingleSessionPath(e)
         [] question.status = "active" ->
              free = (EvaluateActive(e) = "trusted" \/ (FireFails(e, ACTIVE_TO_SUPPRESSED) /\ EarnsTrust(e)))
         [] OTHER ->
              /\ free => EvaluateSuppressed(e) \in {"active", "archived"}
              /\ EvaluateSuppressed(e) = "active" => free

-----------------------------------------------------------------------------
(* The windows of the posthoc evaluation                                   *)

\* A fire is judged on the conversation that begins with a prompt whose hash it
\* has, whatever index the host has given; it is judged if there is such a
\* prompt; and the window goes on to the first prompt after a tool, to where the
\* topic shifts, or to the end.  (posthoc/windowing.py, posthoc/jobs.py)
WindowIsTheFires ==
  question.about = "window" =>
    LET q == question
        w == Windows!WindowOf(q.turns, q.hash, q.index, q.tags, q.embeds)
        prompts == {i \in DOMAIN q.turns : q.turns[i].role = "user" /\ q.turns[i].hash = q.hash}
        goesOn(i) == ~Windows!Ends(q.turns, i) /\ ~q.turns[i].marker
    IN /\ q.hash # "none" /\ prompts # {} => w # <<>>
       /\ w # <<>> =>
            \E i \in DOMAIN q.turns :
              LET last == i + Len(w) - 1 IN
              /\ q.turns[i].role = "user" /\ (q.hash # "none" => i \in prompts)
              /\ w = SubSeq(q.turns, i, last)
              /\ \A k \in (i + 1)..(last - 1) : goesOn(k)
              /\ last > i => ~q.turns[last].marker
              /\ \/ last = Len(q.turns)
                 \/ last > i /\ Windows!Ends(q.turns, last)
                 \/ Windows!TopicShift(q.turns, i, last + 1, q.tags, q.embeds)

-----------------------------------------------------------------------------
(* The neighbours of a new rule                                            *)

\* The planner sees no archived rule and none of another project, none twice;
\* a rule it could have seen is left out only for others that are as near; and
\* it sees something when there is an active or trusted rule.  (merge/policy.py)
NearestAreFound ==
  question.about = "neighbours" =>
    LET q == question
        found == Neighbours!FindMergeNeighbors(New, q.rules, q.cosine, "p1", q.limit, Memory)
        ids == {found[k].id : k \in DOMAIN found}
        visible == {i \in DOMAIN q.rules : q.rules[i].status # "archived" /\ q.rules[i].project \in {"global", "p1"}}
        nearness(i) == Neighbours!Score(New, q.rules[i])
                         + (IF i \in DOMAIN q.cosine /\ q.cosine[i] > 70 THEN (5 * q.cosine[i]) \div 2 ELSE 0)
    IN /\ ids \subseteq visible /\ Cardinality(ids) = Len(found) /\ Len(found) <= q.limit
       /\ \A i \in visible \ ids :
            nearness(i) > 0 => Len(found) = q.limit /\ \A j \in ids : nearness(j) >= nearness(i)
       /\ (\E i \in visible : q.rules[i].status \in {"active", "trusted"}) => found # <<>>
       /\ \A k \in DOMAIN found : \A f \in found[k].fingerprints : f.strength # "merge_replaced"

-----------------------------------------------------------------------------
(* The installation                                                        *)

\* What the settings of a host hold now, given what they held before.
Untouched(now, before) == \A e \in Events : SpecOf(now, e) = SpecOf(before, e)
Installed(now, before) == \A e \in Events : SpecOf(now, e) = Append(StripNokori(SpecOf(before, e)), {Own(e)})
Removed(now, before) == \A e \in Events : SpecOf(now, e) = StripNokori(SpecOf(before, e))

\* However often Nokori is installed, removed, disabled and enabled, and
\* wherever a command fails, the settings of a host are as the user has left
\* them, or hold what is left of the user's hooks in their order, with one hook
\* of Nokori's for each event or with none; a host has its hooks if it is
\* recorded and not if it is not, but for the hosts that a failed command has
\* written, until a command for them completes; an extension it has not written
\* is left alone; and it is disabled by nothing else.  What is lost is every
\* entry with a command that names nokori, the user's too, and what shares the
\* entry, although docs/en/installation.md says that other hooks are never touched
\* (:111) and that only those of Nokori are removed (:117).  (commands/install.py,
\* install_targets.py)
UninstallRestores ==
  question.about = "install" =>
    LET before == question.before
        after == question.files
        recorded(h) == h \in after.platforms
        agrees(h) == h \notin question.torn
    IN /\ \A h \in {"claude", "cursor"} :
            LET now == after[h].hooks
                old == before[h].hooks
            IN /\ Untouched(now, old) \/ Installed(now, old) \/ Removed(now, old)
               /\ agrees(h) /\ recorded(h) => Installed(now, old)
               /\ agrees(h) /\ ~recorded(h) => Untouched(now, old) \/ Removed(now, old)
               /\ \A e \in DOMAIN old \ Events : e \in DOMAIN now /\ now[e] = old[e]
       /\ \A h \in {"pi", "omp"} :
            /\ before[h] = "foreign" => after[h] = "foreign" /\ ~recorded(h)
            /\ before[h] # "foreign" /\ agrees(h) =>
                 IF recorded(h) THEN DescribeExtension(after, h).installed ELSE after[h] \in {before[h], "none"}
       /\ DescribeClaudeHooks(after).disabled => question.disabled \/ DescribeClaudeHooks(before).disabled
=============================================================================
