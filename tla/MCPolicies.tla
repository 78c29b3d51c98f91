----------------------------- MODULE MCPolicies -----------------------------
(* The questions that TLC asks.  The thresholds of the policy are those of   *)
(* policy.py, those of the lifecycle are smaller and in the same order.      *)
EXTENDS Policies

(* Words: a redeploy holds a deploy.                                         *)
MC_PartOf == {<<"deploy", "redeploy">>}
MC_GENERIC_TOKENS == {"ok"}
MC_GENERIC_ACTION_WORDS == {"run"}

Alias(text, strength, neighbors) == [text |-> text, strength |-> strength, neighbors |-> neighbors]
Concept(id, alias) == [id |-> id, mode |-> "any_alias", required |-> TRUE, aliases |-> {alias}]
Deploy == Concept("deploy", Alias(<<"deploy">>, "strong", {}))
Prod == Concept("prod", Alias(<<"prod">>, "strong", {}))
WeakProd == Concept("prod", Alias(<<"prod">>, "weak", {"deploy", "docs"}))
Group(ids) == [id |-> "g", allOf |-> ids]

Exclusion(scope, window, override) ==
  [patterns |-> {<<"docs">>}, scope |-> scope, window |-> window, override |-> override, requires |-> {<<"ok">>}]

Exclusions ==
  {{}, {Exclusion("prompt_only", 0, FALSE)}, {Exclusion("prompt_only", 0, TRUE)},
   {Exclusion("near_trigger_span", 1, FALSE)}, {Exclusion("near_trigger_span", 1, TRUE)},
   {Exclusion("near_trigger_span", 1, FALSE), Exclusion("prompt_only", 0, TRUE)}}

Trigger(concepts, groups, primary, contexts, canonical) ==
  [concepts |-> concepts, groups |-> groups, primary |-> primary, variants |-> {},
   contexts |-> contexts, canonical |-> canonical, search |-> {<<"docs">>}]

Triggers ==
  {Trigger({Deploy, c}, {Group(ids)}, ids, x, k) :
     c \in {Prod, WeakProd}, ids \in {{"deploy"}, {"deploy", "prod"}}, x \in Exclusions, k \in {<<>>, <<"deploy", "prod">>}}
  \cup {Trigger({Deploy, c}, {Group({"deploy"}), Group({"prod"})}, {"deploy"}, x, <<>>) :
     c \in {Prod, WeakProd}, x \in Exclusions}

Asked(text) == [text |-> text, toolName |-> <<>>, toolInput |-> <<>>, paths |-> {}, tags |-> {}]
Words == {"deploy", "redeploy", "prod", "docs", "ok"}
MC_Prompts == {Asked(t) : t \in UNION {[1..n -> Words] : n \in 1..3}}

MC_Rules ==
  {[status |-> s, severity |-> "gate_eligible", useful |-> TRUE, fp |-> 0, observed |-> 0, old |-> FALSE, trigger |-> t] :
     s \in {"candidate", "active", "trusted"}, t \in Triggers}

MC_Hits == {[tokens |-> {}, embeddingOnly |-> FALSE, strong |-> FALSE, trigger |-> 0, variant |-> 0,
             action |-> 0, search |-> 1, actionOnly |-> FALSE, searchOnly |-> FALSE]}

Pool(size, dynamic) == [size |-> size, dynamic |-> dynamic, idf |-> [w \in {"deploy", "prod"} |-> 150]]
MC_Pools == {Pool(5, 240), Pool(30, 120)}

MC_Trials ==
  {[status |-> "active", severity |-> "reminder", useful |-> u, trigger |-> t] : t \in Triggers, u \in BOOLEAN}

Case(kind, text, min, max) == [kind |-> kind, prompt |-> Asked(text), min |-> min, max |-> max]
MC_Cases ==
  {{Case("positive", p, "warm", "gate"), Case(k, t, "cold", m)} :
     p \in {<<"deploy", "prod">>}, k \in {"near_miss", "global_adversarial"},
     t \in UNION {[1..n -> Words] : n \in 1..2}, m \in {"cold", "warm"}}

(* Policy                                                                    *)
MC_IDF_SMALL_POOL == [info |-> 240, coverage |-> 40, distinct |-> 2]
MC_IDF_NORMAL == [info |-> 120, coverage |-> 25, distinct |-> 1]

MC_Standings ==
  [status : {"candidate", "active", "trusted"}, severity : Severities, useful : BOOLEAN, fp : {20, 40}]

MC_Matches ==
  {[strong |-> strong, concepts |-> concepts, idf |-> idf, coverage |-> coverage, distinct |-> distinct,
    pool |-> pool, dynamic |-> 300, excluded |-> out # "no", override |-> out = "overridden",
    nearMiss |-> FALSE, actionOnly |-> FALSE, searchOnly |-> FALSE, embeddingOnly |-> FALSE,
    hasTool |-> tool # "no", tool |-> tool = "yes"] :
     strong \in BOOLEAN, concepts \in BOOLEAN, idf \in {200, 300, 450}, coverage \in {10, 30, 40},
     distinct \in 1..2, pool \in {0, 5, 30}, out \in {"no", "excluded", "overridden"}, tool \in {"no", "yes"}}

MC_Doubts ==
  {[strong |-> FALSE], [concepts |-> FALSE], [idf |-> 200], [coverage |-> 10], [coverage |-> 30], [distinct |-> 1],
   [excluded |-> TRUE], [override |-> FALSE], [nearMiss |-> TRUE], [actionOnly |-> TRUE],
   [searchOnly |-> TRUE], [embeddingOnly |-> TRUE], [tool |-> FALSE]}

(* Selection: what may be hot, what duplicates it, what is too long.         *)
Result(level, utility, tokens, cost, strong) ==
  [rule |-> 0, level |-> level, utility |-> utility, tokens |-> tokens, cost |-> cost,
   domains |-> {}, groups |-> {level}, strong |-> strong]
MC_Results ==
  {Result("hot", 300, {"a", "b"}, 5, TRUE), Result("gate", 250, {"a", "b"}, 5, FALSE),
   Result("warm", 280, {"c"}, 5, FALSE), Result("warm", 90, {"d"}, 8, FALSE),
   Result("hot", 0, {"e"}, 5, FALSE), Result("dropped", 0, {}, 5, FALSE)}

(* Evidence                                                                  *)
MC_Shadow ==
  {[high |-> high, evaluated |-> high + wrong + risky, sessions |-> sessions, irrelevant |-> wrong,
    risky |-> risky, fp |-> wrong + risky, tasks |-> high + wrong + risky, sessionStrong |-> high,
    contexts |-> 2, synthetic |-> good, quality |-> 90, miss |-> good, replaced |-> replaced,
    stamped |-> stamped, expired |-> FALSE, recentHarmful |-> risky] :
     high \in 0..3, wrong \in 0..2, risky \in 0..2, sessions \in 0..2,
     good \in BOOLEAN, replaced \in BOOLEAN, stamped \in BOOLEAN}
MC_Fire ==
  {[useful |-> useful, usefulTotal |-> useful + weak, sessions |-> sessions, irrelevant |-> wrong,
    irrelevantInLast |-> wrong, fp |-> fp, total |-> useful + weak + wrong + harmful, harmful |-> harmful,
    scope |-> "project", projects |-> 1] :
     useful \in 0..3, weak \in 0..2, sessions \in 0..2, wrong \in 0..2, fp \in 0..2, harmful \in 0..1}

MC_CANDIDATE_TO_ARCHIVED == [risky |-> 2, irrelevant |-> 2]
MC_CANDIDATE_TO_ACTIVE ==
  [strong |-> 2, evaluated |-> 2, sessions |-> 2, counterfactual |-> 1, risky |-> 0, fp |-> 0]
MC_CANDIDATE_TO_ACTIVE_SINGLE_SESSION ==
  [quality |-> 88, strong |-> 2, evaluated |-> 2, counterfactual |-> 2, risky |-> 0, fp |-> 0]
MC_ACTIVE_TO_SUPPRESSED == [harmful |-> 1, irrelevant |-> 2, fp |-> 50]
MC_ACTIVE_TO_TRUSTED == [useful |-> 2, evaluated |-> 2, sessions |-> 2, harmful |-> 0, fp |-> 15]
MC_TRUSTED_TO_SUPPRESSED == [harmful |-> 1, irrelevant |-> 2, fp |-> 35]
MC_TRUSTED_TO_ACTIVE == [evaluated |-> 2, useful |-> 0, irrelevant |-> 1, harmful |-> 0, fp |-> 30]
MC_SUPPRESSED_TO_ARCHIVED == [risky |-> 2]
MC_SUPPRESSED_TO_ACTIVE == [high |-> 2, sessions |-> 2, harmful |-> 0]

(* Transcripts: two prompts, a long one about something else, answers by two *)
(* tools and a prompt that says that the task changes.                       *)
Turn(role, tokens, hash, marker, far, tool) ==
  [role |-> role, tokens |-> tokens, hash |-> hash, marker |-> marker, far |-> far, tool |-> tool]
MC_Turns ==
  {Turn("user", {"a", "b"}, "h1", FALSE, FALSE, "none"), Turn("user", {"b"}, "h2", FALSE, TRUE, "none"),
   Turn("user", {"c", "d", "e"}, "h2", FALSE, FALSE, "none"), 
   Turn("assistant", {"a"}, "none", FALSE, FALSE, "Bash"), Turn("assistant", {"y"}, "none", FALSE, FALSE, "Edit"),
   Turn("user", {"a"}, "h1", TRUE, FALSE, "none")}
MC_Tags == {{}, {"Bash"}}

(* Neighbours                                                                *)
Old(status, project, trigger) ==
  [id |-> 0, status |-> status, project |-> project, trigger |-> trigger, action |-> <<"do">>,
   variants |-> {}, search |-> {}, domains |-> {}, tools |-> {}, updated |-> 0]
MC_Table ==
  {Old(s, p, t) : s \in {"candidate", "active", "archived"}, p \in {"global", "p1", "p2"},
                  t \in {<<"a", "b">>, <<"c">>}}
MC_New ==
  [id |-> 0, trigger |-> <<"a", "b">>, action |-> <<"act">>, variants |-> {}, search |-> {}, domains |-> {}, tools |-> {}]
MC_Cosines == {<<>>, [k \in {1} |-> 90], [k \in {2, 3} |-> 10 * k + 51]}
MC_Limits == 1..2
MC_Memory ==
  <<[strength |-> "merge_replaced", trigger |-> <<"a">>, action |-> <<>>],
    [strength |-> "user", trigger |-> <<"a">>, action |-> <<>>],
    [strength |-> "system", trigger |-> <<"a", "b", "c">>, action |-> <<>>]>>

(* Installation: two events Nokori hooks into and one it does not; a user's  *)
(* hook that names nokori, and an entry that Nokori's command shares.        *)
MC_Events == {"PreToolUse", "SessionEnd"}
MC_Own(e) == IF e = "PreToolUse" THEN "nokori pre-tool-use" ELSE "nokori session-end"
MC_NamesNokori(c) == c \in {"nokori pre-tool-use", "nokori session-end", "report-nokori"}
Hooks(pre, end) ==
  [e \in {"PreToolUse", "SessionEnd", "Stop"} |->
     IF e = "PreToolUse" THEN pre ELSE IF e = "SessionEnd" THEN end ELSE <<{"log"}>>]
Settings(hooks, env) == [hooks |-> hooks, env |-> env]
Files(claude, cursor, pi) == [claude |-> claude, cursor |-> cursor, pi |-> pi, omp |-> "none", platforms |-> {}]
MC_Files ==
  {Files(Settings(<<>>, "none"), Settings(<<>>, "none"), "none"),
   Files(Settings(Hooks(<<{"lint"}, {"log", "test"}>>, <<>>), "none"),
         Settings([e \in {"PreToolUse"} |-> <<{"lint"}>>], "none"), "foreign"),
   Files(Settings(Hooks(<<{"lint"}, {"log", "nokori pre-tool-use"}>>, <<>>), "none"),
         Settings([e \in {"SessionEnd"} |-> <<{"report-nokori"}, {"log"}>>], "none"), "managed"),
   Files(Settings(Hooks(<<{"report-nokori"}>>, <<{"nokori session-end"}, {"lint"}>>), "1"), Settings(<<>>, "none"), "none")}
MC_Flags == {{}, {"claude"}, {"all"}, {"cursor", "pi"}}
=============================================================================
