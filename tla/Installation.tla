---------------------------- MODULE Installation ----------------------------
(***************************************************************************)
(* The files of the hosts that nokori install edits: the settings of       *)
(* Claude with their hooks and environment, the hooks of Cursor, and the   *)
(* generated extensions of Pi and OMP.  A hook entry of Claude holds the   *)
(* commands it runs, one of Cursor a single command.                       *)
(***************************************************************************)
EXTENDS Integers, Sequences, FiniteSets, SequencesExt, Ranks

CONSTANTS
  Events,          \* the events Nokori has a hook for
  Own(_),          \* the command it installs for an event
  NamesNokori(_)   \* whether the text of a command has the word nokori in it

ASSUME OwnIsNamed == \A e \in Events : NamesNokori(Own(e))

Hosts == {"claude", "cursor", "pi", "omp"}

\* files: [claude, cursor, pi, omp, platforms].  claude: [hooks, env], where
\* hooks maps events to sequences of entries and env is what NOKORI_DISABLED is
\* set to; cursor: [hooks]; pi and omp: "none", "managed" or "foreign".

-----------------------------------------------------------------------------
(* Which hosts                                                             *)

\* flags is a set of hosts, with "all" for the two native ones.
Flagged(flags) == (flags \cap Hosts) \cup (IF "all" \in flags THEN {"claude", "cursor"} ELSE {})

ResolveInstallTargets(flags, uninstall) ==
  IF Flagged(flags) # {} THEN Flagged(flags) ELSE IF uninstall THEN Hosts ELSE {"claude"}

-----------------------------------------------------------------------------
(* Hooks                                                                   *)

\* An entry is taken for Nokori's own by the text of any of its commands, be it
\* the user's, and goes as a whole.
IsNokori(entry) == \E c \in entry : NamesNokori(c)

StripNokori(spec) == Keep(spec, LAMBDA entry : ~IsNokori(entry))

SpecOf(hooks, event) == IF event \in DOMAIN hooks THEN hooks[event] ELSE <<>>

\* Mutant: an earlier installation is not stripped first.
MergeHooksAgain(hooks) ==
  [e \in DOMAIN hooks \cup Events |->
     IF e \in Events THEN Append(SpecOf(hooks, e), {Own(e)}) ELSE hooks[e]]
MergeHooks(hooks) ==
  [e \in DOMAIN hooks \cup Events |->
     IF e \in Events THEN Append(StripNokori(SpecOf(hooks, e)), {Own(e)}) ELSE hooks[e]]

\* An event that has no entry left loses its key; one that was empty keeps it.
RemoveHooks(hooks) ==
  LET emptied == {e \in DOMAIN hooks \cap Events : hooks[e] # <<>> /\ StripNokori(hooks[e]) = <<>>}
  IN [e \in DOMAIN hooks \ emptied |-> IF e \in Events THEN StripNokori(hooks[e]) ELSE hooks[e]]

HasNokoriHooks(hooks) ==
  \A e \in Events : \E i \in DOMAIN SpecOf(hooks, e) : IsNokori(SpecOf(hooks, e)[i])

Truthy(value) == value \in {"1", "true", "yes", "on"}

-----------------------------------------------------------------------------
(* nokori install                                                          *)

IsManaged(source) == source = "managed"

\* A file that Nokori has not generated is neither overwritten nor removed, and
\* then nothing else is done either.
Refuses(files, targets) ==
  \E h \in targets \cap {"pi", "omp"} : files[h] # "none" /\ ~IsManaged(files[h])

\* hooks: what the settings files of the targets get to hold.
On(files, targets, hooks, extension) ==
  [h \in DOMAIN files |->
     IF h \notin targets THEN files[h]
     ELSE IF h \in DOMAIN hooks THEN [files[h] EXCEPT !.hooks = hooks[h]] ELSE extension]

MergePlatforms(files, targets) == [files EXCEPT !.platforms = @ \cup targets]
RemovePlatforms(files, targets) == [files EXCEPT !.platforms = @ \ targets]

\* The files are written in this order, each as a whole.  A write that fails
\* ends the command: reach holds the files whose turn came before that.
Order == <<"claude", "cursor", "pi", "omp", "platforms">>
Reaches == {{Order[i] : i \in 1..n} : n \in 0..5}

Completes(reach) == "platforms" \in reach

Install(files, targets, reach) ==
  LET hooks == [h \in {"claude", "cursor"} |-> MergeHooks(files[h].hooks)]
      written == On(files, targets \cap reach, hooks, "managed")
  IN IF Refuses(files, targets) THEN files
     ELSE IF Completes(reach) THEN MergePlatforms(written, targets) ELSE written

Uninstall(files, targets, reach) ==
  LET hooks == [h \in {"claude", "cursor"} |-> RemoveHooks(files[h].hooks)]
      written == On(files, targets \cap reach, hooks, "none")
  IN IF Refuses(files, targets) THEN files
     ELSE IF Completes(reach) THEN RemovePlatforms(written, targets) ELSE written

\* The environment of Claude only; the hooks stay registered.
SetEnvFlag(files, targets, value) ==
  IF "claude" \in targets THEN [files EXCEPT !.claude.env = value] ELSE files

Verbs == {"install", "uninstall", "disable", "enable", "preview"}

Run(files, verb, flags, reach) ==
  LET targets == ResolveInstallTargets(flags, verb = "uninstall") IN
  CASE verb = "install" -> Install(files, targets, reach)
    [] verb = "uninstall" -> Uninstall(files, targets, reach)
    [] verb = "disable" -> SetEnvFlag(files, targets \cap reach, "1")
    [] verb = "enable" -> SetEnvFlag(files, targets \cap reach, "none")
    [] verb = "preview" -> files \* a dry run, which shows the difference only

\* The hosts whose file and record need not agree, since the last command that
\* reached them failed before it recorded anything.
TornBy(torn, files, verb, flags, reach) ==
  LET targets == ResolveInstallTargets(flags, verb = "uninstall") IN
  IF verb \notin {"install", "uninstall"} \/ Refuses(files, targets) THEN torn
  ELSE IF Completes(reach) THEN torn \ targets ELSE torn \cup (targets \cap reach)

-----------------------------------------------------------------------------
(* nokori status                                                           *)

DescribeClaudeHooks(files) ==
  [installed |-> HasNokoriHooks(files.claude.hooks), disabled |-> Truthy(files.claude.env)]
DescribeCursorHooks(files) == [installed |-> HasNokoriHooks(files.cursor.hooks)]
DescribeDualHookRegistration(files) ==
  DescribeClaudeHooks(files).installed /\ DescribeCursorHooks(files).installed
DescribeExtension(files, host) == [installed |-> IsManaged(files[host])]

PlatformsForHealth(files) == IF files.platforms = {} THEN {"claude"} ELSE files.platforms
=============================================================================
