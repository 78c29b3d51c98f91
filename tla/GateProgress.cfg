\* One tool call after the other on Cursor, where a prompt may go unseen, with
\* hooks that time out and a rule that changes its version.
SPECIFICATION FairHistorySpec
CONSTANTS
  Prompts = {p1, p2}
  NoPrompt = NoPrompt
  Rules = {r1}
  Calls = {c1}
  Dismissals = {}
  Cursor = TRUE
  Timeouts = TRUE
  MaxTurns = 2
  MaxVersion = 2
PROPERTIES
  AgentGetsThrough
