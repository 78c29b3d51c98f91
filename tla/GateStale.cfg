\* One call at a time, and a prompt that the user sends again.
SPECIFICATION HistorySpec
CONSTANTS
  Prompts = {p1, p2}
  NoPrompt = NoPrompt
  Rules = {r1}
  Calls = {c1}
  Dismissals = {}
  Cursor = FALSE
  Timeouts = FALSE
  MaxTurns = 3
  MaxVersion = 1
PROPERTIES
  StaleMarkerAllows
