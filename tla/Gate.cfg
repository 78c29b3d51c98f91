\* Two parallel calls, a dismissal that rewrites the markers, and two turns.
SPECIFICATION HistorySpec
CONSTANTS
  Prompts = {p1, p2}
  NoPrompt = NoPrompt
  Rules = {r1}
  Calls = {c1, c2}
  Dismissals = {d1}
  Cursor = FALSE
  Timeouts = FALSE
  MaxTurns = 2
  MaxVersion = 1
SYMMETRY CallSymmetry
INVARIANTS
  TypeOK
PROPERTIES
  DeniesOncePerMarker
  DismissedNeverDenies
