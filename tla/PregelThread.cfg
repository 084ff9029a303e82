\* Fan-out, Sends, a loop, two interrupting nodes, failures, a crash, two updates.
SPECIFICATION Spec
CONSTANTS
  a = a
  b = b
  c = c
  d = d
  e = e
  Nodes = {a, b, c, d, e}
  Start = Start
  End = End
  Routes <- Diamond
  Commands = {c}
  Questions <- AskBC
  Fallible = {a}
  InterruptBefore = {e}
  InterruptAfter = {d}
  MaxRuns = 3
  MaxUpdates = 2
  RecursionLimit = 3
  Overlap = FALSE
  MayCrash = TRUE
CHECK_DEADLOCK FALSE
INVARIANTS HistorySound AppliedAtMostOnce AnswerAcceptedOnce
PROPERTIES InterruptIsResumable RunsEnd
