SPECIFICATION FairSpec
CONSTANTS
  N = 2
  NL = 10
  Inputs = {}
  MayFail = TRUE
  c1 = c1
  c2 = c2
  Conn = {c1, c2}
  Segments <- MCSegments
  BufLen = 5
  Resets = TRUE
  SendStalls = TRUE
INVARIANTS TypeOK StoredOnceInOrder LinesNeverMix
PROPERTIES AnswerIsDevice Served
\* Everything stops once the clients are done.
CHECK_DEADLOCK FALSE
