CONSTANTS
  t1 = t1
  t2 = t2
  t3 = t3
  Request = {t1, t2, t3}
  Streamed = {t1}
  MaxTalks = 2
  MaxFaults = 2
SPECIFICATION FairSpec
CHECK_DEADLOCK FALSE
INVARIANTS TextAndVoiceApart
PROPERTIES OrderIsKept AcceptedTextEnds
