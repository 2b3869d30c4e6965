CONSTANTS
  s1 = s1
  s2 = s2
  Session = {s1, s2}
  MaxInteractions = 2
  QueueLimit = 1
  RetiredLimit = 1
  MaxErrors = 1
SPECIFICATION RealtimeSpec
SYMMETRY Symmetry
CHECK_DEADLOCK FALSE
INVARIANTS SessionsInOrder TransitionMoves
PROPERTIES LeaseLostOnlyInUndo SessionsKeepApart
