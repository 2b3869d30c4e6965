SPECIFICATION Spec
CONSTANTS
  MaxStarts = 2
  MaxClicks = 2
  MaxFaults = 1
CHECK_DEADLOCK FALSE
INVARIANTS VoiceInOrder
PROPERTIES LateEventsEndNothing UserIsAnswered
