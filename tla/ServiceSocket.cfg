SPECIFICATION SSpec
CONSTANTS
  t1 = t1
  p1 = p1
  p2 = p2
  Target <- MCTarget
  Pid <- MCPid
  Starts = 3
INVARIANTS
  NothingOlderSurvives
  OnlyOthersTurnItAway
PROPERTIES
  AnsweringServersAreKept
  AnswersInTheEnd
CHECK_DEADLOCK FALSE
