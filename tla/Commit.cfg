SPECIFICATION CSpec
CONSTANTS
  Path <- MCPath
  Root <- MCRoot
  Above <- MCAbove
  Content <- MCContent
  Absent <- MCAbsent
  Dir <- MCDir
  Base <- MCBase
  MaxSeq = 3
INVARIANTS CommittedSessionLands RetriesGetAsFar
PROPERTIES CommitKeepsReads
CHECK_DEADLOCK FALSE
