SPECIFICATION Spec
CONSTANTS
  Path <- MCPath
  Root <- MCRoot
  Above <- MCAbove
  Content <- MCContent
  Absent <- MCAbsent
  Dir <- MCDir
  Base <- MCBase
  MaxSeq = 4
INVARIANTS TypeOK TreeShaped QueriesAgree LiveOpsAreListed
PROPERTIES OnlyItsLineChanges ImplementsVirtualTree
CHECK_DEADLOCK FALSE
