SPECIFICATION ProbeSpec
CONSTANTS
  Activator = {"unit", "admin"}
  Guarded = {"unit"}
  Name <- MCName
  Content <- MCContent
  Absent = "absent"
  Unset = "unset"
  Lower <- MCLower
  Boots = 3
  Baseline = "baseline"
  Marker <- MCMarker
  Mark = "mark"
INVARIANTS
  OneSessionAtATime
  FailuresCanBeRetried
  ObservedIsARollback
  ApiTargetsStayOnDisk
PROPERTIES
  SessionsStartFromTheDirectory
  ActivationsEnd
