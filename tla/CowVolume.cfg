SPECIFICATION Spec
CONSTANTS
  Width = 14
  SectorSizes = {2}
  Memory <- MCMemory
  Mounts <- MCMounts
  Calls <- MCCalls
  Poke = {3}
INVARIANTS
  ReadsAreRight
  DirtyWithinCapacity
PROPERTIES
  NothingElseWritten
  ImplementsFlatVolume
