SPECIFICATION FairSpec
CONSTANTS
  daemon = daemon
  admin = admin
  shell = shell
  NoProc = NoProc
  Daemon = daemon
  Proc <- MCProc
INVARIANTS UsableSessionsOwnTheOverlay
PROPERTIES OnlyADiscardLosesChanges DiscardsComplete
