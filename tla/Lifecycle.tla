----------------------------- MODULE Lifecycle -----------------------------
(***************************************************************************)
(* The life cycle of one overlay shared by several processes (the boot     *)
(* daemon, the administration broker, the command line): open with its     *)
(* recovery, freeze, thaw with and without commit, close, and crashes of   *)
(* a process between any two steps.  What the overlay holds is abstracted  *)
(* to whether it holds changes; modules OverlayView, OverlayJournal and    *)
(* Commit have the detail.                                                 *)
(*                                                                         *)
(* A process that crashed or failed to open has no instance; the kernel    *)
(* drops its lock.                                                         *)
(***************************************************************************)
CONSTANTS Proc, NoProc,
          Daemon      \* the boot daemon

ASSUME ProcAssumption == NoProc \notin Proc /\ Daemon \in Proc

VARIABLES
  \* files
  overlay,      \* "absent", "bare" (no manifest.json) or "frozen" (with manifest.json)
  changed,      \* the journal of the overlay holds operations
  marker,       \* <T>.dfreezer.discarding exists
  target,       \* "frozen", "partial" (a commit began) or "merged"
  \* processes
  lock,         \* holder of <T>.dfreezer.lock
  pc,
  frozen,       \* frozen[p]: the instance's flag
  discarding,   \* discarding[p]: the instance's _discarding
  recovering    \* recovering[p]: _finish_discard was called by _open

files == <<overlay, changed, marker, target>>
flags == <<frozen, discarding, recovering>>
vars == <<files, lock, pc, flags>>

Init ==
  /\ overlay = "absent"
  /\ changed = FALSE
  /\ marker = FALSE
  /\ target = "frozen"
  /\ lock = NoProc
  /\ pc = [p \in Proc |-> "none"]
  /\ frozen = [p \in Proc |-> FALSE]
  /\ discarding = [p \in Proc |-> FALSE]
  /\ recovering = [p \in Proc |-> FALSE]

Go(p, from, to) ==
  /\ pc[p] = from
  /\ pc' = [pc EXCEPT ![p] = to]

(* The instance is gone: its constructor raised, it was closed, it died. *)
Gone(p) ==
  /\ pc' = [pc EXCEPT ![p] = "none"]
  /\ lock' = IF lock = p THEN NoProc ELSE lock
  /\ frozen' = [frozen EXCEPT ![p] = FALSE]
  /\ discarding' = [discarding EXCEPT ![p] = FALSE]
  /\ recovering' = [recovering EXCEPT ![p] = FALSE]

-----------------------------------------------------------------------------
(* Opening *)

Open(p) ==
  /\ Go(p, "none", "locking")
  /\ UNCHANGED <<files, lock, flags>>

AcquireUnlocked(p) ==
  /\ Go(p, "locking", "opening")
  /\ lock' = p
  /\ UNCHANGED <<files, flags>>

Acquire(p) ==
  /\ lock = NoProc
  /\ Go(p, "locking", "opening")
  /\ lock' = p
  /\ UNCHANGED <<files, flags>>

LockTimeout(p) ==
  /\ pc[p] = "locking"
  /\ lock # NoProc
  /\ Gone(p)
  /\ UNCHANGED files

CheckMarkerLate(p) ==
  /\ Go(p, "opening", IF marker /\ overlay = "absent" THEN "removing" ELSE "loading")
  /\ recovering' = [recovering EXCEPT ![p] = (marker /\ overlay = "absent")]
  /\ UNCHANGED <<files, lock, frozen, discarding>>

CheckMarker(p) ==
  /\ Go(p, "opening", IF marker THEN "removing" ELSE "loading")
  /\ recovering' = [recovering EXCEPT ![p] = marker]
  /\ UNCHANGED <<files, lock, frozen, discarding>>

Load(p) ==
  /\ overlay # "bare"
  /\ Go(p, "loading", "open")
  /\ frozen' = [frozen EXCEPT ![p] = (overlay = "frozen")]
  /\ UNCHANGED <<files, lock, discarding, recovering>>

(* An overlay without manifest is refused, and the lock released. *)
LoadRefused(p) ==
  /\ pc[p] = "loading"
  /\ overlay = "bare"
  /\ Gone(p)
  /\ UNCHANGED files

-----------------------------------------------------------------------------
(* Freezing *)

Freeze(p) ==
  /\ ~frozen[p]
  /\ Go(p, "open", "walking")
  /\ UNCHANGED <<files, lock, flags>>

MakeOverlay(p) ==
  /\ lock = p
  /\ ~discarding[p]
  /\ Go(p, "walking", "made")
  /\ overlay' = IF overlay = "absent" THEN "bare" ELSE overlay
  /\ UNCHANGED <<changed, marker, target, lock, flags>>

WriteManifest(p) ==
  /\ Go(p, "made", "listed")
  /\ overlay' = "frozen"
  /\ target' = "frozen"       \* what is now on disk is the new baseline
  /\ UNCHANGED <<changed, marker, lock, flags>>

EmptyJournal(p) ==
  /\ Go(p, "listed", "open")
  /\ changed' = FALSE
  /\ frozen' = [frozen EXCEPT ![p] = TRUE]
  /\ UNCHANGED <<overlay, marker, target, lock, discarding, recovering>>

-----------------------------------------------------------------------------
(* Working on a frozen session, and thawing it *)

Change(p) ==
  /\ pc[p] = "open"
  /\ frozen[p]
  /\ ~discarding[p]
  /\ changed' = TRUE
  /\ UNCHANGED <<overlay, marker, target, lock, pc, flags>>

Thaw(p, commit) ==
  /\ frozen[p]
  /\ ~discarding[p]
  /\ Go(p, "open", IF commit THEN "committing" ELSE "marking")
  /\ UNCHANGED <<files, lock, flags>>

RetryThaw(p) ==
  /\ discarding[p]
  /\ Go(p, "open", "removing")
  /\ UNCHANGED <<files, lock, flags>>

CommitSome(p) ==
  /\ pc[p] = "committing"
  /\ changed
  /\ target' = "partial"
  /\ UNCHANGED <<overlay, changed, marker, lock, pc, flags>>

CommitAll(p) ==
  /\ Go(p, "committing", "marking")
  /\ target' = IF changed THEN "merged" ELSE target
  /\ UNCHANGED <<overlay, changed, marker, lock, flags>>

MarkAfterRemoval(p) ==
  /\ pc[p] = "marking"
  /\ pc' = [pc EXCEPT ![p] = "removing"]
  /\ discarding' = [discarding EXCEPT ![p] = TRUE]
  /\ UNCHANGED <<files, lock, frozen, recovering>>

Mark(p) ==
  /\ Go(p, "marking", "removing")
  /\ marker' = TRUE
  /\ discarding' = [discarding EXCEPT ![p] = TRUE]
  /\ UNCHANGED <<overlay, changed, target, lock, frozen, recovering>>

(* rmtree removes the entries in any order, the directory last. *)
RemoveJournal(p) ==
  /\ pc[p] = "removing"
  /\ changed
  /\ changed' = FALSE
  /\ UNCHANGED <<overlay, marker, target, lock, pc, flags>>

RemoveManifest(p) ==
  /\ pc[p] = "removing"
  /\ overlay = "frozen"
  /\ overlay' = "bare"
  /\ UNCHANGED <<changed, marker, target, lock, pc, flags>>

RemoveOverlay(p) ==
  /\ overlay = "bare"
  /\ ~changed
  /\ Go(p, "removing", "unmarking")
  /\ overlay' = "absent"
  /\ UNCHANGED <<changed, marker, target, lock, flags>>

NothingToRemove(p) ==
  /\ overlay = "absent"
  /\ Go(p, "removing", "unmarking")
  /\ UNCHANGED <<files, lock, flags>>

Removing(p) ==
  RemoveJournal(p) \/ RemoveManifest(p) \/ RemoveOverlay(p) \/ NothingToRemove(p)

(* The end of _finish_discard: _open goes on loading, thaw clears the state. *)
Unmark(p) ==
  /\ Go(p, "unmarking", IF recovering[p] THEN "loading" ELSE "open")
  /\ marker' = FALSE
  /\ frozen' = [frozen EXCEPT ![p] = FALSE]
  /\ discarding' = [discarding EXCEPT ![p] = FALSE]
  /\ recovering' = [recovering EXCEPT ![p] = FALSE]
  /\ UNCHANGED <<overlay, changed, target, lock>>

-----------------------------------------------------------------------------
(* Errors, close and crash *)

(* An operation of the open instance raises; its files stay as they are.   *)
OperationFails(p) ==
  /\ ~recovering[p]
  /\ \E from \in {"walking", "made", "listed", "committing", "marking",
                  "removing", "unmarking"} : Go(p, from, "open")
  /\ UNCHANGED <<files, lock, flags>>

(* _open raises: the lock is released and there is no instance. *)
OpenFails(p) ==
  /\ \/ pc[p] \in {"opening", "loading"}
     \/ recovering[p]
  /\ Gone(p)
  /\ UNCHANGED files

Close(p) ==
  /\ pc[p] = "open"
  /\ Gone(p)
  /\ UNCHANGED files

Crash(p) ==
  /\ pc[p] # "none"
  /\ Gone(p)
  /\ UNCHANGED files

(* A step of an operation under way, one that an open instance may take    *)
(* and one that takes a process in or out.                                 *)
Operating(p) ==
  \/ Acquire(p) \/ LockTimeout(p) \/ CheckMarker(p) \/ Load(p) \/ LoadRefused(p)
  \/ MakeOverlay(p) \/ WriteManifest(p) \/ EmptyJournal(p)
  \/ CommitSome(p) \/ CommitAll(p) \/ Mark(p)
  \/ Removing(p) \/ Unmark(p)
  \/ OperationFails(p) \/ OpenFails(p)

Using(p) ==
  \/ Freeze(p) \/ Change(p) \/ RetryThaw(p)
  \/ \E commit \in BOOLEAN : Thaw(p, commit)

Next == \E p \in Proc : Operating(p) \/ Using(p) \/ Open(p) \/ Close(p) \/ Crash(p)

Spec == Init /\ [][Next]_vars

(* The daemon is started again and again; an operation under way goes on   *)
(* or fails; who opened an instance closes it (every caller does so with   *)
(* with or finally); and no process that comes to the same step of opening *)
(* and discarding again and again fails or dies there every time.          *)
Fairness ==
  /\ WF_vars(Open(Daemon))
  /\ \A p \in Proc :
       /\ WF_vars(Operating(p))
       /\ SF_vars(Close(p))
       /\ SF_vars(Acquire(p))
       /\ SF_vars(CheckMarker(p))
       /\ SF_vars(Removing(p))
       /\ SF_vars(Unmark(p))

FairSpec == Spec /\ Fairness
-----------------------------------------------------------------------------
(* Properties *)

TypeOK ==
  /\ overlay \in {"absent", "bare", "frozen"}
  /\ changed \in BOOLEAN
  /\ marker \in BOOLEAN
  /\ target \in {"frozen", "partial", "merged"}
  /\ lock \in Proc \cup {NoProc}
  /\ pc \in [Proc -> {"none", "locking", "opening", "loading", "open", "walking", "made",
                       "listed", "committing", "marking", "removing", "unmarking"}]
  /\ frozen \in [Proc -> BOOLEAN]
  /\ discarding \in [Proc -> BOOLEAN]
  /\ recovering \in [Proc -> BOOLEAN]

(* A session that accepts operations has a complete overlay of its own     *)
(* that nobody is discarding: neither another process nor an earlier       *)
(* discard that was cut short can take files away under it.                *)
Usable(p) == pc[p] = "open" /\ frozen[p] /\ ~discarding[p]

UsableSessionsOwnTheOverlay ==
  \A p \in Proc : Usable(p) => lock = p /\ overlay = "frozen" /\ ~marker

(* The files of a frozen overlay and the operations in it go away only     *)
(* once a thaw recorded the discard: whatever crashes, an overlay that     *)
(* nobody asked to discard is complete at the next open.                   *)
OnlyADiscardLosesChanges ==
  [][\/ overlay = "frozen" /\ overlay' # "frozen"
     \/ changed /\ ~changed'
       => marker]_vars

(* A discard that was begun is finished: by who began it, or, after a      *)
(* crash or an error, by the daemon at its next start.                     *)
DiscardsComplete == marker ~> ~marker
=============================================================================
