# A formal model of userfreezer

This directory is a TLA+ development beside the code of userfreezer
(DeepFreezer): modules translated from the source, TLC configurations that
check them on small instances, and TLAPS proofs of what holds for every
instance. Paths are relative to the root of the repository.

## 1. Inventory of the system

| Component | State | Operations | Talks to |
|---|---|---|---|
| **Frozen view**, `deepfreezer.py` | `ops` (path → last operation, with its sequence number), `_write_payloads`, `_seq`; the baseline on disk | `write`, `mkdirs`, `remove`, `read`, `exists`, `is_dir`, `iterdir`, `diff`, `verify` | journal, target directory |
| **Overlay journal**, `deepfreezer.py` | `payloads/<id>`, `md/<rel>`, `del/<rel>`, `journal.log` | `_put_payload`, `_journal`, `_load_journal` | frozen view |
| **Commit**, `deepfreezer.py` | the target directory | `_apply_commit`, `_commit_posix` | frozen view, life cycle |
| **Life cycle**, `deepfreezer.py` (with its command line) | overlay directory, `manifest.json`, `<T>.dfreezer.lock`, `<T>.dfreezer.discarding`, the flags `frozen` and `_discarding` of each instance | open, `freeze`, `thaw`, `close` | every process that opens the overlay |
| **Administration broker**, `admin_ipc.py`, `admin_client.py`, `admin_ipc_win.py` | `_pending`: nonce → (identity of the peer, operation, target, expiry); the Unix socket or the named pipe | `prepare`, `discard`, `commit`, `freeze`, `status`, the `uwf-*` actions; `serve_unix`, `serve_windows` | life cycle, health report, clients |
| **Boot enforcement**, `deepfreezerd.py`, `deepfreezer_service.py`, `enforcement_health.py` | `status.json` | thaw and freeze every target, publish the report, serve the broker | life cycle, broker |
| **NT commit ledger**, `nt_commit_checkpoint_experimental.py`, `nt_commit_experimental.py` | write-once marker files INTENT, STARTED(i), DONE(i), COMPLETE | `apply_checkpointed_plan_experimental`, inspection | the target, operators |
| **NT incident records**, `nt_commit_forensics_…`, `nt_commit_resolution_…`, `nt_commit_effects_…` | REVIEW, RESOLUTION | inspect, record review, record resolution, inspect resolution | ledger |
| **NT plan bridge and pinned readers**, `nt_commit_bridge_…`, `nt_overlay_*`, `deepfreezer.py` | none: everything is read again in every call | preview of an NT commit, assessment of its safety | journal, frozen view, ledger |
| **NT enrolment**, `nt_enrollment*` | one sealed record per root | enrol once, load | plan bridge, ledger |
| **Sector copy-on-write core**, `native/common/uf_cow_core.c` | baseline, overlay, dirty map, dirty count | init, read, write, discard | none (reference implementation) |
| **Audit minifilter**, `native/windows/uf_audit_minifilter.c` | counters of observed operations | setup, callbacks, unload | Windows filter manager |
| **OverlayFS session and its probe**, `packaging/linux/overlayfs_session.py`, `overlayfs_vm_reboot_probe.py` | a mount, a staging directory on a tmpfs; the evidence file | activate, status; prepare, verify after reboot | the kernel, the configuration of the API |
| **OS-level status, UWF laboratory**, `os_level_status.py`, `uwf_ipc_lab.py` | what `uwfmgr` sets for the next Windows session | probe, stage | Windows tools, broker |
| **UI, packaging, probes, release gate** | none the program depends on | – | broker |

Which behaviours are hard: the order of operations on nested paths (a parent
and its children hide and reveal each other), crashes and I/O errors inside
every multi-step operation (append, freeze, discard, commit, activate, stage),
several processes on one overlay, one socket or one directory, two readers of
one journal, and records that outlive the process that wrote them. What makes
each part correct is stated as properties below; `PROJECT.json` lists the
hazards at their lines with the properties that look after them.

## 2. The modules

| Module | Models | Correspondence |
|---|---|---|
| `Paths` | relative paths | `Above[p]`: the proper prefixes of the key `p`; nothing else about a path matters to the code |
| `VirtualTree` | the promise of a frozen session: one node per path, no sequence numbers | abstract specification, implemented by `OverlayView` |
| `OverlayView` | the frozen view | `ops`, `seq` are `self.ops`, `self._seq`; `marker` the files under `md/` and `del/`; `disk` the target; `Classify` is `_classify`; one action per operation |
| `Commit` | `thaw(commit=True)` on POSIX, extends `OverlayView` | `StartCommit` is the check of every path before the first operation, `todo` what is left of `ordered`; one action per system call. `Fits` is what the calls of POSIX want to find at a path; `checked` and `done` remember how far attempts came |
| `OverlayJournal` | durability of one operation | payload → journal line → memory; `lines` and `tail` abstract the bytes of `journal.log` to what the loader reads of them |
| `NtPreview` | `preview_windows_native_commit` and `inspect_windows_native_commit_safety`, extends `OverlayJournal` | `ids` is `_write_payloads`; `step` the point the call has reached; `Agrees` is the strict reader and its comparison with the tables; the ledger is there as "INTENT" and "other markers", which a commit that began goes on to write also when INTENT was deleted |
| `Lifecycle` | all processes on one overlay | `pc[p]` is the point process `p` has reached inside `_open`, `freeze`, `thaw` or `_finish_discard`; a command of the command line is one such process |
| `NtLedger` | all runs ever started on one NT target | `ledger[m]` is the content of marker file `m`; `pc[r]` the point run `r` has reached in `apply_checkpointed_plan_experimental`; `Verdict` is `_inspect_open_store` |
| `NtIncident` | the operator beside those runs, extends `NtLedger` | `seen` is what the operation under way has read so far, marker by marker; INTENT is read once more between the two readings of a report; `review` and `resolution` are the two notes |
| `AdminBroker` | the table of nonces and the staging of UWF it authorises | `pending` is `_pending`; one action per outcome of `process`, which holds the mutex from beginning to end; a staging is several steps, because it may stop between two commands, and no call is handled meanwhile. `identity[p]` is what the transport tells the broker of a process: its pid on Linux, the SID of its user on Windows. `late` are the commands that were given up and may take effect after their call, or after the service that ran them |
| `BootEnforcement` | all starts of the boot service, by any number of processes | `overlay[t]` is what a whole open, freeze or thaw leaves behind; `status` and `temps` are `status.json` and its temporary files |
| `ServiceSocket` | how such a process comes to answer, extends `BootEnforcement` | `path` is who made the socket (its device and inode) or holds the pipe; `ipc[p]` the point reached in `serve_unix`: every `lstat`, `connect`, `unlink`, `bind` is a step |
| `FlatVolume` | the promise of the copy-on-write core: a volume of bytes that can be put back | abstract specification, implemented by `CowVolume` |
| `CowVolume` | `uf_cow_core.c` | `volume` is `struct uf_cow_volume`; pointers and sizes are numbers below `Width`, a call goes sector by sector |
| `OverlayfsSession` | `activate`, the guard of the boot unit, `protection_status`; reboots and unmounts | `layers` and `staging` are what the kernel and `/run` hold; `pc[a]` the command that comes next |
| `OverlayfsProbe` | the two calls of the reboot probe, extends `OverlayfsSession` | `file` and `evidence` are the JSON file; `note` the local variables of a call |
| `MC*` | instances for TLC | |
| `*_proofs` | TLAPS theorems | `OverlayView_proofs` is about `OverlayView` and `Commit`, `OverlayJournal_proofs` about `OverlayJournal` and `NtPreview`, `NtLedger_proofs` about `NtLedger` and `NtIncident`, `BootEnforcement_proofs` about `BootEnforcement` and `ServiceSocket`, `Overlayfs_proofs` about `OverlayfsSession` and `OverlayfsProbe`; the others are about the module they are named after |

The modules overlap where the components do. `Commit` and `Lifecycle` both have
the commit: the first one path by path for a single process, the second as
"some of it" and "all of it" beside other processes. `BootEnforcement` and
`AdminBroker` take from `Lifecycle` what an operation on an overlay can leave
behind when it succeeds, raises or dies (`Failing`, `Opened`), target by target.

A definition named after a fault (`EnforceKept`, `InspectNothing`,
`MarkerUnchecked`, …) is used by no
specification: it is a plausible slip in the definition that follows it, listed
in `PROJECT.json` with the property that notices the slip.

## 3. What is model-checked

Run a configuration with `tlc -config <cfg> <MC module>`. The numbers are
distinct states.

| Run | Instance | States | What it shows |
|---|---|---|---|
| `overlay_view` | `d`, `d/f`, `d/s`, `d/s/x`, `g`; 4 operations | 53,779 | the resolution by sequence numbers is a tree, answers as `VirtualTree` does and implements it; an operation never shows on another branch; what the overlay put into the view is listed |
| `commit` | `d`, `d/f`, `d/f/g`, `n`, `n/s`, `n/s/x`, of which `d` and the file `d/f` are in the baseline; 3 operations | 111,848 | every session committed, cut short between any two system calls, retried, given up: no `read` changes its answer, a retry gets as far as any attempt before it (unless one path is a file and a directory in turn), and a finished commit has put the view and the removals into the target |
| `journal` | 2 paths, 2 contents, sequence numbers to 3; a commit of another process | 3,411,840 | failures and crashes between and inside payload, line and memory: what returned is recovered (unless something was appended to a damaged tail), a session reads what it promised, a confirmed payload is never overwritten; an NT plan that is prepared is exactly the session and what the next open shows, and an INTENT that was there goes unnoticed only when it was deleted meanwhile |
| `lifecycle` | daemon, administrator, shell | 1,604 | a usable session has the overlay to itself; only a recorded discard takes anything away; a discard that was begun is finished |
| `nt_incident` | 2 runs, 2 plans, 2 operations, 2 notes | 1,846,595 | one run at most touches the target, operations go in order, an inspection is right or raises, an attempt that touched the target never looks fresh; reports made beside a live run agree with the target; a resolution stands on its review, also when it is told of later |
| `admin_broker` | 2 processes, on Linux or of one Windows user, a target, a volume, 3 nonces, 2 places, a restart of the service or the machine | 594,668 | every discard, commit and staging was prepared by the same identity for the same thing, in the same run of the service, in time; no nonce works twice; the table stays within its capacity; of the stagings whose commands ended with their calls, at most one set something for the next Windows session |
| `service_socket` | a target, 2 process ids, 3 starts, either platform | 506,750 | what a target reported healthy holds was changed in the reported start or later; a process that answers loses its socket only to one that could not know; a process alone is never turned away; every start comes to answer, is turned away, or dies |
| `cow_volume` | memory of 13 addresses, 2 sectors of 2 bytes, all good and many bad layouts | 438,952 | the core implements a flat volume; reads return its bytes; the dirty count is the number of dirty sectors and within the limit; nothing but overlay, marks and the buffer of a read is written |
| `overlayfs` | boot unit and administrator, a baseline file and a marker, 3 boots | 440,818 | one activation at most past its checks, one layer at most; failures by themselves can be retried; a session starts from the directory; no API target comes under it unless configured or mounted by hand; what the probe reports as a rollback is one |
| `commit_applies`, `journal_torn_tail`, `socket_identity` | as `commit`, `journal` without the preview, `service_socket` with 2 starts | – | the three violations of section 5 |

**Why the bounds are enough.** The paths of `overlay_view` have every relation
the code distinguishes: a parent, a child, a grandchild, a sibling and an
unrelated path; four operations make a parent, a child, a grandchild and one
more that shadows or revives them. `commit` needs a directory in the baseline
with a file in it, a path below that file, which the check of the paths refuses,
and a directory that is not there, with two levels below it. `journal` needs a failed write,
a second write that may reuse its number, a crash, a reopen and a line after
it; `MaxSeq` bounds sequence numbers and not operations, since a reopen goes on
from the journal, so that sessions may follow each other without end. In
`lifecycle` a process can wait for, hold and inherit the lock; a third one adds
who finishes what the second left. `nt_incident` has two operations because
the order needs two, two plans for a run that meets markers of another plan,
and two notes because a resolution needs a review; reports, with which every
operation of the operator begins, are not bounded.
`admin_broker` fills its table, expires one nonce and keeps a third; a staging,
its retry after a failure, a command of the first that takes effect beside the
second and a restart fit into three nonces and two runs. On Windows both
processes run as one user, whom the broker does not tell apart; that two users
are kept apart is the same comparison as that of two processes on Linux, and
the theorem has any number of users.
`service_socket` lets a start fail between two that succeed, with the process
id of the first one used again, or two start at once beside the socket of a
dead one. `cow_volume` has calls inside a sector, across both, beyond the end,
and with an offset and a size whose sum wraps at `Width`; overlapping and
misplaced arrays, a limit below, at and above the number of sectors. In
`overlayfs` one boot makes the evidence, the next one is the reboot, a third one
comes back to a directory the second one changed. Bounds that are in guards:
`MaxSeq`, `Operations`, `Nonces`, `Clock`, `Runs`, `Starts`, `Boots`; bounds on
arguments: `Mounts`, `Calls`, `Poke`.

**Symmetry** is used where no liveness is checked and values are
interchangeable: paths and contents of `journal`, runs and plans of
`nt_incident`, peers of `admin_broker`.

**`CHECK_DEADLOCK FALSE`** is set where the system really stops or a bound in a
guard is used up: after a commit or discard of the only session (`commit`),
after `MaxSeq` operations (`overlay_view`), when every run of the ledger is over
(`nt_incident`), after the last run of the service (`admin_broker`) or its last
start (`service_socket`). `journal`, `lifecycle`, `cow_volume` and `overlayfs`
never stop and are checked for deadlock.

**Fairness.** `lifecycle` (for `DiscardsComplete`): the daemon is started again
after every end (systemd and the Windows service manager restart it, and it is
enabled at boot); an operation under way goes on or raises; whoever opened an
instance closes it, as every caller does with `with` or `finally`; and a process
that reaches the same step of opening and discarding over and over does not
fail or die there every time – without that an `rmtree` that never succeeds
keeps a discard unfinished for ever, which no program can help.
`service_socket` (for `AnswersInTheEnd`) and `overlayfs` (for `ActivationsEnd`):
a process goes on with what it is doing; no success of any step is assumed, and
it may die everywhere.

**Assumptions of the models.** A rename and the exclusive creation of a file
are atomic, and durable once they returned. The kernel releases the lock of a
process that dies, and tells the truth about peers and tokens. On Linux a pid is
not given to another process of root within the life of a nonce (30 seconds). On
Windows the name of the pipe is free again when its server process is gone; a
client that keeps its end of the only instance open (`admin_ipc_win.py:56-61`)
can make the next server wait longer than that, which `ServiceSocket` leaves
out. A command of `uwfmgr` that is given up may take effect at any later time,
but not after the machine was started again. The directory of
the Unix socket passes the checks `serve_unix` makes of it (a start that fails
them ends before it touches anything). In `cow_volume` the caller may damage a
mark and refill its buffers between two calls, never during one and not the
volume record.

Type invariants are run where they say more than a type (`admin_broker`, where
it has the capacity of the table, and `overlay_view`); the others are parts of
the inductive invariants that are proved.

## 4. What is proved

Every safety property and every refinement that a passing run of section 3
checks is also a theorem: it holds for every value of the constants, checked by
`tlapm`. Only liveness is left to TLC.

| Theorem | Statement | Argument |
|---|---|---|
| `OverlayView_proofs!TypeCorrect`, `SeqsAreDistinct` | `Spec => []TypeOK`, `[]SeqsDistinct` | a new operation gets a number above all numbers in the table |
| `OverlayView_proofs!QueriesAreRight`, `TheViewIsATree`, `LiveOpsListedAlways` | `Spec => []QueriesAgree`, `[]TreeShaped`, `[]LiveOpsAreListed` | *The view* below |
| `OverlayView_proofs!ViewImplementsVirtualTree`, `OtherBranchesKeepTheirView` | `Spec => ImplementsVirtualTree`, `OnlyItsLineChanges` | *The view* |
| `OverlayView_proofs!CommitsCanBeRetried`, `CommitsLand`, `CommitsKeepReads` | `CSpec => []RetriesGetAsFar`, `[]CommittedSessionLands`, `CommitKeepsReads` | *The commit* |
| `OverlayJournal_proofs!PayloadsImmutable` | `Spec => ConfirmedPayloadsImmutable` | *The journal* |
| `OverlayJournal_proofs!SessionReads`, `AcknowledgedIsRecovered` | `Spec => []SessionReadsWhatItPromised`, `[]AcknowledgedRecovered` | *The journal* |
| `OverlayJournal_proofs!CallsAreReadOnly` | `PSpec => Spec` | every step of a preview is a stutter of the session, every other one a step of it |
| `OverlayJournal_proofs!PreflightRight` | `PSpec => []PreflightIsRight` | *The preview* |
| `Lifecycle_proofs!TypeCorrect`, `SessionsOwnTheOverlay`, `NothingLostWithoutADiscard` | `Spec => []TypeOK`, `[]UsableSessionsOwnTheOverlay`, `OnlyADiscardLosesChanges` | *One process at a time* |
| `NtLedger_proofs!AtMostOneRun`, `NoFreshStart` | `Spec => []OneRunTouchesTheTarget`, `NoFreshStartAfterEffects` | *One run touches the target* |
| `NtLedger_proofs!AppliedInOrder`, `InspectionIsRight` | `Spec => []OperationsInOrder`, `[]LedgerIsTruthful` | *Operations in order* |
| `NtLedger_proofs!ReportsOfOneMoment`, `ResolutionsStandOnReviews` | the operator's `[]ReportsAreOfOneMoment`, `[]ResolutionFollowsReview` | *The operator* |
| `NtLedger_proofs!TruthfulBesideTheOperator`, `NoFreshStartBesideTheOperator` | the properties of the runs, of the specification with the operator | no step of the operator changes a marker, the target or a run; that notes exist only makes a fresh start refused more often |
| `AdminBroker_proofs!TypeCorrect` | `Spec => []TypeOK`, the capacity of the table included | the table is a finite set of records (`TableOK`); a preparation adds one, and is refused when the table is full |
| `AdminBroker_proofs!NothingUnprepared`, `OneOperationPerNonce` | `Spec => []ExecutedWasPrepared`, `[]NoncesWorkOnce` | every pending record is `Genuine`: it is what was issued in this run, and its nonce was not used; a confirmation takes the record out as it uses the nonce, and a new nonce is above all issued ones |
| `AdminBroker_proofs!OneStagingAtMost` | `Spec => []StagedOnce` | *Staging* |
| `BootEnforcement_proofs!HealthyMeansRestored`, `HealthyBesideTheClients` | `[]NothingOlderSurvives`, also with the socket | what a start enforced holds only changes of that start or later (`GoodHoldsOnlyNew`), and no step of any process brings in an older one, so that the published report and the unpublished ones are right |
| `BootEnforcement_proofs!AloneNeverTurnedAway`, `AnsweringServersKeepTheirName` | `[]OnlyOthersTurnItAway`, `AnsweringServersAreKept` | *The socket* |
| `CowVolume_proofs!CapacityIsKept`, `ReadsReturnTheVolume`, `CallsWriteOnlyTheirs` | `Spec => []DirtyWithinCapacity`, `[]ReadsAreRight`, `NothingElseWritten` | *The copy-on-write core* |
| `CowVolume_proofs!CowIsFlat` | `Spec => ImplementsFlatVolume` | *The copy-on-write core* |
| `Overlayfs_proofs!ActivationsExclude`, `RetryIsPossible`, `ApiTargetsAreSafe`, `NothingComesBack` | `[]OneSessionAtATime`, `[]FailuresCanBeRetried`, `[]ApiTargetsStayOnDisk`, `SessionsStartFromTheDirectory` | *Sessions on OverlayFS* |
| `Overlayfs_proofs!SessionsBesideTheProbe`, `RollbackEvidenceIsSound` | the same beside the probe; `[]ObservedIsARollback` | *Sessions on OverlayFS* |

*The view.* `ViewInv` says what every table of operations satisfies: numbers
are distinct, each operation is of one of the three kinds and a write has a
content (`KindsRecorded`), and whatever the target directory holds has
directories above it (`DiskIsATree`). Of the operations that cover a path the last one decides,
and it is unique because numbers are distinct (`SeqsDistinct`); that gives
`NodeOf`, the node a plain tree would have. The other way round, a path with an
operation that nothing shadows makes every proper prefix a directory, which is
`Exists`, `IsDir` and the listing by `HasLiveChild`: the proof takes a shadowing
operation with the largest number and follows it up the path. The tree and the
queries are consequences of `ViewInv`; the refinement then goes operation by
operation, with the nodes that the new number covers replaced and no other.

*The commit.* Beside `ViewInv` the invariant `CommitInv` says that what was
applied is older than what is still to be applied (`AppliedInOrder`), that it
is in the target unless a later operation covers it (`AppliedHolds`), that no
removed path is above another one, their marker files being one tree
(`RemovalsApart`), and that what the session is to leave is the resolution of
each path (`GoalIsTheView`). `CommitsLand` is about what the view has and what
was removed for good; the target may hold more (section 5). A retry meets what
the earlier attempts left: a file is only put where a write wants one, a
directory only where one is made or above something that is created, and
everything else is a removal; so what passed the check or fitted does so again,
unless another operation of the same line wants the same path to be of the other
kind, which is `Clash`. That every call finds a directory above the path it
changes is the file system's doing and stays a part of the invariant
(`DiskIsATree`), not a result.

*The journal.* The invariant `IInv` of `OverlayJournal_proofs` has the two
properties in it and what they need to be inductive. The last line of the
journal exists and is above all others (`NewestExists`; lines are bounded, so a
damaged one at the end leaves a newest one). `seq` is never behind a line while
the session runs (`Fresh`), hence a new payload is not one that a line names;
that is `ConfirmedPayloadsImmutable`. An operation that has its payload or its
marker in place (`InPlace`), and every line that was appended (`AllBacked`),
can be loaded; so a reopen finds for each path its newest line
(`LoadedIsNewest`), and the line just appended is the newest of its path
(`AppendedIsNewest`). What an operation that returned promised is therefore
what memory holds, and, as long as nothing was appended to a damaged tail, what
a reopen loads.

*The preview.* `PSpec => Spec` makes all of that available. When the strict
reader agrees with the tables, the newest line of each path is the line of its
last confirmed operation, and the plan that is loaded from it in order is what
the session promised, and with the sequence number equal to the journal's, what
a reopen shows. INTENT is looked for first and last: a commit that was there at
any time and whose INTENT nobody took away is there at the last look.

*The copy-on-write core.* `CowInv` says that the three arrays are in the memory
and apart (`Mounted`), which `RangesOverlap` established, in numbers that do
not wrap because an object ends at `Width` at the latest; that a call in
progress stays within the volume, and its buffer within the memory and outside
of the arrays (`CallInBounds`); that what it has still to touch was found sound
and fits into the limit, and that a read has copied what the volume held
(`CallOnItsWay`). The sectors still to come shrink by the one just done
(`StillTouched`, from the arithmetic of `\div` and `%` in `NextSector` and
`SameSector`), so that each first write takes one sector from the set of clean
ones that was counted before the call began. For the refinement, a write counts
as done when it is accepted: bytes of the buffer that were not copied yet stand
for those of the volume, and no step of the call can change them, since buffer
and arrays are apart.

*One run touches the target.* INTENT cannot carry the argument: it may be
deleted, and two runs may each have created one. STARTED(0) can. It is created
once (exclusive creation, and nothing removes it), and `owner[Started(0)]` says
by whom. `FirstStarted` says that every run past STARTED(0), and every run that
ever began an operation, is that owner. To keep it, a run that finishes writing
STARTED(0) must be its owner (`WritersOwn`): it was created by the run that
writes it, and stays. `OneRunTouchesTheTarget` follows at once. An effect on the
target implies that STARTED(0) has an owner, hence is in the store, hence a run
that scans a store without INTENT is refused: `NoFreshStart`.

*Operations in order, inspections right.* `Chain` adds how far the owner has
come: all markers below `at[owner]` exist and none above (`MarkersUpTo`), all
operations below it are complete and none above it has begun (`EffectsUpTo`),
and every marker but INTENT belongs to the owner. An inspection sees the markers
up to some point; DONE(i) among them implies the effect, and STARTED(i) not
among them implies that there is none (`ChainIsTruthful`, `VerdictFacts`).

*The operator.* Markers other than INTENT only grow, and a STARTED marker is
there before its operation touches the target. So what the first reading found
done was done when the second one began, and what the second one finds not
started was not touched by then: two readings that agree tell of that moment
(`ReadInv`). A resolution goes on only for an interrupted attempt and is
written only when the review fits the report (`NoteInv`).

*Staging.* Leaving out the stagings of which a command was given up, one that is
past its inspection is the only one that changed something; as long as something
was changed a flag for the next session is set, and both are once it was
reported (`OneStager`). Every staging inspects first, and is refused when a flag
is set. A late command is always one of a staging that is known to have one, so
that its effect, whenever it comes, adds none to the others; without leaving
those out the statement is false (section 5).

*The socket.* `SocketInv` ties the point a process has reached to what it has
seen: who was seen answering has its bind behind it and does not bind again
(`SeenAreBound`), so the name a process is about to unlink or remove is nobody's
that it saw (`LooksBefore`); a pipe is there as long as somebody answers on it
(`PipeOfOne`); and while a process is the only one, what it found on the path
is still so (`AloneIsUndisturbed`).

*Sessions on OverlayFS.* The staging directory is the lock: whoever made it is
the only activation past its checks, and how far it has come is what is staged
(`StagingFollows`). An activation by the boot unit goes on only after it saw no
target of the API, and any moment without one is remembered for the boot
(`GuardRemembered`). `ProbeInv` adds that a marker written to the disk stays
there, and that one the upper layer does not hold was not on the disk either
(`MarkersStay`), and that what a note or an evidence file tells is about a
marker that was written, in a boot that is not later than this one (`NotesAreTrue`).

*One process at a time.* In `Lifecycle_proofs`, `Knows(p)` is what a process
past the lock may rely on at the point it has reached, for instance: not
discarding and frozen means a complete overlay, removing means the marker is
on disk, freezing means nothing is recorded in the overlay. Each step of `p`
keeps `Knows(p)`; no step of another process can disturb it, since only the
holder of the lock is past it (`OthersKeep`).

Assumptions on the constants are stated in the modules that declare them and
evaluated by TLC in every run: `Absent` and `Dir` are not contents, `NoRun` is
not a run, a plan has at least one operation, and the like.

**Only model-checked.** Liveness under fairness (`DiscardsComplete`,
`AnswersInTheEnd`, `ActivationsEnd`) is out of the prover's reach, as is
whatever needs `ENABLED`, and induction over data: what a recursive definition
computes for every input. The modules have no recursive definition; where a
proof needs to go along a path or the operations of a session it takes a
largest or a smallest element of a set. The violations of section 5 are shown
by TLC.

**No `CASE` expression in modules that proofs are about.** The SMT backend of
`tlapm` 1.4.5 takes two `CASE` expressions for equal as soon as their first and
their `OTHER` arms are, so that `(CASE P -> 2 [] OTHER -> 1) = (CASE P -> 2 []
Q -> 3 [] OTHER -> 1)` is "proved". These modules use `IF ... THEN ... ELSE`.
As a check of the proofs themselves, each fault definition (section 2) was put
in place of the definition it is a slip of: in every case the proof of the
property it breaks fails.

## 5. Observed while modelling

Disagreements between the code and what its documentation says, each with a run
that shows it:

1. **`commit_applies`** – `write("d")` over a directory `d` of the baseline, which
   was never removed, is accepted and read; the commit calls `os.replace` over
   the directory and raises, this time and every time (`deepfreezer.py:443`).
2. **`journal_torn_tail`** – an append that fails half-way (an I/O error, a full
   disk) leaves part of a line, and the session goes on. The line of its next
   removal is glued to the torn one, and the removal returns; the next open
   stops at that line and shows the file again (`deepfreezer.py:704`, `:231`).
   No crash is needed for it; a crash inside an append leaves the same tail,
   which the loader tolerates and leaves in the file, and the first operation
   acknowledged after the reopen is lost in the same way.
3. **`socket_identity`** – a second daemon that finds the socket bound and not
   yet listened on is refused by `connect`, unlinks it and binds its own; the
   `lstat` of the first one then takes the identity of that one, and its
   `finally` deletes the socket of the other (`admin_ipc.py:369`).

Behaviour that no run shows and a reader should know of:

- The flag `d` of a removal is what the view showed when it was recorded. After
  `remove("d")` twice, or `write("d")` over a removed directory and
  `remove("d")`, it disagrees with the disk, and the commit fails at that
  operation every time (`deepfreezer.py:821`, `:467`); `EveryOperationApplies`
  fails of it as well, with more operations than its shortest trace has.
- A path that is a file and then a directory of the same session can make a
  retry impossible: after `write("n")`, `remove("n")`, `write("n/s")`, a commit
  that was cut short when the parent `n` had been made finds a directory where
  the removal expects a file, and raises at every retry, while a commit that is
  not cut short succeeds. After `remove("f")` of a file of the baseline and
  `write("f/g")` the check of the paths refuses every commit, the first one
  too, since it looks at the target and not at the view
  (`deepfreezer.py:362-384`). `RetriesGetAsFar` leaves out such lines
  (`Clash`).
- On Windows the broker is told the user of a client and not its process
  (`admin_ipc_win.py:25-40`, `:73-74`): another process of the same
  administrator can confirm a nonce, contrary to the comment that there is no
  replay of confirmations between processes (`admin_ipc.py:229-230`).
  `ExecutedWasPrepared` is therefore about identities.
- A command of `uwfmgr` that took longer than 45 seconds has been killed or goes
  on by itself, and what it does is not known (`uwf_ipc_lab.py:128-133`). If it
  takes effect after a later staging has inspected the settings, both stagings
  have set a part of the next session, and the later one may report the sum of
  both as its own. `StagedOnce` leaves out the stagings of which a command was
  given up, and only those.
- An activation of OverlayFS that mounted the directory and cannot ask the
  kernel about it raises and leaves it mounted (`overlayfs_session.py:122-123`);
  the next activation is refused for the mount point (`:49-50`).
  `FailuresCanBeRetried` is about failures before the mount.
- `remove("d/f")` leaves `del/d/f`, so that `del/d` is a directory and
  `remove("d")` raises for the rest of the session (`deepfreezer.py:689`); the
  same holds for `mkdirs` under `md/`. `OverlayView` has the marker files that
  make it fail, and `README.md:157` shows a whole folder removed.
- A crash of `freeze` between the overlay directory and its manifest leaves an
  overlay that every open refuses, the boot service's included
  (`deepfreezer.py:285`): "bare" in `Lifecycle` and `BootEnforcement`.
- `iterdir` of a directory that exists only because something was put below it
  (`IMPLICIT_DIR`) does not list the baseline names in it, and `iterdir` lists
  names below a path whose operation a parent has shadowed
  (`deepfreezer.py:866`). It is the one query that does not answer for the tree
  of `VirtualTree`: `QueriesAgree` is about the others, and `LiveOpsAreListed`
  says only that nothing live is missing.
- `remove` and then `mkdirs` of a baseline directory is committed as one
  `mkdir` of a directory that is there: the children the view hid come back in
  the target (`deepfreezer.py:449`). `CommittedSessionLands` is therefore about
  what the view has and about paths whose last word is a removal. `diff` says
  nothing of such a directory, and lists `d/f` as modified after
  `write("d/f")` and `remove("d")`.
- `remove` and `mkdirs` do not take a path out of `_write_payloads`
  (`deepfreezer.py:809`, `:820`), which the strict reader compares
  (`nt_overlay_journal_experimental.py:99`): after `write("a")` and
  `remove("a")` an NT preview is refused until the session is opened again.
  `PreflightIsRight` is about plans that are prepared.
- An assessment without operations looks at the ledger twice and does not read
  the journal.
- The markers of a running NT commit and of an interrupted one are the same
  files. An operator who takes a slow run for a dead one can record REVIEW and
  RESOLUTION while it is still applying operations
  (`nt_commit_resolution_experimental.py:72`): run at STARTED(i) → review says
  "uncertain" → resolution → the run writes DONE(i), and its ledger then
  disagrees with the resolved state. Nothing is applied twice, and the
  resolution can no longer be told of, because the report does not fit it. REVIEW
  is written once, so that a review made before the last marker leaves an attempt
  that cannot be resolved.
- An assessment of a commit sees another commit by its markers. One whose INTENT
  was deleted before the assessment, and that has written no other marker yet,
  is not seen; it goes on writing them (`nt_commit_checkpoint_experimental.py:295`).
- The scan for leftovers is made once, before INTENT is created: a run that
  passed it can create INTENT after somebody recorded a REVIEW and deleted
  INTENT.
- A report that cannot be published leaves the previous one in place, "healthy"
  targets included; `.deepfreezer-status-<pid>.tmp` left by a crash blocks the
  publication of a later start with the same process id
  (`enforcement_health.py:42`, `:51`). `NothingOlderSurvives` states what such
  a report still guarantees.
- The boot service discards and freezes at *every* start, also when it is
  restarted in the middle of a session; a second daemon started by hand does so
  before it is turned away from the socket.
- `freeze` through the broker does not harden the permissions of the overlay,
  which the boot service does after its own freeze (`admin_ipc.py:258`).
- A nonce is bound to a target, not to the session that was frozen when it was
  issued; and a status query finishes a discard that was cut short.
- An enrolment is made once per path, and every freeze makes a new overlay
  directory: the record of an overlay is stale after a thaw and a freeze.
- Only the boot unit looks into the configuration of the API before it mounts,
  and it looks once; an administrator who calls the tool without
  `--guard-config` does not. `ApiTargetsStayOnDisk` is stated accordingly.

## 6. What is not modelled

| Part | Why |
|---|---|
| NT enrolment records, ACLs, DPAPI sealing, digests, refusal of links and of paths outside the target | comparisons with what external services say; where a module calls them they are one refusal that may happen at any time |
| NT handle primitives but the exclusive creation | single NT calls, part of the actions of the modules that make them |
| temporary file of a write, left in the target by a crash of a commit (`deepfreezer.py:447`) | it has a random name that nothing in the system reads again |
| `diff`, `size`, `status`, `verify`; comparison of the files with the plan (`nt_commit_effects_…`) | queries without a state of their own |
| overlays of old versions (`files/<rel>`, `overlay/LOCK`) | read-only compatibility |
| the directory cache of the file system | a rename is taken as durable once it returned; `_jwrite` does not fsync the directory (`deepfreezer.py:659`) |
| Windows branch of the commit | disabled by the code |
| audit minifilter | counters of a driver that is not part of the packages; no decision depends on them |
| OS-level status, detection of the edition and the drive | read-only |
| UI, tray, packaging, other VM probes, release gate | presentation, installation and evidence collection around the modelled components |

## 7. Plan

The development keeps one run per question; a component that joins takes over
the run of a question that became a theorem, or shares a configuration with the
component it composes with.

Written: the frozen view and its abstract specification, the commit, the
journal and the preview on top of it, the life cycle, the NT ledger and its
operator, the broker with the staging of UWF, the boot service and its socket,
the copy-on-write core and its abstract specification, the OverlayFS session
and its probe.

Next, to prove more:

1. What of the three liveness properties is not temporal: a measure of how far
   a discard, a start of the service and an activation are from their end, and
   that every step the fairness is about lowers it.
2. That `Lifecycle` is what `Commit`, `BootEnforcement` and `AdminBroker` take
   from it: one open, freeze or thaw by itself ends in `Failing` or `Opened`.
3. `VirtualTree` and `FlatVolume` by themselves: what a sequence of their
   operations leaves does not depend on operations of other branches or bytes.

To extend the model: enrolment as a write-once record beside thaw and freeze;
names that a power loss takes back (`_jwrite`).
