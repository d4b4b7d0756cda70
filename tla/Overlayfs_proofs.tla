-------------------------- MODULE Overlayfs_proofs --------------------------
(***************************************************************************)
(* For any processes that activate, any files and any number of boots: the *)
(* staging directory makes activations exclusive, every session starts     *)
(* from what is on disk, and the reboot probe reports no rollback that was *)
(* none.                                                                   *)
(***************************************************************************)
EXTENDS OverlayfsProbe, TLAPS

PCs == {"idle", "guarded", "checked", "clear", "made", "tmpfs", "ready",
        "mounted", "unmount", "remove"}

SessionTypes ==
  /\ boot \in Nat
  /\ lower \in [Name -> Content \cup {Absent}]
  /\ upper \in [Name -> Content \cup {Absent, Unset}]
  /\ layers \in Nat
  /\ staging \in {"none", "dir", "tmpfs", "ready"}
  /\ pc \in [Activator -> PCs]
  /\ claimed \in BOOLEAN /\ lawful \in BOOLEAN /\ unclean \in BOOLEAN

(* How far the activation past its checks has come is what is staged.      *)
StagingFollows ==
  \A a \in Activator :
    /\ pc[a] \in {"made", "remove"} => staging = "dir"
    /\ pc[a] = "tmpfs" => staging = "tmpfs"
    /\ pc[a] = "unmount" => staging \in {"tmpfs", "ready"}
    /\ pc[a] \in {"ready", "mounted"} => staging = "ready"
    /\ pc[a] \in {"made", "tmpfs", "ready", "unmount", "remove"} => layers = 0
    /\ pc[a] \in {"tmpfs", "ready"} => upper = Empty

(* A guarded activation goes on only after it saw no target of the API,    *)
(* and any moment without one is remembered for the boot.                  *)
GuardRemembered ==
  /\ ~claimed => lawful
  /\ \A a \in Guarded : pc[a] # "idle" => lawful

SessionInv ==
  /\ SessionTypes /\ StagingFollows /\ GuardRemembered
  /\ OneSessionAtATime /\ FailuresCanBeRetried /\ ApiTargetsStayOnDisk

LEMMA InitSessionInv == Init => SessionInv
<1> SUFFICES ASSUME Init PROVE SessionInv
  OBVIOUS
<1>1. SessionTypes
  BY LowerAssumption DEF Init, SessionTypes, Empty, PCs
<1>2. StagingFollows /\ GuardRemembered
  BY GuardedAssumption DEF Init, StagingFollows, GuardRemembered
<1>3. OneSessionAtATime /\ FailuresCanBeRetried /\ ApiTargetsStayOnDisk
  BY DEF Init, OneSessionAtATime, Checking, FailuresCanBeRetried, ApiTargetsStayOnDisk
<1> QED
  BY <1>1, <1>2, <1>3 DEF SessionInv

(* A write changes one layer: the directory on disk as long as nothing is  *)
(* mounted on it.                                                          *)
LEMMA PutKeepsSession ==
  ASSUME SessionInv, NEW n \in Name, NEW c \in Content \cup {Absent}, Put(n, c),
         UNCHANGED <<boot, mounts, api, pc, unclean>>
  PROVE  SessionInv'
<1>1. /\ lower' \in [Name -> Content \cup {Absent}]
      /\ upper' \in [Name -> Content \cup {Absent, Unset}]
      /\ layers = 0 => upper' = upper
  BY DEF Put, SessionInv, SessionTypes
<1>2. UNCHANGED <<boot, layers, staging, claimed, lawful, pc, unclean>>
  BY DEF mounts, api
<1>3. SessionTypes' /\ StagingFollows' /\ GuardRemembered'
  BY <1>1, <1>2 DEF SessionInv, SessionTypes, StagingFollows, GuardRemembered, Empty
<1> QED
  BY <1>2, <1>3 DEF SessionInv, OneSessionAtATime, FailuresCanBeRetried, ApiTargetsStayOnDisk

(* One activation goes on. *)
LEMMA ActivatingKeepsSession ==
  ASSUME SessionInv, NEW a \in Activator, Activating(a) \/ Killed(a)
  PROVE  SessionInv'
<1> USE DEF SessionInv, SessionTypes, StagingFollows, GuardRemembered, OneSessionAtATime,
            FailuresCanBeRetried, ApiTargetsStayOnDisk, Checking, PCs, Goes, disk, mounts, api
<1>0. Empty \in [Name -> Content \cup {Absent, Unset}]
  BY DEF Empty
<1>1. CASE Guard(a)
  BY <1>1, GuardedAssumption DEF Guard
<1>2. CASE Begin(a) \/ MountedMeanwhile(a)
  BY <1>2, GuardedAssumption DEF Begin, MountedMeanwhile
<1>3. CASE NoStagingYet(a) \/ StagingExists(a)
  BY <1>3, GuardedAssumption DEF NoStagingYet, StagingExists
<1>4. CASE MakeStaging(a)
  BY <1>4, GuardedAssumption DEF MakeStaging
<1>5. CASE MountTmpfs(a)
  BY <1>0, <1>5, GuardedAssumption DEF MountTmpfs
<1>6. CASE MakeLayers(a)
  BY <1>6, GuardedAssumption DEF MakeLayers
<1>7. CASE MountOverlay(a)
  BY <1>7, GuardedAssumption DEF MountOverlay
<1>8. CASE StepFails(a)
  BY <1>8, GuardedAssumption DEF StepFails
<1>9. CASE UnmountStaging(a)
  BY <1>9, GuardedAssumption DEF UnmountStaging
<1>10. CASE RemoveStaging(a)
  BY <1>10, GuardedAssumption DEF RemoveStaging
<1>11. CASE CleanupFails(a) \/ Killed(a)
  BY <1>11, GuardedAssumption DEF CleanupFails, Killed
<1>12. CASE Report(a)
  BY <1>12, GuardedAssumption DEF Report
<1> QED
  BY <1>1, <1>2, <1>3, <1>4, <1>5, <1>6, <1>7, <1>8, <1>9, <1>10, <1>11, <1>12 DEF Activating

(* The machine is started again, somebody unmounts, tidies or configures.  *)
LEMMA MachineKeepsSession ==
  ASSUME SessionInv, Reboot \/ Unmount \/ Tidy \/ Configure
  PROVE  SessionInv'
<1> USE DEF SessionInv, SessionTypes, StagingFollows, GuardRemembered, OneSessionAtATime,
            FailuresCanBeRetried, ApiTargetsStayOnDisk, Checking, PCs, disk, mounts, api
<1>1. Empty \in [Name -> Content \cup {Absent, Unset}]
  BY DEF Empty
<1>2. CASE Reboot
  <2>1. /\ boot' \in Nat /\ lower' = lower /\ upper' = Empty
        /\ layers' = 0 /\ staging' = "none"
        /\ claimed' = claimed /\ lawful' = ~claimed /\ unclean' = FALSE
    BY <1>2 DEF Reboot
  <2>2. pc' \in [Activator -> PCs] /\ \A a \in Activator : pc'[a] = "idle"
    BY <1>2 DEF Reboot
  <2>3. SessionTypes'
    BY <1>1, <2>1, <2>2
  <2>4. StagingFollows' /\ OneSessionAtATime'
    BY <2>1, <2>2
  <2>5. GuardRemembered' /\ FailuresCanBeRetried' /\ ApiTargetsStayOnDisk'
    BY <2>1, <2>2, GuardedAssumption
  <2> QED
    BY <2>3, <2>4, <2>5
<1>3. CASE Unmount
  BY <1>3 DEF Unmount
<1>4. CASE Tidy
  BY <1>1, <1>4 DEF Tidy
<1>5. CASE Configure
  BY <1>5 DEF Configure
<1> QED
  BY <1>2, <1>3, <1>4, <1>5

LEMMA NextKeepsSession ==
  ASSUME SessionInv, Next
  PROVE  SessionInv'
<1>1. ASSUME NEW n \in Name, NEW c \in Content \cup {Absent}, Write(n, c)
      PROVE  SessionInv'
  BY <1>1, PutKeepsSession DEF Write
<1> QED
  BY <1>1, ActivatingKeepsSession, MachineKeepsSession DEF Next

LEMMA StutterKeepsSession ==
  ASSUME SessionInv, UNCHANGED vars
  PROVE  SessionInv'
  BY DEF SessionInv, SessionTypes, StagingFollows, GuardRemembered, OneSessionAtATime,
         FailuresCanBeRetried, ApiTargetsStayOnDisk, vars, disk, mounts, api, Empty

(* Only a mount makes a session, and it finds its layer empty.             *)
LEMMA SessionsStartClean ==
  ASSUME SessionInv, Next \/ UNCHANGED vars, layers = 0, layers' > 0, NEW n \in Name
  PROVE  Seen(n)' = lower[n]
<1>1. ASSUME NEW a \in Activator, MountOverlay(a)
      PROVE  Seen(n)' = lower[n]
  <2>1. upper = Empty /\ upper' = upper /\ lower' = lower
    BY <1>1 DEF MountOverlay, Goes, disk, SessionInv, StagingFollows
  <2> QED
    BY <2>1 DEF Seen, Empty
<1>2. ASSUME NEW a \in Activator, Activating(a) \/ Killed(a), ~MountOverlay(a)
      PROVE  FALSE
  BY <1>2 DEF Activating, Killed, Guard, Begin, MountedMeanwhile, NoStagingYet, StagingExists,
              MakeStaging, MountTmpfs, MakeLayers, StepFails, UnmountStaging, RemoveStaging,
              CleanupFails, Report, mounts
<1>3. ~(Reboot \/ Unmount \/ Tidy \/ Configure)
  BY DEF Reboot, Unmount, Tidy, Configure, mounts
<1>4. ~ \E k \in Name, c \in Content \cup {Absent} : Write(k, c)
  BY DEF Write, mounts
<1>5. ~ UNCHANGED vars
  BY DEF vars, mounts
<1> QED
  BY <1>1, <1>2, <1>3, <1>4, <1>5 DEF Next

LEMMA SessionInvariant == Spec => []SessionInv
<1>1. SessionInv /\ [Next]_vars => SessionInv'
  BY NextKeepsSession, StutterKeepsSession
<1> QED
  BY InitSessionInv, <1>1, PTL DEF Spec

(* However activations race with each other, with a kill, an unmount by    *)
(* hand and a reboot: activate() of one directory is never past its checks *)
(* twice, and there is never a second OverlayFS over the first one.        *)
THEOREM ActivationsExclude == Spec => []OneSessionAtATime
<1>1. SessionInv => OneSessionAtATime
  BY DEF SessionInv
<1> QED
  BY SessionInvariant, <1>1, PTL

(* For any processes: while the directory is not mounted, a staging that   *)
(* nobody is working on is left of a process that was killed, of a cleanup *)
(* that failed or of an unmount by hand, never of a failed mount alone.    *)
THEOREM RetryIsPossible == Spec => []FailuresCanBeRetried
<1>1. SessionInv => FailuresCanBeRetried
  BY DEF SessionInv
<1> QED
  BY SessionInvariant, <1>1, PTL

(* A target that the API freezes since before the boot is not put under a  *)
(* volatile layer by an activation that looks first.                       *)
THEOREM ApiTargetsAreSafe == Spec => []ApiTargetsStayOnDisk
<1>1. SessionInv => ApiTargetsStayOnDisk
  BY DEF SessionInv
<1> QED
  BY SessionInvariant, <1>1, PTL

(* A session begins with exactly what the directory holds on disk.         *)
THEOREM NothingComesBack == Spec => SessionsStartFromTheDirectory
<1>1. SessionInv /\ [Next]_vars
        => [layers = 0 /\ layers' > 0 => \A n \in Name : Seen(n)' = lower[n]]_vars
  BY SessionsStartClean
<1> QED
  BY SessionInvariant, <1>1, PTL DEF Spec, SessionsStartFromTheDirectory
-----------------------------------------------------------------------------
(* The probe beside the sessions *)

Note == [boot : Nat, baseline : Content \cup {Absent}, marker : Name]

ProbeTypes ==
  /\ step \in {"idle", "prepared", "read", "marked", "recording",
               "verifying", "rebooted", "compared"}
  /\ note \in Note /\ evidence \in Note
  /\ file \in {"none", "torn", "whole"}
  /\ written \in [Marker -> {"nowhere", "upper", "lower"}]
  /\ observed \subseteq [of : Note, in : Nat]

(* A note n is about a marker that was written somewhere, not later than   *)
(* in this boot.                                                           *)
About(n) ==
  /\ n.marker \in Marker /\ written[n.marker] # "nowhere"
  /\ n.boot <= boot

(* A marker written to the disk is still there, and one that the upper     *)
(* layer does not hold is not on the disk either.                          *)
MarkersStay ==
  \A m \in Marker :
    /\ written[m] = "lower" => lower[m] = Mark
    /\ layers > 0 /\ upper[m] = Absent => lower[m] = Absent

NotesAreTrue ==
  /\ step = "read"
       => note.marker \in Marker /\ written[note.marker] = "nowhere" /\ note.boot <= boot
  /\ step \in {"marked", "recording", "verifying", "rebooted", "compared"} => About(note)
  /\ step \in {"rebooted", "compared"} => note.boot < boot
  /\ file = "whole" => About(evidence)
  /\ \A o \in observed : o.of.marker \in Marker

ProbeInv ==
  /\ SessionInv
  /\ ProbeTypes /\ MarkersStay /\ NotesAreTrue /\ ObservedIsARollback

LEMMA InitProbeInv == ProbeInit => ProbeInv
<1> SUFFICES ASSUME ProbeInit PROVE ProbeInv
  OBVIOUS
<1>1. NoNote \in Note
  BY NamesAssumption DEF NoNote, Note
<1>2. ProbeTypes
  BY <1>1 DEF ProbeInit, ProbeTypes
<1>3. MarkersStay /\ NotesAreTrue /\ ObservedIsARollback
  BY DEF ProbeInit, Init, MarkersStay, NotesAreTrue, ObservedIsARollback
<1> QED
  BY <1>2, <1>3, InitSessionInv DEF ProbeInv, ProbeInit

(* What a process reads of a file is one of its contents, or that there is *)
(* no such file.                                                           *)
LEMMA SeenType ==
  ASSUME SessionInv, NEW n \in Name
  PROVE  Seen(n) \in Content \cup {Absent}
  BY DEF Seen, SessionInv, SessionTypes

(* A boot is not undone by any step.                                       *)
LEMMA BootsGoUp ==
  ASSUME SessionInv, Next \/ UNCHANGED vars
  PROVE  boot' \in Nat /\ boot' >= boot
<1>0. boot \in Nat
  BY DEF SessionInv, SessionTypes
<1>1. ASSUME NEW a \in Activator, Activating(a) \/ Killed(a)
      PROVE  boot' = boot
  BY <1>1 DEF Activating, Killed, Guard, Begin, MountedMeanwhile, NoStagingYet, StagingExists,
              MakeStaging, MountTmpfs, MakeLayers, MountOverlay, StepFails, UnmountStaging,
              RemoveStaging, CleanupFails, Report
<1>2. Reboot \/ Unmount \/ Tidy \/ Configure => boot' = boot \/ boot' = boot + 1
  BY DEF Reboot, Unmount, Tidy, Configure
<1>3. ASSUME NEW n \in Name, NEW c \in Content \cup {Absent}, Write(n, c)
      PROVE  boot' = boot
  BY <1>3 DEF Write
<1> QED
  BY <1>0, <1>1, <1>2, <1>3 DEF Next, vars

(* Only a write touches the directory on disk, and only while nothing is   *)
(* mounted over it; only a write and the end of a layer touch the layer.   *)
LEMMA DiskSteps ==
  ASSUME SessionInv, Next \/ UNCHANGED vars, NEW m \in Name
  PROVE  \/ lower'[m] = lower[m] /\ layers' = layers /\ upper'[m] = upper[m]
         \/ lower'[m] = lower[m] /\ upper'[m] = Unset
         \/ lower'[m] = lower[m] /\ upper'[m] = upper[m] /\ layers' <= layers
         \/ layers' = layers /\ layers = 0 /\ upper' = upper
         \/ layers' = layers /\ layers > 0 /\ lower' = lower /\ upper'[m] \in Content \cup {Absent}
<1>0. layers \in Nat /\ lower \in [Name -> Content \cup {Absent}]
      /\ upper \in [Name -> Content \cup {Absent, Unset}]
  BY DEF SessionInv, SessionTypes
<1>1. ASSUME NEW a \in Activator, Activating(a) \/ Killed(a)
      PROVE  lower' = lower /\ (upper' = Empty \/ (upper' = upper /\ layers' = layers))
  <2>1. MountOverlay(a) => upper = Empty
    BY DEF MountOverlay, Goes, SessionInv, StagingFollows
  <2> QED
    BY <1>1, <2>1 DEF Activating, Killed, Guard, Begin, MountedMeanwhile, NoStagingYet,
         StagingExists, MakeStaging, MountTmpfs, MakeLayers, MountOverlay, StepFails,
         UnmountStaging, RemoveStaging, CleanupFails, Report, disk, mounts
<1>2. Reboot \/ Tidy \/ Configure
        => lower' = lower /\ (upper' = Empty \/ (upper' = upper /\ layers' = layers))
  BY DEF Reboot, Tidy, Configure, disk, mounts
<1>3. Unmount => lower' = lower /\ upper' = upper /\ layers' <= layers
  BY <1>0 DEF Unmount, disk
<1>4. ASSUME NEW n \in Name, NEW c \in Content \cup {Absent}, Write(n, c)
      PROVE  \/ layers' = layers /\ layers = 0 /\ upper' = upper
             \/ /\ layers' = layers /\ layers > 0 /\ lower' = lower
                /\ upper'[m] = upper[m] \/ upper'[m] \in Content \cup {Absent}
  BY <1>0, <1>4 DEF Write, Put, mounts
<1>5. UNCHANGED vars => lower' = lower /\ upper' = upper /\ layers' = layers
  BY DEF vars, disk, mounts
<1>6. Empty[m] = Unset
  BY DEF Empty
<1> QED
  BY <1>0, <1>1, <1>2, <1>3, <1>4, <1>5, <1>6 DEF Next

(* As nobody but the probe uses its markers, no step of the machine        *)
(* changes what the disk holds of one.                                     *)
LEMMA MarkersAreLeftAlone ==
  ASSUME SessionInv, MarkersStay, Next \/ UNCHANGED vars, NEW m \in Marker,
         Seen(m)' # Seen(m) => layers' # layers
  PROVE  /\ lower'[m] = lower[m]
         /\ layers' > 0 /\ upper'[m] = Absent => lower'[m] = Absent
<1>1. m \in Name
  BY NamesAssumption
<1>2. layers \in Nat /\ layers' \in Nat
  BY NextKeepsSession, StutterKeepsSession DEF SessionInv, SessionTypes
<1>3. Absent # Unset /\ Unset \notin Content
  BY ContentAssumption
<1>4. layers > 0 /\ upper[m] = Absent => lower[m] = Absent
  BY DEF MarkersStay
<1> QED
  BY <1>1, <1>2, <1>3, <1>4, DiskSteps DEF Seen

LEMMA MachineKeepsProbe ==
  ASSUME ProbeInv, Machine \/ UNCHANGED allVars
  PROVE  ProbeInv'
<1>1. SessionInv /\ ProbeTypes /\ MarkersStay /\ NotesAreTrue /\ ObservedIsARollback
  BY DEF ProbeInv
<1>2. Next \/ UNCHANGED vars
  BY DEF Machine, allVars
<1>3. \A m \in Marker : Seen(m)' # Seen(m) => layers' # layers
  BY DEF Machine, allVars, vars, disk, mounts, Seen
<1>4. boot \in Nat /\ boot' \in Nat /\ boot' >= boot
  BY <1>1, <1>2, BootsGoUp DEF SessionInv, SessionTypes
<1>5. /\ file' = file /\ evidence' = evidence /\ written' = written /\ observed' = observed
      /\ (step' = step /\ note' = note) \/ (step' = "idle" /\ note' = NoNote)
  BY DEF Machine, allVars, probeVars, record
<1>6. SessionInv'
  BY <1>1, <1>2, NextKeepsSession, StutterKeepsSession
<1>7. ProbeTypes'
  BY <1>1, <1>5, NamesAssumption DEF ProbeTypes, NoNote, Note
<1>8. MarkersStay' /\ \A m \in Marker : lower'[m] = lower[m]
  BY <1>1, <1>2, <1>3, <1>5, MarkersAreLeftAlone DEF MarkersStay
<1>9. ASSUME NEW n \in Note, About(n)
      PROVE  About(n)'
  BY <1>4, <1>5, <1>9 DEF About, Note
<1>10. NotesAreTrue'
  <2>1. note.boot \in Nat
    BY <1>1 DEF ProbeTypes, Note
  <2>2. file' = "whole" => About(evidence)'
    BY <1>1, <1>4, <1>5 DEF NotesAreTrue, About, ProbeTypes, Note
  <2>3. step' \in {"marked", "recording", "verifying", "rebooted", "compared"} => About(note)'
    BY <1>1, <1>4, <1>5, <2>1 DEF NotesAreTrue, About
  <2> QED
    BY <1>1, <1>4, <1>5, <2>1, <2>2, <2>3 DEF NotesAreTrue
<1>11. ObservedIsARollback'
  BY <1>1, <1>5, <1>8 DEF ObservedIsARollback, NotesAreTrue
<1> QED
  BY <1>6, <1>7, <1>8, <1>10, <1>11 DEF ProbeInv

(* One step of a call of the probe.                                        *)
LEMMA ProbingKeepsProbe ==
  ASSUME ProbeInv, Probing
  PROVE  ProbeInv'
<1>1. SessionInv /\ ProbeTypes /\ MarkersStay /\ NotesAreTrue /\ ObservedIsARollback
  BY DEF ProbeInv
<1>2. NoNote \in Note
  BY NamesAssumption DEF NoNote, Note
<1>3. boot \in Nat
  BY <1>1 DEF SessionInv, SessionTypes
<1>4. CASE WriteMarker
  <2>1. note.marker \in Marker /\ note.marker \in Name /\ written[note.marker] = "nowhere"
        /\ note.boot <= boot
    BY <1>1, <1>4, NamesAssumption DEF NotesAreTrue, WriteMarker, To
  <2>2. SessionInv'
    BY <1>1, <1>4, <2>1, MarkAssumption, PutKeepsSession DEF WriteMarker
  <2>3. /\ layers' = layers /\ boot' = boot /\ step' = "marked" /\ note' = note
        /\ file' = file /\ evidence' = evidence /\ observed' = observed
        /\ written' = [written EXCEPT ![note.marker] = IF layers > 0 THEN "upper" ELSE "lower"]
    BY <1>4 DEF WriteMarker, To, mounts, record
  <2>4. ProbeTypes'
    BY <1>1, <2>1, <2>3 DEF ProbeTypes
  <2>5. /\ written'[note.marker] \in {"upper", "lower"}
        /\ \A m \in Marker : m # note.marker => written'[m] = written[m]
    BY <1>1, <2>1, <2>3 DEF ProbeTypes
  <2>6. NotesAreTrue'
    BY <1>1, <2>1, <2>3, <2>5 DEF NotesAreTrue, About
  <2>7. ASSUME NEW m \in Marker
        PROVE  /\ m # note.marker => lower'[m] = lower[m] /\ upper'[m] = upper[m]
               /\ layers > 0 => lower' = lower /\ upper'[note.marker] = Mark
               /\ layers = 0 => lower'[note.marker] = Mark
    BY <1>1, <1>4, <2>1, NamesAssumption DEF WriteMarker, Put, SessionInv, SessionTypes
  <2>8. MarkersStay'
    <3>1. layers \in Nat /\ Mark # Absent
      BY <1>1, ContentAssumption, MarkAssumption DEF SessionInv, SessionTypes
    <3>2. written'[note.marker] = IF layers > 0 THEN "upper" ELSE "lower"
      BY <1>1, <2>1, <2>3 DEF ProbeTypes
    <3> QED
      BY <1>1, <2>1, <2>3, <2>5, <2>7, <3>1, <3>2 DEF MarkersStay
  <2>9. ObservedIsARollback'
    BY <1>1, <2>1, <2>3, <2>5, <2>7 DEF ObservedIsARollback, NotesAreTrue
  <2> QED
    BY <2>2, <2>4, <2>6, <2>8, <2>9 DEF ProbeInv
<1>5. CASE ~WriteMarker
  <2>1. UNCHANGED vars /\ written' = written
    BY <1>5 DEF Probing, CheckBeforePrepare, ReadBaseline, CreateEvidence, WriteEvidence,
         CheckBeforeVerify, AnotherBoot, BaselineAsBefore, MarkerGone, GiveUp
  <2>2. boot' = boot /\ layers' = layers /\ lower' = lower /\ upper' = upper
    BY <2>1 DEF vars, disk, mounts
  <2>3. SessionInv' /\ MarkersStay'
    BY <1>1, <2>1, <2>2, StutterKeepsSession DEF MarkersStay
  <2>4. CASE CheckBeforePrepare
    BY <1>1, <1>2, <2>1, <2>2, <2>3, <2>4 DEF CheckBeforePrepare, To, record, ProbeInv, ProbeTypes,
         NotesAreTrue, About, ObservedIsARollback
  <2>5. CASE ReadBaseline
    <3>1. PICK m \in Marker : written[m] = "nowhere"
                 /\ note' = [boot |-> boot, baseline |-> Seen(Baseline), marker |-> m]
      BY <2>5 DEF ReadBaseline
    <3>2. note' \in Note
      BY <1>1, <1>3, <3>1, SeenType, NamesAssumption DEF Note
    <3>3. step' = "read" /\ file' = file /\ evidence' = evidence /\ observed' = observed
      BY <2>5 DEF ReadBaseline, To, record
    <3>4. ProbeTypes'
      BY <1>1, <2>1, <3>2, <3>3 DEF ProbeTypes
    <3>5. NotesAreTrue'
      BY <1>1, <1>3, <2>1, <2>2, <3>1, <3>3 DEF NotesAreTrue, About
    <3>6. ObservedIsARollback'
      BY <1>1, <2>1, <2>2, <3>3 DEF ObservedIsARollback
    <3> QED
      BY <2>3, <3>4, <3>5, <3>6 DEF ProbeInv
  <2>6. CASE CreateEvidence
    BY <1>1, <2>1, <2>2, <2>3, <2>6 DEF CreateEvidence, To, record, ProbeInv, ProbeTypes,
         NotesAreTrue, About, ObservedIsARollback
  <2>7. CASE WriteEvidence
    BY <1>1, <1>2, <2>1, <2>2, <2>3, <2>7 DEF WriteEvidence, To, record, ProbeInv, ProbeTypes,
         NotesAreTrue, About, ObservedIsARollback
  <2>8. CASE CheckBeforeVerify
    BY <1>1, <2>1, <2>2, <2>3, <2>8 DEF CheckBeforeVerify, To, record, ProbeInv, ProbeTypes,
         NotesAreTrue, About, ObservedIsARollback
  <2>9. CASE AnotherBoot
    <3>1. note.boot \in Nat
      BY <1>1 DEF ProbeTypes, Note
    <3> QED
      BY <1>1, <1>3, <2>1, <2>2, <2>3, <2>9, <3>1 DEF AnotherBoot, To, record, ProbeInv,
         ProbeTypes, NotesAreTrue, About, ObservedIsARollback
  <2>10. CASE BaselineAsBefore
    BY <1>1, <2>1, <2>2, <2>3, <2>10 DEF BaselineAsBefore, To, record, ProbeInv, ProbeTypes,
         NotesAreTrue, About, ObservedIsARollback
  <2>11. CASE MarkerGone
    <3>1. /\ step = "compared" /\ step' = "idle" /\ note' = NoNote
          /\ observed' = observed \cup {[of |-> note, in |-> boot]}
          /\ file' = file /\ evidence' = evidence /\ Seen(note.marker) = Absent
      BY <2>11 DEF MarkerGone, To, record
    <3>2. note.marker \in Marker /\ written[note.marker] # "nowhere" /\ note.boot < boot
      BY <1>1, <3>1 DEF NotesAreTrue, About
    <3>3. lower[note.marker] = Absent
      BY <1>1, <3>1, <3>2 DEF Seen, MarkersStay
    <3>4. written[note.marker] = "upper"
      BY <1>1, <3>2, <3>3, ContentAssumption, MarkAssumption DEF MarkersStay, ProbeTypes
    <3>5. ProbeTypes'
      BY <1>1, <1>2, <1>3, <2>1, <3>1 DEF ProbeTypes
    <3>6. NotesAreTrue'
      BY <1>1, <2>1, <2>2, <3>1, <3>2 DEF NotesAreTrue, About
    <3>7. ObservedIsARollback'
      BY <1>1, <2>1, <2>2, <3>1, <3>2, <3>3, <3>4 DEF ObservedIsARollback
    <3> QED
      BY <2>3, <3>5, <3>6, <3>7 DEF ProbeInv
  <2>12. CASE GiveUp
    BY <1>1, <1>2, <2>1, <2>2, <2>3, <2>12 DEF GiveUp, record, ProbeInv, ProbeTypes,
         NotesAreTrue, About, ObservedIsARollback
  <2> QED
    BY <1>5, <2>4, <2>5, <2>6, <2>7, <2>8, <2>9, <2>10, <2>11, <2>12 DEF Probing
<1> QED
  BY <1>4, <1>5

LEMMA ProbeInvariant == ProbeSpec => []ProbeInv
<1>1. ProbeInv /\ [ProbeNext]_allVars => ProbeInv'
  BY MachineKeepsProbe, ProbingKeepsProbe DEF ProbeNext
<1> QED
  BY InitProbeInv, <1>1, PTL DEF ProbeSpec

(* To the sessions the probe is one more process that writes a file.       *)
LEMMA ProbeStepsAreSessionSteps ==
  ASSUME ProbeInv, [ProbeNext]_allVars
  PROVE  Next \/ UNCHANGED vars
<1>1. WriteMarker => Next
  <2> SUFFICES ASSUME WriteMarker PROVE Next
    OBVIOUS
  <2>1. note.marker \in Name
    BY NamesAssumption DEF ProbeInv, NotesAreTrue, WriteMarker, To
  <2>2. Write(note.marker, Mark)
    BY DEF WriteMarker, Write
  <2> QED
    BY <2>1, <2>2, MarkAssumption DEF Next
<1> QED
  BY <1>1 DEF ProbeNext, Machine, Probing, allVars, CheckBeforePrepare, ReadBaseline,
     CreateEvidence, WriteEvidence, CheckBeforeVerify, AnotherBoot, BaselineAsBefore,
     MarkerGone, GiveUp

(* The evidence of the reboot probe is sound: whatever is mounted,         *)
(* unmounted or written between the steps of its two calls, it reports a   *)
(* rollback only of a marker that was in the volatile layer in an earlier  *)
(* boot and never on the disk.                                             *)
THEOREM RollbackEvidenceIsSound == ProbeSpec => []ObservedIsARollback
<1>1. ProbeInv => ObservedIsARollback
  BY DEF ProbeInv
<1> QED
  BY ProbeInvariant, <1>1, PTL

(* The sessions keep their promises while the probe runs beside them.      *)
THEOREM SessionsBesideTheProbe ==
  ProbeSpec => /\ [](OneSessionAtATime /\ FailuresCanBeRetried /\ ApiTargetsStayOnDisk)
               /\ SessionsStartFromTheDirectory
<1>1. ProbeInv => SessionInv /\ OneSessionAtATime /\ FailuresCanBeRetried /\ ApiTargetsStayOnDisk
  BY DEF ProbeInv, SessionInv
<1>2. ProbeInv /\ [ProbeNext]_allVars
        => [layers = 0 /\ layers' > 0 => \A n \in Name : Seen(n)' = lower[n]]_vars
  BY <1>1, ProbeStepsAreSessionSteps, SessionsStartClean
<1> QED
  BY ProbeInvariant, <1>1, <1>2, PTL DEF ProbeSpec, SessionsStartFromTheDirectory
=============================================================================
