-------------------------- MODULE OverlayfsSession --------------------------
(***************************************************************************)
(* Protection of one directory by a kernel OverlayFS whose upper layer is  *)
(* a tmpfs (packaging/linux/overlayfs_session.py): the directory itself is *)
(* the lower layer, and what is written after the mount is gone after the  *)
(* next boot.  The boot unit and an administrator may both try to activate *)
(* it, at the same time or after an attempt that failed or was killed.     *)
(***************************************************************************)
EXTENDS Naturals

CONSTANTS Activator, \* the boot unit, an administrator: processes that run activate
          Guarded,   \* those that look into the configuration of the API first
          Name,      \* files of the directory
          Content, Absent,
          Unset,     \* the upper layer says nothing of the file
          Lower,     \* the directory at the beginning
          Boots      \* bound: boots of the machine

ASSUME GuardedAssumption == Guarded \subseteq Activator
ASSUME ContentAssumption == Absent \notin Content /\ Unset \notin Content \cup {Absent}
ASSUME LowerAssumption == Lower \in [Name -> Content \cup {Absent}]

VARIABLES
  boot,
  lower,      \* the directory on disk
  upper,      \* what was written over it
  layers,     \* OverlayFS mounts on the directory
  staging,    \* /run/deepfreezer-overlayfs/<hash>: "none", "dir", "tmpfs" or "ready"
  claimed,    \* /etc/deepfreezer/config.json names the directory, or one above or
              \*   below, as a target that DeepFreezer freezes
  pc,
  lawful,     \* history: in this boot there was a moment when it did not, or an
              \*   activation that does not look mounted the directory
  unclean     \* history: in this boot an activation was killed, its cleanup
              \* failed or somebody unmounted the directory

disk == <<lower, upper>>
mounts == <<layers, staging>>
api == <<claimed, lawful>>
vars == <<boot, disk, mounts, api, pc, unclean>>

Empty == [n \in Name |-> Unset]

Init ==
  /\ boot = 1
  /\ lower = Lower
  /\ upper = Empty
  /\ layers = 0 /\ staging = "none"
  /\ claimed \in BOOLEAN /\ lawful = ~claimed
  /\ pc = [a \in Activator |-> "idle"]
  /\ unclean = FALSE

-----------------------------------------------------------------------------
(* The files, as every process sees them *)

Seen(n) == IF layers > 0 /\ upper[n] # Unset THEN upper[n] ELSE lower[n]

Put(n, c) ==
  IF layers > 0 THEN upper' = [upper EXCEPT ![n] = c] /\ UNCHANGED lower
  ELSE lower' = [lower EXCEPT ![n] = c] /\ UNCHANGED upper

Write(n, c) ==
  /\ Put(n, c)
  /\ UNCHANGED <<boot, mounts, api, pc, unclean>>

(* protection_status: what findmnt says of the mount point. *)
Status == IF layers > 0 THEN "active" ELSE "inactive"

-----------------------------------------------------------------------------
(* activate *)

Goes(a, from, to) == pc[a] = from /\ pc' = [pc EXCEPT ![a] = to]

(* The unit: the directory and all above it belong to root and nobody else *)
(* can write to them, and the API does not freeze any of it.               *)
GuardOwnersOnly(a) ==
  /\ a \in Guarded
  /\ layers = 0
  /\ Goes(a, "idle", "guarded")
  /\ UNCHANGED <<boot, disk, mounts, api, unclean>>

Guard(a) ==
  /\ a \in Guarded
  /\ layers = 0
  /\ ~claimed
  /\ Goes(a, "idle", "guarded")
  /\ UNCHANGED <<boot, disk, mounts, api, unclean>>

(* The path is a real directory and no mount point.                        *)
Begin(a) ==
  /\ layers = 0
  /\ Goes(a, IF a \in Guarded THEN "guarded" ELSE "idle", "checked")
  /\ UNCHANGED <<boot, disk, mounts, api, unclean>>

(* It became one since the guard looked.                                   *)
MountedMeanwhile(a) ==
  /\ layers > 0
  /\ Goes(a, "guarded", "idle")
  /\ UNCHANGED <<boot, disk, mounts, api, unclean>>

NoStagingOrReady(a) ==
  /\ staging \in {"none", "ready"}
  /\ Goes(a, "checked", IF staging = "ready" THEN "ready" ELSE "clear")
  /\ UNCHANGED <<boot, disk, mounts, api, unclean>>

NoStagingYet(a) ==
  /\ staging = "none"
  /\ Goes(a, "checked", "clear")
  /\ UNCHANGED <<boot, disk, mounts, api, unclean>>

StagingExistsAtFirst(a) ==
  /\ pc[a] = "checked"
  /\ staging # "none"
  /\ pc' = [pc EXCEPT ![a] = "idle"]
  /\ UNCHANGED <<boot, disk, mounts, api, unclean>>

(* An earlier attempt left the directory, or another one has just made it: *)
(* it is not used again.                                                   *)
StagingExists(a) ==
  /\ pc[a] \in {"checked", "clear"}
  /\ staging # "none"
  /\ pc' = [pc EXCEPT ![a] = "idle"]
  /\ UNCHANGED <<boot, disk, mounts, api, unclean>>

MakeStagingAnyway(a) ==
  /\ Goes(a, "clear", "made")
  /\ staging' = IF staging = "none" THEN "dir" ELSE staging
  /\ UNCHANGED <<boot, disk, layers, api, unclean>>

MakeStaging(a) ==
  /\ staging = "none"
  /\ Goes(a, "clear", "made")
  /\ staging' = "dir"
  /\ UNCHANGED <<boot, disk, layers, api, unclean>>

MountTmpfs(a) ==
  /\ Goes(a, "made", "tmpfs")
  /\ staging' = "tmpfs"
  /\ upper' = Empty
  /\ UNCHANGED <<boot, lower, layers, api, unclean>>

MakeLayers(a) ==
  /\ Goes(a, "tmpfs", "ready")
  /\ staging' = "ready"
  /\ UNCHANGED <<boot, disk, layers, api, unclean>>

MountOverlay(a) ==
  /\ Goes(a, "ready", "mounted")
  /\ layers' = layers + 1
  /\ lawful' = (lawful \/ a \notin Guarded)
  /\ UNCHANGED <<boot, disk, staging, claimed, unclean>>

StepFails(a) ==
  /\ \/ Goes(a, "made", "remove")
     \/ Goes(a, "tmpfs", "unmount")
     \/ Goes(a, "ready", "unmount")
  /\ UNCHANGED <<boot, disk, mounts, api, unclean>>

UnmountStaging(a) ==
  /\ Goes(a, "unmount", "remove")
  /\ staging' = "dir"
  /\ UNCHANGED <<boot, disk, layers, api, unclean>>

RemoveStagingNot(a) ==
  /\ Goes(a, "remove", "idle")
  /\ UNCHANGED <<boot, disk, mounts, api, unclean>>

RemoveStaging(a) ==
  /\ Goes(a, "remove", "idle")
  /\ staging' = "none"
  /\ UNCHANGED <<boot, disk, layers, api, unclean>>

CleanupFails(a) ==
  /\ pc[a] \in {"unmount", "remove"}
  /\ pc' = [pc EXCEPT ![a] = "idle"]
  /\ unclean' = TRUE
  /\ UNCHANGED <<boot, disk, mounts, api>>

(* The kernel is asked once more; whether the call reports its answer or   *)
(* raises, everything stays mounted.                                       *)
Report(a) ==
  /\ Goes(a, "mounted", "idle")
  /\ UNCHANGED <<boot, disk, mounts, api, unclean>>

Killed(a) ==
  /\ pc[a] # "idle"
  /\ pc' = [pc EXCEPT ![a] = "idle"]
  /\ unclean' = TRUE
  /\ UNCHANGED <<boot, disk, mounts, api>>

-----------------------------------------------------------------------------
(* The machine and its administrator *)

(* /run and the mounts are not there any more. *)
Reboot ==
  /\ boot < Boots
  /\ boot' = boot + 1
  /\ layers' = 0 /\ staging' = "none" /\ upper' = Empty
  /\ pc' = [a \in Activator |-> "idle"]
  /\ unclean' = FALSE
  /\ lawful' = ~claimed
  /\ UNCHANGED <<lower, claimed>>

Unmount ==
  /\ layers > 0
  /\ layers' = layers - 1
  /\ unclean' = TRUE
  /\ UNCHANGED <<boot, disk, staging, api, pc>>

(* Leftovers are taken away by hand, when nobody is activating and the     *)
(* directory is not mounted.                                               *)
Tidy ==
  /\ layers = 0 /\ staging # "none"
  /\ \A a \in Activator : pc[a] = "idle"
  /\ staging' = "none" /\ upper' = Empty
  /\ UNCHANGED <<boot, lower, layers, api, pc, unclean>>

(* The administrator edits the configuration of the API.                   *)
Configure ==
  /\ claimed' = ~claimed
  /\ lawful' = TRUE
  /\ UNCHANGED <<boot, disk, mounts, pc, unclean>>

Activating(a) ==
  \/ Guard(a) \/ Begin(a) \/ MountedMeanwhile(a)
  \/ NoStagingYet(a) \/ StagingExists(a) \/ MakeStaging(a)
  \/ MountTmpfs(a) \/ MakeLayers(a) \/ MountOverlay(a) \/ StepFails(a)
  \/ UnmountStaging(a) \/ RemoveStaging(a) \/ CleanupFails(a) \/ Report(a)

Next ==
  \/ Reboot \/ Unmount \/ Tidy \/ Configure
  \/ \E a \in Activator : Activating(a) \/ Killed(a)
  \/ \E n \in Name, c \in Content \cup {Absent} : Write(n, c)

Going(a) == pc[a] # "idle" /\ Activating(a)

Spec == Init /\ [][Next]_vars /\ \A a \in Activator : WF_vars(Going(a))
-----------------------------------------------------------------------------
(* Properties *)

Checking == {"idle", "guarded", "checked", "clear"}

(* However two activations race, one of them at most is past its checks,   *)
(* the directory is never mounted over twice, and a mounted one has the    *)
(* layers it was mounted with.                                             *)
OneSessionAtATime ==
  /\ \A a, b \in Activator :
       pc[a] \notin Checking /\ pc[b] \notin Checking => a = b
  /\ layers <= 1
  /\ layers > 0 => staging = "ready"

(* An activation that failed before it mounted the directory, and cleaned  *)
(* up, leaves no staging that stops the next one.  One that was killed, a  *)
(* cleanup that failed or an unmount by hand may, though not beyond the    *)
(* next boot; and one that raises after the mount, because the kernel      *)
(* could not be asked, leaves the directory mounted, which is not what     *)
(* this is about.                                                          *)
FailuresCanBeRetried ==
  layers = 0 /\ staging # "none" /\ ~unclean
    => \E a \in Activator : pc[a] \in {"made", "tmpfs", "ready", "unmount", "remove"}

(* What the API writes to a target of its configuration is not lost at the *)
(* next boot: as long as it is in there since before the boot, and nobody  *)
(* mounts it by hand, it is not under a volatile layer, whatever the unit  *)
(* met when it looked.                                                     *)
ApiTargetsStayOnDisk == layers > 0 => lawful

(* A directory that was reported as protected shows what it held on disk,  *)
(* plus what was written since: nothing of an earlier session comes back.  *)
SessionsStartFromTheDirectory ==
  [][layers = 0 /\ layers' > 0 => \A n \in Name : Seen(n)' = lower[n]]_vars

(* An activation ends: it reports, it raises or it is killed.              *)
ActivationsEnd == \A a \in Activator : pc[a] # "idle" ~> pc[a] = "idle"
=============================================================================
