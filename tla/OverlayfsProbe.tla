--------------------------- MODULE OverlayfsProbe ---------------------------
(***************************************************************************)
(* The evidence that the protection of OverlayfsSession works across a     *)
(* reboot (packaging/linux/overlayfs_vm_reboot_probe.py): one call writes  *)
(* a marker into the directory and records it on another volume, a second  *)
(* one looks for it after the machine was started again.  Either may be    *)
(* cut short, and the directory may be mounted, unmounted and written to   *)
(* between any two of their steps.                                         *)
(***************************************************************************)
EXTENDS OverlayfsSession, FiniteSets

CONSTANTS Baseline, Marker,   \* files of the directory
          Mark                \* content of a marker

ASSUME NamesAssumption == Baseline \in Name /\ Marker \subseteq Name \ {Baseline}
ASSUME MarkAssumption == Mark \in Content

VARIABLES
  step,       \* of the call that is running
  note,       \* what it has found out so far, for as long as it runs
  file,       \* the JSON file: "none", "torn" or "whole"
  evidence,   \* the note in it
  written,    \* history: written[m]: the layer marker m was written to
  observed    \* history: the notes that were reported as a rollback

record == <<file, evidence>>
probeVars == <<step, note, record, written, observed>>
allVars == <<vars, probeVars>>

NoNote == [boot |-> 0, baseline |-> Absent, marker |-> Baseline]

ProbeInit ==
  /\ Init
  /\ step = "idle" /\ note = NoNote
  /\ file = "none" /\ evidence = NoNote
  /\ written = [m \in Marker |-> "nowhere"]
  /\ observed = {}

To(from, to) == step = from /\ step' = to

-----------------------------------------------------------------------------
(* prepare *)

CheckBeforePrepare ==
  /\ To("idle", "prepared")
  /\ Status = "active" /\ file = "none"
  /\ note' = NoNote
  /\ UNCHANGED <<vars, record, written, observed>>

ReadBaseline ==
  /\ To("prepared", "read")
  /\ Seen(Baseline) # Absent
  /\ \E m \in Marker :
       /\ written[m] = "nowhere"
       /\ note' = [boot |-> boot, baseline |-> Seen(Baseline), marker |-> m]
  /\ UNCHANGED <<vars, record, written, observed>>

WriteMarker ==
  /\ To("read", "marked")
  /\ Put(note.marker, Mark)
  /\ written' = [written EXCEPT ![note.marker] = IF layers > 0 THEN "upper" ELSE "lower"]
  /\ UNCHANGED <<boot, mounts, api, pc, unclean, note, record, observed>>

CreateEvidence ==
  /\ To("marked", "recording")
  /\ file = "none"
  /\ file' = "torn"
  /\ UNCHANGED <<vars, note, evidence, written, observed>>

WriteEvidence ==
  /\ To("recording", "idle")
  /\ file' = "whole" /\ evidence' = note
  /\ note' = NoNote
  /\ UNCHANGED <<vars, written, observed>>

-----------------------------------------------------------------------------
(* verify_after_reboot *)

CheckBeforeVerify ==
  /\ To("idle", "verifying")
  /\ Status = "active"
  /\ file = "whole"
  /\ note' = evidence
  /\ UNCHANGED <<vars, record, written, observed>>

AnotherBoot ==
  /\ To("verifying", "rebooted")
  /\ boot # note.boot
  /\ UNCHANGED <<vars, note, record, written, observed>>

BaselineAsBefore ==
  /\ To("rebooted", "compared")
  /\ Seen(Baseline) = note.baseline
  /\ UNCHANGED <<vars, note, record, written, observed>>

MarkerUnchecked ==
  /\ To("compared", "idle")
  /\ observed' = observed \cup {[of |-> note, in |-> boot]}
  /\ note' = NoNote
  /\ UNCHANGED <<vars, record, written>>

MarkerGone ==
  /\ To("compared", "idle")
  /\ Seen(note.marker) = Absent
  /\ observed' = observed \cup {[of |-> note, in |-> boot]}
  /\ note' = NoNote
  /\ UNCHANGED <<vars, record, written>>

(* A call raises or is killed. *)
GiveUp ==
  /\ step # "idle"
  /\ step' = "idle" /\ note' = NoNote
  /\ UNCHANGED <<vars, record, written, observed>>

Probing ==
  \/ CheckBeforePrepare \/ ReadBaseline \/ WriteMarker \/ CreateEvidence \/ WriteEvidence
  \/ CheckBeforeVerify \/ AnotherBoot \/ BaselineAsBefore \/ MarkerGone \/ GiveUp

(* The markers have random names that nobody else uses; the calls end with *)
(* the machine.                                                            *)
Machine ==
  /\ Next
  /\ \A m \in Marker : Seen(m)' # Seen(m) => layers' # layers
  /\ IF boot' = boot THEN UNCHANGED <<step, note>> ELSE step' = "idle" /\ note' = NoNote
  /\ UNCHANGED <<record, written, observed>>

ProbeNext == Machine \/ Probing

ProbeSpec ==
  /\ ProbeInit /\ [][ProbeNext]_allVars
  /\ \A a \in Activator : WF_allVars(Going(a) /\ UNCHANGED probeVars)
-----------------------------------------------------------------------------
(* Properties *)

(* Nothing passes for a rollback that was none: the marker had been        *)
(* written to the volatile layer, in an earlier boot than the one it was   *)
(* missed in, and never reached the disk; whatever was mounted, unmounted  *)
(* or written between the steps of the two calls.                          *)
ObservedIsARollback ==
  \A o \in observed :
    /\ written[o.of.marker] = "upper"
    /\ o.of.boot < o.in
    /\ lower[o.of.marker] = Absent
=============================================================================
