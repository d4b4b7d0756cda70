------------------------------- MODULE Commit -------------------------------
(***************************************************************************)
(* thaw(commit=True) on POSIX: after every path was checked, the last      *)
(* operation of each path is applied to the target in sequence order, and  *)
(* only when all of them were applied the overlay is discarded.  One       *)
(* operation takes several system calls: the parents of a written path are *)
(* made one by one, a directory is emptied one entry at a time.  An error  *)
(* or a crash leaves what was applied and keeps the overlay; the session   *)
(* (reopened from the journal after a crash) goes on, and may write,       *)
(* commit again or discard.                                                *)
(***************************************************************************)
EXTENDS OverlayView

VARIABLES
  phase,    \* "open", "applying", "committed" or "discarded"
  todo,     \* the paths whose operation is still to be applied
  goal,     \* history: the view when the last commit began
  checked,  \* history: the paths with which an attempt at a commit began,
  done      \*   and those whose operation one applied; without those above or
            \*   below which the session changed an operation since

commitVars == <<phase, todo, goal, checked, done>>
allVars == <<vars, commitVars>>

(* The view of a path as one node. *)
Seen(p) == IF IsDir(p) THEN Dir ELSE Read(p)

CInit ==
  /\ Init
  /\ phase = "open"
  /\ todo = {}
  /\ goal = Base
  /\ checked = {}
  /\ done = {}

Unchanged(P) == {p \in P : \A q \in Line(p) : ops'[q] = ops[q]}

Session ==
  /\ phase = "open"
  /\ ViewStep
  /\ checked' = Unchanged(checked)
  /\ done' = Unchanged(done)
  /\ UNCHANGED <<disk, phase, todo, goal>>

(* Each component is looked at, or opened, below its parent: a file on the *)
(* way is an error.                                                        *)
FileAbove(p) == \E q \in Above[p] : disk[q] \in Content

(* Every path is checked before the first operation is applied; if one     *)
(* does not pass, the call raises with nothing changed.                    *)
StartCommit ==
  /\ phase = "open"
  /\ \A p \in Path : Has(p) => ~FileAbove(p)
  /\ phase' = "applying"
  /\ todo' = {p \in Path : Has(p)}
  /\ checked' = checked \cup todo'
  /\ goal' = [p \in Path |-> Seen(p)]
  /\ UNCHANGED <<vars, done>>

-----------------------------------------------------------------------------
(* Applying the next operation, the one at p *)

ApplyingInAnyOrder(p, kind) ==
  phase = "applying" /\ p \in todo /\ ops[p].kind = kind

Applying(p, kind) ==
  /\ phase = "applying"
  /\ p \in todo
  /\ \A q \in todo : ops[p].seq <= ops[q].seq
  /\ ops[p].kind = kind

Applied(p) ==
  /\ todo' = todo \ {p}
  /\ done' = done \cup {p}
  /\ UNCHANGED <<ops, seq, marker, phase, goal, checked>>

Underway == UNCHANGED <<ops, seq, marker, commitVars>>

InDirectory(p) == \A q \in Above[p] : disk[q] = Dir

FitsANewDirectory(p) ==
  /\ ops[p].kind = "W" => disk[p] # Dir
  /\ ops[p].kind = "M" => disk[p] = Absent
  /\ ops[p].kind = "D" => disk[p] = Absent \/ (ops[p].d <=> disk[p] = Dir)

(* What is at p is what the call can replace, leave or remove: os.replace  *)
(* takes no directory's place, mkdir tolerates a directory, the removal    *)
(* tolerates nothing there, and otherwise wants what remove had seen.      *)
Fits(p) ==
  /\ ops[p].kind = "W" => disk[p] # Dir
  /\ ops[p].kind = "M" => disk[p] \notin Content
  /\ ops[p].kind = "D" => disk[p] = Absent \/ (ops[p].d <=> disk[p] = Dir)

IsEmpty(p) == \A q \in Below(p) : disk[q] = Absent

MakeParent(p, q) ==
  /\ Applying(p, "W") \/ Applying(p, "M")
  /\ q \in Above[p]
  /\ disk[q] = Absent
  /\ InDirectory(q)
  /\ disk' = [disk EXCEPT ![q] = Dir]
  /\ Underway

ReplaceFile(p) ==
  /\ Applying(p, "W")
  /\ InDirectory(p) /\ Fits(p)
  /\ disk' = [disk EXCEPT ![p] = ops[p].data]
  /\ Applied(p)

MakeDirectory(p) ==
  /\ Applying(p, "M")
  /\ InDirectory(p) /\ Fits(p)
  /\ disk' = [disk EXCEPT ![p] = Dir]
  /\ Applied(p)

NothingToDelete(p) ==
  /\ Applying(p, "D")
  /\ ~FileAbove(p)
  /\ disk[p] = Absent
  /\ UNCHANGED disk
  /\ Applied(p)

Unlink(p) ==
  /\ Applying(p, "D")
  /\ Fits(p) /\ disk[p] \in Content
  /\ disk' = [disk EXCEPT ![p] = Absent]
  /\ Applied(p)

EmptyDirectory(p, q) ==
  /\ Applying(p, "D")
  /\ Fits(p) /\ disk[p] = Dir
  /\ q \in Below(p)
  /\ disk[q] # Absent
  /\ IsEmpty(q)
  /\ disk' = [disk EXCEPT ![q] = Absent]
  /\ Underway

RemoveDirectory(p) ==
  /\ Applying(p, "D")
  /\ Fits(p) /\ disk[p] = Dir
  /\ IsEmpty(p)
  /\ disk' = [disk EXCEPT ![p] = Absent]
  /\ Applied(p)

Apply ==
  \E p \in Path :
    \/ ReplaceFile(p)
    \/ MakeDirectory(p)
    \/ NothingToDelete(p)
    \/ Unlink(p)
    \/ RemoveDirectory(p)
    \/ \E q \in Path : MakeParent(p, q) \/ EmptyDirectory(p, q)

DropOverlay ==
  /\ ops' = [p \in Path |-> NoOp]
  /\ seq' = 0
  /\ marker' = [k \in {"M", "D"} |-> {}]
  /\ checked' = {}
  /\ done' = {}
  /\ UNCHANGED disk

CommitAbortsAndDrops ==
  /\ phase = "applying"
  /\ phase' = "open"
  /\ todo' = {}
  /\ DropOverlay
  /\ UNCHANGED goal

(* An operation raised, or the process died and the overlay was reopened. *)
CommitAborts ==
  /\ phase = "applying"
  /\ phase' = "open"
  /\ todo' = {}
  /\ UNCHANGED <<vars, goal, checked, done>>

FinishCommit ==
  /\ phase = "applying"
  /\ todo = {}
  /\ phase' = "committed"
  /\ DropOverlay
  /\ UNCHANGED <<todo, goal>>

Discard ==
  /\ phase = "open"
  /\ phase' = "discarded"
  /\ DropOverlay
  /\ UNCHANGED <<todo, goal>>

CNext == Session \/ StartCommit \/ Apply \/ CommitAborts \/ FinishCommit \/ Discard

CSpec == CInit /\ [][CNext]_allVars
-----------------------------------------------------------------------------
(* Properties *)

(* Whatever part of a commit was applied, read answers for every path what *)
(* it answered before: a commit that was cut short can be retried or read  *)
(* around without a file changing its content.                             *)
CommitKeepsReads ==
  [][phase = "applying" /\ phase' # "committed"
       => \A p \in Path : Read(p)' = Read(p)]_allVars

(* A commit that was carried through has put the session into the target:  *)
(* every path it removed, and that its view does not show again, is gone,  *)
(* and the target has the files and directories of the view it began with, *)
(* with the same content.                                                  *)
CommittedSessionLands ==
  /\ phase = "applying" /\ todo = {}
       => \A p \in Path : Classify(p) = "DELETED" => disk[p] = Absent
  /\ phase = "committed" => \A p \in Path : goal[p] # Absent => disk[p] = goal[p]

(* Over its line the operations want one path to be a file and, at another *)
(* time, a directory.                                                      *)
Clash(p) ==
  \/ \E q \in Above[p] : ops[q].kind = "W"
  \/ /\ ops[p].kind = "W" \/ (ops[p].kind = "D" /\ ~ops[p].d)
     /\ \E q \in Below(p) : ops[q].kind \in {"W", "M"}

(* A commit that was cut short can be retried, over whatever it left in    *)
(* the target: the check of the paths passes again, and what one attempt   *)
(* applied the next ones can apply too, so that a retry gets as far as any *)
(* attempt before it; not where the session made a directory of a file, or *)
(* a file of a directory.                                                  *)
RetriesGetAsFar ==
  /\ \A p \in checked : Clash(p) \/ ~FileAbove(p)
  /\ \A p \in done : Clash(p) \/ Fits(p)

(* "thaw(commit=True): merge of the overlay into T": the next operation of *)
(* a commit can be applied.                                                *)
EveryOperationApplies ==
  phase = "applying" /\ todo # {} =>
    \E p \in todo :
      /\ \A q \in todo : ops[p].seq <= ops[q].seq
      /\ ~FileAbove(p) /\ Fits(p)
=============================================================================
