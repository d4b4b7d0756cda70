----------------------------- MODULE NtIncident -----------------------------
(***************************************************************************)
(* The operator's side of the experimental NT ledger                       *)
(* (nt_commit_forensics_experimental.py, nt_commit_resolution_             *)
(* experimental.py): reports on an attempt, and the two write-once notes   *)
(* REVIEW and RESOLUTION.  An operation of the operator reads the markers  *)
(* one by one, several times, while the runs of NtLedger go on.            *)
(***************************************************************************)
EXTENDS NtLedger

CONSTANT Operations   \* bound: reviews and resolutions the operator goes on with

ASSUME OperationsAssumption == Operations \in Nat

VARIABLES
  op,         \* "report", "review", "resolve", or "idle"
  stage,      \* where it is: "first" reading, "intent", "second" reading, "told",
              \*   "third" reading, "note", "fill"; "resolved" when it tells of a
              \*   resolution
  seen,       \* the markers read so far in this reading
  report,     \* verdict of the first reading
  review,     \* content of REVIEW
  resolution, \* content of RESOLUTION
  left,       \* bound: operations left
  effectThen  \* history: the effects when the files of the target are compared

notes == <<review, resolution>>
desk == <<op, stage, seen, report>>
incidentVars == <<notes, desk, left, effectThen>>
allVars == <<vars, incidentVars>>

NoReport == [state |-> "absent", upto |-> 0, plan |-> None]
Nothing == [state |-> "none", plan |-> None]
HalfNote == [state |-> "torn", plan |-> None]
Interrupted == {"incomplete", "uncertain"}

(* seen is a function on the markers read so far, a prefix of Mark. *)
Unread == [m \in {} |-> None]
Untouched == [i \in Step |-> "no"]

IncidentInit ==
  /\ Init
  /\ op = "idle" /\ stage = "first" /\ seen = Unread /\ report = NoReport
  /\ review = Nothing /\ resolution = Nothing
  /\ left = Operations
  /\ effectThen = Untouched

-----------------------------------------------------------------------------
(* Reading *)

(* Every operation begins with a report on the attempt. *)
AskReport ==
  /\ op = "idle" /\ op' = "report"
  /\ stage' = "first" /\ seen' = Unread /\ report' = NoReport
  /\ UNCHANGED <<vars, notes, left, effectThen>>

(* The files are opened one after the other.  A reading ends at once when  *)
(* INTENT is not there or not complete, and when another marker is torn,   *)
(* of another plan or out of sequence: there is no attempt to report on,   *)
(* or the operation raises (EndOfOperation).                               *)
Readable(m) ==
  IF m = Intent THEN ledger[m] \notin {None, Torn}
  ELSE \/ ledger[m] = None
       \/ ledger[m] = seen[Intent] /\ \A k \in 0 .. m - 1 : seen[k] # None

ReadMarker ==
  /\ stage \in {"first", "second", "third"} /\ op # "idle"
  /\ \E m \in Mark :
       /\ DOMAIN seen = 0 .. m - 1
       /\ Readable(m)
       /\ seen' = [k \in 0 .. m |-> IF k = m THEN ledger[m] ELSE seen[k]]
  /\ UNCHANGED <<vars, notes, op, stage, report, left, effectThen>>

ReadAll == DOMAIN seen = Mark
Found == Verdict(seen)

(* A report goes on when all markers could be read.                        *)
FirstReading ==
  /\ stage = "first" /\ ReadAll
  /\ report' = Found
  /\ stage' = "intent" /\ seen' = Unread
  /\ UNCHANGED <<vars, notes, op, left, effectThen>>

(* It reads INTENT once more, for the roots and the plan in it, and raises *)
(* when that is gone or not complete; with the plan the files of the       *)
(* target are compared, and then the markers are read a second time.       *)
ReadIntentAgain ==
  /\ stage = "intent"
  /\ ledger[Intent] \notin {None, Torn}
  /\ stage' = "second"
  /\ effectThen' = effect
  /\ UNCHANGED <<vars, notes, op, seen, report, left>>

SecondReadingUncompared ==
  /\ stage = "second" /\ ReadAll
  /\ stage' = "told" /\ seen' = Unread
  /\ UNCHANGED <<vars, notes, op, report, left, effectThen>>

(* The report is made of one state of the ledger or not made at all.       *)
SecondReading ==
  /\ stage = "second" /\ ReadAll
  /\ Found = report
  /\ stage' = "told" /\ seen' = Unread
  /\ UNCHANGED <<vars, notes, op, report, left, effectThen>>

GoesOn(what) ==
  /\ stage = "told"
  /\ op' = what
  /\ stage' = "third"
  /\ effectThen' = Untouched
  /\ UNCHANGED <<vars, notes, seen, report>>

GoOnToReview == GoesOn("review") /\ left > 0 /\ left' = left - 1

(* Only an interrupted attempt can be resolved.                            *)
GoOnToResolve ==
  /\ report.state \in Interrupted
  /\ GoesOn("resolve") /\ left > 0 /\ left' = left - 1

(* Whoever asks for the resolution reads the note after the report, which  *)
(* it must fit, and the markers and the review it stands on once more.     *)
ReadResolution ==
  /\ resolution.state = report.state /\ resolution.plan = report.plan
  /\ GoesOn("report") /\ UNCHANGED left

ReviewFits == review.plan = report.plan /\ review.state = report.state

TellResolution ==
  /\ op = "report" /\ stage = "third" /\ ReadAll
  /\ Found = report /\ report.state \in Interrupted
  /\ ReviewFits
  /\ stage' = "resolved" /\ seen' = Unread
  /\ UNCHANGED <<vars, notes, op, report, left, effectThen>>

ThirdReadingAlone ==
  /\ op \in {"review", "resolve"} /\ stage = "third" /\ ReadAll
  /\ Found.state = report.state /\ Found.plan = report.plan
  /\ op = "resolve" => Found = report
  /\ stage' = "note" /\ seen' = Unread
  /\ UNCHANGED <<vars, notes, op, report, left, effectThen>>

(* Before its note is written, a review looks again at the state and the   *)
(* plan, a resolution at everything, and at the review it follows.         *)
ThirdReading ==
  /\ op \in {"review", "resolve"} /\ stage = "third" /\ ReadAll
  /\ Found.state = report.state /\ Found.plan = report.plan
  /\ op = "resolve" => Found = report /\ ReviewFits
  /\ stage' = "note" /\ seen' = Unread
  /\ UNCHANGED <<vars, notes, op, report, left, effectThen>>

-----------------------------------------------------------------------------
(* The notes *)

Note == IF op = "review" THEN review ELSE resolution

PutNote(content) ==
  /\ review' = IF op = "review" THEN content ELSE review
  /\ resolution' = IF op = "resolve" THEN content ELSE resolution

CreateNote ==
  /\ stage = "note"
  /\ Note = Nothing
  /\ PutNote(HalfNote)
  /\ noted' = TRUE
  /\ stage' = "fill"
  /\ UNCHANGED <<ledger, effect, run, history, op, seen, report, left, effectThen>>

WriteNote ==
  /\ stage = "fill"
  /\ PutNote([state |-> report.state, plan |-> report.plan])
  /\ op' = "idle" /\ stage' = "first" /\ seen' = Unread /\ report' = NoReport
  /\ effectThen' = Untouched
  /\ UNCHANGED <<vars, left>>

(* An operation ends: it has told its report, a check of it raised, or it  *)
(* died.                                                                   *)
EndOfOperation ==
  /\ op # "idle"
  /\ op' = "idle" /\ stage' = "first" /\ seen' = Unread /\ report' = NoReport
  /\ effectThen' = Untouched
  /\ UNCHANGED <<vars, notes, left>>

Operating ==
  \/ AskReport \/ ReadMarker \/ FirstReading \/ ReadIntentAgain \/ SecondReading
  \/ GoOnToReview \/ GoOnToResolve \/ ReadResolution \/ TellResolution
  \/ ThirdReading \/ CreateNote \/ WriteNote \/ EndOfOperation

IncidentNext ==
  \/ Next /\ UNCHANGED incidentVars
  \/ Operating

IncidentSpec == IncidentInit /\ [][IncidentNext]_allVars
-----------------------------------------------------------------------------
(* Properties *)

(* A report read while a run goes on is one the target really agreed with, *)
(* at the time its two readings met, when the files of the target are      *)
(* compared: what it counts as done was, what it does not mention was not  *)
(* touched.                                                                *)
ReportsAreOfOneMoment ==
  stage = "told" =>
    \A i \in Step :
      /\ SaysDone(report, i) => effectThen[i] = "yes"
      /\ SaysUntouched(report, i) => effectThen[i] = "no"

(* A resolution stands on a review of the same attempt in the same state,  *)
(* and one that is told of is whole and about an interrupted attempt that  *)
(* is still where it was.                                                  *)
ResolutionFollowsReview ==
  /\ resolution \notin {Nothing, HalfNote} => resolution = review
  /\ stage = "resolved" => /\ resolution = review
                           /\ resolution.state \in Interrupted
=============================================================================
