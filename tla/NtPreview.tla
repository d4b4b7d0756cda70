------------------------------ MODULE NtPreview ------------------------------
(***************************************************************************)
(* The read-only preparation of an NT commit from a frozen session:        *)
(* preview_windows_native_commit and inspect_windows_native_commit_safety  *)
(* of deepfreezer.py with the strict journal reader, the pinned payload    *)
(* loader and the plan bridge they call (nt_overlay_journal_experimental,  *)
(* nt_overlay_payload_experimental, nt_commit_bridge_experimental).        *)
(*                                                                         *)
(* The session of OverlayJournal makes the call, so none of its operations *)
(* is under way meanwhile; what may change is the progress ledger of NT    *)
(* commits (NtLedger), of which only the existence of INTENT and of other  *)
(* markers matters here.  The journal is read by a second reader, stricter *)
(* than the one a reopen uses, and compared with the tables in memory.     *)
(***************************************************************************)
EXTENDS OverlayJournal

VARIABLES
  ids,      \* _write_payloads: ids[k] is the payload of the last confirmed write
            \*   of k, 0 if there is none; a removal of k leaves it alone
  step,     \* where the call is: "none", "scan", "before", "journal",
            \*   "payloads", "after", "passed"
  gated,    \* the call is inspect_..., which looks at the ledger
  todo,     \* records of the plan whose content is not loaded yet
  prepared, \* prepared[k]: what the plan does with k, None if nothing
  intent,   \* the INTENT marker: "no", "torn", "whole"
  strays,   \* other markers of the commit are in the store
  begun,    \* a commit has written its INTENT, so that it writes other markers
  sight     \* history: what the call could see of a commit: "nothing", "commit"
            \*   when INTENT was there, "removed" when it was taken away since

call == <<step, gated, todo, prepared>>
store == <<intent, strays, begun>>
pvars == <<vars, ids, call, store, sight>>

NothingPlanned == [k \in Key |-> None]

PInit ==
  /\ Init
  /\ ids = [k \in Key |-> 0]
  /\ step = "none" /\ gated = FALSE
  /\ todo = {} /\ prepared = NothingPlanned
  /\ intent = "no" /\ strays = FALSE /\ begun = FALSE
  /\ sight = "nothing"

Reading == step \notin {"none", "passed"}

EndsCall ==
  /\ step' = "none" /\ gated' = FALSE
  /\ todo' = {} /\ prepared' = NothingPlanned
  /\ sight' = "nothing"

-----------------------------------------------------------------------------
(* The session between two calls *)

Operates ==
  /\ step = "none"
  /\ \/ \E k \in Key : PutRemove(k) \/ \E v \in Value : PutWrite(k, v)
     \/ AppendLine
     \/ AppendFails
  /\ UNCHANGED <<ids, call, store, sight>>

Confirms ==
  /\ step = "none"
  /\ Confirm
  /\ ids' = IF pending.src # 0 THEN [ids EXCEPT ![pending.key] = pending.src] ELSE ids
  /\ UNCHANGED <<call, store, sight>>

Dies ==
  /\ Crash
  /\ EndsCall
  /\ UNCHANGED <<ids, store>>

Reopens ==
  /\ Reopen
  /\ ids' = [k \in Key |-> LoadedLine(k).src]
  /\ UNCHANGED <<call, store, sight>>

-----------------------------------------------------------------------------
(* The strict reader of the journal *)

(* The last record of a key, whether its payload is there or not. *)
StrictLine(k) ==
  IF OfKey(k) = {} THEN NoLine(k) ELSE CHOOSE l \in OfKey(k) : l \in Newest(OfKey(k))

(* The file ends with a newline, every line is a record, and sequence      *)
(* numbers only grow.                                                      *)
WellFormed ==
  /\ tail = "clean"
  /\ \A l, m \in lines : l.seq = m.seq => l = m

AgreesOnSequence == WellFormed /\ LoadedSeq = seq

(* "Exact core state": the last sequence number, and for every path the    *)
(* number and the kind of its last operation and the payload.              *)
Agrees ==
  /\ WellFormed
  /\ LoadedSeq = seq
  /\ \A k \in Key :
       /\ StrictLine(k).seq = table[k].seq
       /\ StrictLine(k).src = 0 <=> table[k].src = 0
       /\ StrictLine(k).src = ids[k]

-----------------------------------------------------------------------------
(* A call *)

Calls(inspects) ==
  /\ step = "none" /\ pc = "idle"
  /\ step' = IF inspects THEN "scan" ELSE "journal"
  /\ gated' = inspects
  /\ sight' = IF intent = "no" THEN "nothing" ELSE "commit"
  /\ UNCHANGED <<vars, ids, todo, prepared, store>>

Goes(from, to) ==
  /\ step = from /\ step' = to
  /\ UNCHANGED <<vars, ids, gated, store, sight>>

(* Any check of the call may fail: identity of a root, access lists,       *)
(* limits on sizes, a name Windows does not allow, an error of a read.     *)
Refuse ==
  /\ Reading
  /\ EndsCall
  /\ UNCHANGED <<vars, ids, store>>

ScanForOrphans ==
  /\ intent = "no" => ~strays
  /\ Goes("scan", "before")
  /\ UNCHANGED <<todo, prepared>>

(* What an inspection of the ledger makes of INTENT; it raises for a file  *)
(* that is not complete and does not look for markers without INTENT.      *)
InspectsAsAbsent == intent = "no"

(* Without operations there is nothing to preview. *)
InspectBefore ==
  /\ InspectsAsAbsent
  /\ Goes("before", IF \E k \in Key : table[k].seq # 0 THEN "journal" ELSE "after")
  /\ UNCHANGED <<todo, prepared>>

ReadJournal ==
  /\ Agrees
  /\ Goes("journal", "payloads")
  /\ todo' = {l \in {StrictLine(k) : k \in Key} : l.seq # 0}
  /\ UNCHANGED prepared

(* Payloads are loaded in the order of the journal; a removal has none. *)
LoadNext ==
  \E l \in todo :
    /\ \A m \in todo : l.seq <= m.seq
    /\ l.src # 0 => payload[l.src] # None
    /\ Goes("payloads", "payloads")
    /\ todo' = todo \ {l}
    /\ prepared' = [prepared EXCEPT ![l.key] = Content(l)]

PlanIsComplete ==
  /\ todo = {}
  /\ Goes("payloads", IF gated THEN "after" ELSE "passed")
  /\ UNCHANGED <<todo, prepared>>

InspectAfter ==
  /\ InspectsAsAbsent
  /\ Goes("after", "passed")
  /\ UNCHANGED <<todo, prepared>>

Return ==
  /\ step = "passed"
  /\ EndsCall
  /\ UNCHANGED <<vars, ids, store>>

-----------------------------------------------------------------------------
(* A commit of the same target by another process, as the ledger shows it *)

(* INTENT is created and then written. *)
CommitCreatesIntent ==
  /\ intent = "no"
  /\ intent' = "torn"
  /\ sight' = IF Reading /\ sight = "nothing" THEN "commit" ELSE sight
  /\ UNCHANGED <<vars, ids, call, strays, begun>>

CommitWritesIntent ==
  /\ intent = "torn"
  /\ intent' = "whole" /\ begun' = TRUE
  /\ UNCHANGED <<vars, ids, call, strays, sight>>

(* The loop of a commit looks at INTENT no more: it writes STARTED, DONE and *)
(* COMPLETE also when INTENT has been deleted meanwhile.                     *)
CommitGoesOn ==
  /\ begun
  /\ strays' = TRUE
  /\ UNCHANGED <<vars, ids, call, intent, begun, sight>>

(* INTENT is deleted by hand. *)
IntentRemoved ==
  /\ intent # "no"
  /\ intent' = "no"
  /\ sight' = IF Reading THEN "removed" ELSE sight
  /\ UNCHANGED <<vars, ids, call, strays, begun>>

PNext ==
  \/ Operates \/ Confirms \/ Dies \/ Reopens
  \/ \E inspects \in BOOLEAN : Calls(inspects)
  \/ Refuse \/ ScanForOrphans \/ InspectBefore \/ ReadJournal
  \/ LoadNext \/ PlanIsComplete \/ InspectAfter \/ Return
  \/ CommitCreatesIntent \/ CommitWritesIntent \/ CommitGoesOn \/ IntentRemoved

PSpec == PInit /\ [][PNext]_pvars
-----------------------------------------------------------------------------
(* Properties *)

(* A plan that was prepared does with every path exactly what the session  *)
(* promised, although the two readers of the journal differ, operations    *)
(* failed half-way and sessions died before.                               *)
PlanIsTheSession ==
  step = "passed" => \A k \in Key : prepared[k] = acked[k]

(* When the journal was read, the next reopen shows that as well. *)
PlanIsWhatReopens ==
  step = "passed" /\ (\E k \in Key : prepared[k] # None)
    => \A k \in Key : prepared[k] = Recovered(k)

(* No INTENT was in the store at any point of an assessment that allows a  *)
(* commit, unless somebody took it away meanwhile.  A commit whose INTENT  *)
(* was deleted before the assessment and that has written no other marker  *)
(* yet cannot be seen by it.                                               *)
NoCommitUnnoticed == step = "passed" /\ gated => sight # "commit"

PreflightIsRight == PlanIsTheSession /\ PlanIsWhatReopens /\ NoCommitUnnoticed
=============================================================================
