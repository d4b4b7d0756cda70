--------------------------- MODULE OverlayJournal ---------------------------
(***************************************************************************)
(* How an operation of a frozen session becomes durable, and what a        *)
(* reopened session recovers: payloads/<id>, the marker files, journal.log *)
(* and the in-memory tables of deepfreezer.py, with failures and crashes   *)
(* between and inside the steps of an operation.                           *)
(*                                                                         *)
(* The loader stops at the first line of journal.log it cannot parse.      *)
(* lines holds the records before that point, and tail says how the file   *)
(* goes on after them:                                                     *)
(*   clean    it ends there, with a newline                                *)
(*   whole    it ends there, but the newline of the last record is missing *)
(*   torn     part of a record follows                                     *)
(*   broken   a later append was glued to a whole or torn tail: an         *)
(*            unparsable line is inside the file, what follows is not read *)
(* A path is a key here: module OverlayView is about how paths relate.     *)
(***************************************************************************)
EXTENDS Naturals

CONSTANTS Key, Value,
          None,       \* no operation: the baseline shows
          Removed,    \* what a removal makes a key hold
          MaxSeq      \* bound on the sequence numbers given out

ASSUME ValueAssumption == None \notin Value /\ Removed \notin Value /\ None # Removed
ASSUME MaxSeqAssumption == MaxSeq \in Nat

VARIABLES
  payload,    \* payload[id]: content of payloads/<id>, None if there is no such file
  marker,     \* the keys with a file del/<key>
  lines, tail,
  pc,         \* "down", "idle", "append" (payload in place), "appended" (line written)
  pending,    \* the operation under way
  table,      \* table[k]: the record of the last operation on k, as in ops and
              \*   _write_payloads; seq = 0 when there is none
  seq,        \* _seq
  acked,      \* history: what the session last promised k holds
  maybe       \* history: values of operations on k that failed since

disk == <<payload, marker, lines, tail>>
memory == <<table, seq>>
vars == <<disk, pc, pending, memory, acked, maybe>>

Id == 1 .. MaxSeq

(* The record of a line: src is the payload of a write, 0 for a removal. *)
Line == [seq : Nat, key : Key, src : Nat]

NoLine(k) == [seq |-> 0, key |-> k, src |-> 0]

Removal(k) == [key |-> k, src |-> 0, val |-> Removed]

Init ==
  /\ payload = [i \in Id |-> None]
  /\ marker = {}
  /\ lines = {}
  /\ tail = "clean"
  /\ pc = "idle"
  /\ pending \in {Removal(k) : k \in Key}
  /\ table = [k \in Key |-> NoLine(k)]
  /\ seq = 0
  /\ acked = [k \in Key |-> None]
  /\ maybe = [k \in Key |-> {}]

-----------------------------------------------------------------------------
(* What the loader makes of the files *)

Newest(ls) == {l \in ls : \A m \in ls : m.seq <= l.seq}

OfKey(k) == {l \in lines : l.key = k}

(* An operation whose payload or marker is missing is dropped. *)
Backed(l) == IF l.src = 0 THEN l.key \in marker ELSE payload[l.src] # None

LoadedLine(k) ==
  IF \E l \in Newest(OfKey(k)) : Backed(l)
    THEN CHOOSE l \in Newest(OfKey(k)) : Backed(l)
    ELSE NoLine(k)

LoadedSeq == IF lines = {} THEN 0 ELSE (CHOOSE l \in Newest(lines) : TRUE).seq

Content(l) ==
  IF l.seq = 0 THEN None ELSE IF l.src = 0 THEN Removed ELSE payload[l.src]

Recovered(k) == Content(LoadedLine(k))

-----------------------------------------------------------------------------
(* Step 1 of an operation: its payload or marker *)

PutWriteInPlace(k, v) ==
  LET id == IF table[k].src # 0 THEN table[k].src ELSE seq + 1
  IN  /\ pc = "idle"
      /\ seq < MaxSeq
      /\ payload' = [payload EXCEPT ![id] = v]
      /\ pending' = [key |-> k, src |-> id, val |-> v]
      /\ pc' = "append"
      /\ UNCHANGED <<marker, lines, tail, memory, acked, maybe>>

PutWrite(k, v) ==
  /\ pc = "idle"
  /\ seq < MaxSeq
  /\ payload' = [payload EXCEPT ![seq + 1] = v]
  /\ pending' = [key |-> k, src |-> seq + 1, val |-> v]
  /\ pc' = "append"
  /\ UNCHANGED <<marker, lines, tail, memory, acked, maybe>>

PutRemoveUnmarked(k) ==
  /\ pc = "idle"
  /\ seq < MaxSeq
  /\ pending' = Removal(k)
  /\ pc' = "append"
  /\ UNCHANGED <<payload, marker, lines, tail, memory, acked, maybe>>

PutRemove(k) ==
  /\ pc = "idle"
  /\ seq < MaxSeq
  /\ marker' = marker \cup {k}
  /\ pending' = Removal(k)
  /\ pc' = "append"
  /\ UNCHANGED <<payload, lines, tail, memory, acked, maybe>>

-----------------------------------------------------------------------------
(* Step 2: one line is appended to the journal *)

Rec == [seq |-> seq + 1, key |-> pending.key, src |-> pending.src]

(* t: how much of the line was written; "clean" is all of it. *)
Append(t) ==
  IF tail = "clean" THEN
    /\ tail' = t
    /\ lines' = IF t = "torn" THEN lines ELSE lines \cup {Rec}
  ELSE
    /\ tail' = IF tail = "torn" /\ t # "clean" THEN "torn" ELSE "broken"
    /\ lines' = IF tail = "whole" THEN lines \ Newest(lines) ELSE lines

AppendLine ==
  /\ pc = "append"
  /\ Append("clean")
  /\ seq' = seq + 1
  /\ pc' = "appended"
  /\ UNCHANGED <<payload, marker, pending, table, acked, maybe>>

Failed == maybe' = [maybe EXCEPT ![pending.key] = @ \cup {pending.val}]

AppendFailsAfterTable ==
  /\ pc = "append"
  /\ (\E t \in {"clean", "whole", "torn"} : Append(t)) \/ UNCHANGED <<lines, tail>>
  /\ seq' = seq + 1
  /\ pc' = "idle"
  /\ Failed
  /\ table' = [table EXCEPT ![pending.key] = Rec]
  /\ UNCHANGED <<payload, marker, pending, acked>>

(* The write or the fsync raises, with some or nothing of the line in the  *)
(* file; _seq was advanced before.                                         *)
AppendFails ==
  /\ pc = "append"
  /\ (\E t \in {"clean", "whole", "torn"} : Append(t)) \/ UNCHANGED <<lines, tail>>
  /\ seq' = seq + 1
  /\ pc' = "idle"
  /\ Failed
  /\ UNCHANGED <<payload, marker, pending, table, acked>>

(* Step 3: memory is updated and the operation returns. *)
Confirm ==
  /\ pc = "appended"
  /\ pc' = "idle"
  /\ table' = [table EXCEPT ![pending.key] = [seq |-> seq, key |-> @.key, src |-> pending.src]]
  /\ acked' = [acked EXCEPT ![pending.key] = pending.val]
  /\ maybe' = [maybe EXCEPT ![pending.key] = {}]
  /\ UNCHANGED <<disk, pending, seq>>

-----------------------------------------------------------------------------
(* The process or the machine dies.  A line that was being written may be  *)
(* in the file whole, in part or not at all.                               *)
Crash ==
  /\ pc # "down"
  /\ pc' = "down"
  /\ IF pc = "append"
       THEN (\E t \in {"clean", "whole", "torn"} : Append(t)) \/ UNCHANGED <<lines, tail>>
       ELSE UNCHANGED <<lines, tail>>
  /\ IF pc = "idle" THEN UNCHANGED maybe ELSE Failed
  /\ UNCHANGED <<payload, marker, pending, memory, acked>>

(* The session is opened again; what it shows is what it now promises. *)
Reopen ==
  /\ pc = "down"
  /\ pc' = "idle"
  /\ table' = [k \in Key |-> LoadedLine(k)]
  /\ seq' = LoadedSeq
  /\ acked' = [k \in Key |-> Recovered(k)]
  /\ maybe' = [k \in Key |-> {}]
  /\ UNCHANGED <<disk, pending>>

Next ==
  \/ \E k \in Key : PutRemove(k) \/ \E v \in Value : PutWrite(k, v)
  \/ AppendLine
  \/ AppendFails
  \/ Confirm
  \/ Crash
  \/ Reopen

Spec == Init /\ [][Next]_vars
-----------------------------------------------------------------------------
(* Properties *)

(* A payload that a readable line of the journal refers to never changes:  *)
(* a write that is not confirmed cannot overwrite the content of one that  *)
(* is, whatever failed or crashed in between and although _seq starts      *)
(* again from the journal at every open.                                   *)
ConfirmedPayloadsImmutable ==
  [][\A l \in lines : l.src # 0 => payload'[l.src] = payload[l.src]]_vars

(* What a reopen may show for k: what was promised, or an operation on k   *)
(* that failed half-way since, or is half-way now.                         *)
MayRecover(k) ==
  {acked[k]} \cup maybe[k]
    \cup IF pc \in {"append", "appended"} /\ pending.key = k THEN {pending.val} ELSE {}

(* Until something was appended to a damaged tail, every operation that    *)
(* returned is recovered by a reopen, and what a reopen once showed is     *)
(* recovered by the next one.                                              *)
AcknowledgedRecovered ==
  tail # "broken" => \A k \in Key : Recovered(k) \in MayRecover(k)

(* A running session reads exactly what it promised, damaged journal or    *)
(* not: the payload its table points to is there with that content.        *)
SessionReadsWhatItPromised ==
  pc # "down" => \A k \in Key : Content(table[k]) = acked[k]

(* "Journal append-only, crash-safe": an operation that returned is        *)
(* recovered by every later reopen.                                        *)
AcknowledgedAlwaysRecovered == \A k \in Key : Recovered(k) \in MayRecover(k)
=============================================================================
