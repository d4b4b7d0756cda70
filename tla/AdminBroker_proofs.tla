------------------------- MODULE AdminBroker_proofs -------------------------
(***************************************************************************)
(* For any clients, users, targets, lifetime and number of runs: every     *)
(* discard, commit and staging was prepared, no nonce carries out two of   *)
(* them, the table of nonces stays within its capacity, and of the         *)
(* stagings whose commands ended with their calls one at most changes the  *)
(* write filter.                                                           *)
(***************************************************************************)
EXTENDS AdminBroker, FiniteSetTheorems, TLAPS

AnyOp == Op \cup {UwfStage}
Subject == Target \cup Volume

Known == Peer \cup Account

Issue == [identity : Known, op : AnyOp, target : Subject, at : Nat, run : Nat]
Execution == [nonce : Nat, identity : Known, op : AnyOp, target : Subject, at : Nat, run : Nat]

HistoryOK ==
  /\ identity \in [Peer -> Known]
  /\ issued \in Seq(Issue)
  /\ executed \in Seq(Execution)
  /\ now \in Nat /\ run \in Nat

(* What is pending was issued in this run, as it says, and not used yet.   *)
Genuine(r) ==
  /\ r.nonce \in 1 .. Len(issued)
  /\ r.expires = issued[r.nonce].at + Lifetime
  /\ LET k == issued[r.nonce] IN
       k.identity = r.identity /\ k.op = r.op /\ k.target = r.target /\ k.run = run
  /\ \A i \in 1 .. Len(executed) : executed[i].nonce # r.nonce

PendingGenuine == \A r \in pending : Genuine(r)

ExecutedIssued == \A i \in 1 .. Len(executed) : executed[i].nonce \in 1 .. Len(issued)

IInv ==
  HistoryOK /\ PendingGenuine /\ ExecutedIssued /\ ExecutedWasPrepared /\ NoncesWorkOnce

LEMMA InitIInv == Init => IInv
<1> SUFFICES ASSUME Init PROVE IInv
  OBVIOUS
<1>1. identity \in [Peer -> Known]
  BY DEF Init, Identities, Known
<1> QED
  BY <1>1 DEF Init, IInv, HistoryOK, PendingGenuine, ExecutedIssued,
              ExecutedWasPrepared, NoncesWorkOnce

(* Dropping records, or everything with the run that issued it, keeps      *)
(* what is left genuine.                                                   *)
LEMMA FewerPending ==
  ASSUME IInv, pending' \subseteq pending, UNCHANGED <<identity, issued, executed>>,
         now' \in Nat, run' \in Nat, run' = run \/ pending' = {}
  PROVE  IInv'
<1> USE DEF IInv, HistoryOK
<1>1. PendingGenuine'
  BY DEF PendingGenuine, Genuine
<1>2. ExecutedIssued' /\ ExecutedWasPrepared' /\ NoncesWorkOnce'
  BY DEF ExecutedIssued, ExecutedWasPrepared, NoncesWorkOnce
<1> QED
  BY <1>1, <1>2

(* A new nonce is above all that were issued. *)
LEMMA PrepareStep ==
  ASSUME IInv, NEW p \in Peer, NEW op \in AnyOp, NEW t \in Subject, IssueNonce(p, op, t),
         UNCHANGED <<identity, now, run, executed>>
  PROVE  IInv'
<1> DEFINE new == [identity |-> identity[p], op |-> op, target |-> t,
                   at |-> now, run |-> run]
           rec == [nonce |-> Len(issued) + 1, identity |-> identity[p], op |-> op,
                   target |-> t, expires |-> now + Lifetime]
<1>1. /\ issued' = Append(issued, new) /\ executed' = executed
      /\ now' = now /\ run' = run /\ identity' = identity
      /\ pending' \subseteq pending \cup {rec}
  BY DEF IssueNonce, Unexpired
<1>2. new \in Issue
  BY DEF IInv, HistoryOK, Issue
<1>3. HistoryOK'
  BY <1>1, <1>2 DEF IInv, HistoryOK
<1>4. /\ Len(issued) \in Nat /\ Len(issued') = Len(issued) + 1
      /\ issued'[Len(issued) + 1] = new
      /\ \A k \in 1 .. Len(issued) : issued'[k] = issued[k]
  BY <1>1, <1>2 DEF IInv, HistoryOK
<1> HIDE DEF new
<1>5. ASSUME NEW r \in pending' PROVE Genuine(r)'
  <2>1. CASE r \in pending
    BY <2>1, <1>1, <1>4 DEF IInv, PendingGenuine, Genuine
  <2>2. CASE r = rec
    <3>1. \A i \in 1 .. Len(executed) : executed[i].nonce # rec.nonce
      BY <1>4 DEF IInv, ExecutedIssued
    <3> QED
      BY <2>2, <3>1, <1>1, <1>4 DEF Genuine, new
  <2> QED
    BY <1>1, <2>1, <2>2
<1>6. ExecutedIssued' /\ ExecutedWasPrepared'
  BY <1>1, <1>4 DEF IInv, ExecutedIssued, ExecutedWasPrepared
<1>7. NoncesWorkOnce'
  BY <1>1 DEF IInv, NoncesWorkOnce
<1> QED
  BY <1>3, <1>5, <1>6, <1>7 DEF IInv, PendingGenuine

(* What is carried out has a genuine nonce, which leaves the table.        *)
LEMMA ConfirmStep ==
  ASSUME IInv, NEW p \in Peer, NEW op \in AnyOp, NEW t \in Subject,
         NEW k \in 1 .. Len(issued),
         NEW r \in pending,
         r.expires > now /\ r.nonce = k /\ r.identity = identity[p] /\ r.op = op /\ r.target = t,
         pending' \subseteq {s \in pending : s.nonce # k},
         executed' = Append(executed, [nonce |-> k, identity |-> identity[p], op |-> op,
                                       target |-> t, at |-> now, run |-> run]),
         UNCHANGED <<identity, now, issued, run>>
  PROVE  IInv'
<1> DEFINE new == [nonce |-> k, identity |-> identity[p], op |-> op, target |-> t,
                   at |-> now, run |-> run]
<1>1. /\ issued' = issued /\ executed' = Append(executed, new)
      /\ now' = now /\ run' = run /\ identity' = identity
  OBVIOUS
<1>2. r.expires > now /\ r.nonce = k /\ r.identity = identity[p] /\ r.op = op /\ r.target = t
  OBVIOUS
<1>3. Genuine(r)
  BY DEF IInv, PendingGenuine
<1>4. new \in Execution
  BY DEF IInv, HistoryOK, Execution
<1>5. HistoryOK'
  BY <1>1, <1>4 DEF IInv, HistoryOK
<1>6. /\ Len(executed) \in Nat /\ Len(executed') = Len(executed) + 1
      /\ executed'[Len(executed) + 1] = new
      /\ \A i \in 1 .. Len(executed) : executed'[i] = executed[i]
  BY <1>1, <1>4 DEF IInv, HistoryOK
<1>7. new.nonce = k /\ new.identity = identity[p] /\ new.op = op /\ new.target = t /\ new.at = now /\ new.run = run
  OBVIOUS
<1> HIDE DEF new
<1>8. PendingGenuine'
  <2>1. \A s \in pending' : s \in pending /\ s.nonce # k
    OBVIOUS
  <2> QED
    BY <2>1, <1>1, <1>6, <1>7 DEF IInv, PendingGenuine, Genuine
<1>9. ExecutedIssued'
  BY <1>1, <1>6, <1>7 DEF IInv, ExecutedIssued
<1>10. ExecutedWasPrepared'
  BY <1>1, <1>2, <1>3, <1>6, <1>7 DEF IInv, ExecutedWasPrepared, Genuine
<1>11. NoncesWorkOnce'
  <2>1. \A i \in 1 .. Len(executed) : executed[i].nonce # k
    BY <1>2, <1>3 DEF Genuine
  <2> QED
    BY <2>1, <1>6, <1>7 DEF IInv, NoncesWorkOnce
<1> QED
  BY <1>5, <1>8, <1>9, <1>10, <1>11 DEF IInv

(* A call about a target that was confirmed, and a staging that begins.    *)
LEMMA ConfirmCall ==
  ASSUME IInv, NEW p \in Peer, NEW op \in Op, NEW t \in Target,
         NEW k \in 1 .. Len(issued), Confirm(k, p, op, t)
  PROVE  IInv'
<1>1. PICK r \in pending : /\ r.expires > now /\ r.nonce = k
                           /\ r.identity = identity[p] /\ r.op = op /\ r.target = t
  BY DEF Confirm, Fits, Unexpired
<1>2. /\ pending' \subseteq {s \in pending : s.nonce # k}
      /\ executed' = Append(executed, [nonce |-> k, identity |-> identity[p], op |-> op,
                                       target |-> t, at |-> now, run |-> run])
      /\ UNCHANGED <<identity, now, issued, run>>
  BY DEF Confirm, LeftAfter, Unexpired
<1> QED
  BY <1>1, <1>2, ConfirmStep DEF AnyOp, Subject

LEMMA StagingCall ==
  ASSUME IInv, NEW p \in Peer, NEW v \in Volume,
         NEW k \in 1 .. Len(issued), BeginStaging(k, p, v)
  PROVE  IInv'
<1>1. PICK r \in pending : /\ r.expires > now /\ r.nonce = k
                           /\ r.identity = identity[p] /\ r.op = UwfStage /\ r.target = v
  BY DEF BeginStaging, FitsStaging
<1>2. /\ pending' \subseteq {s \in pending : s.nonce # k}
      /\ executed' = Append(executed, [nonce |-> k, identity |-> identity[p], op |-> UwfStage,
                                       target |-> v, at |-> now, run |-> run])
      /\ UNCHANGED <<identity, now, issued, run>>
  BY DEF BeginStaging, TakenOut
<1> QED
  BY <1>1, <1>2, ConfirmStep DEF AnyOp, Subject

LEMMA IInvStep == IInv /\ [Next]_vars => IInv'
<1> SUFFICES ASSUME IInv, [Next]_vars PROVE IInv'
  OBVIOUS
<1>0. now \in Nat /\ run \in Nat
  BY DEF IInv, HistoryOK
<1>1. CASE Tick
  BY <1>0, <1>1, FewerPending DEF Tick
<1>2. CASE Restart
  BY <1>0, <1>2, FewerPending DEF Restart
<1>3. ASSUME Call PROVE IInv'
  <2>1. CASE PrepareRefused
    BY <1>0, <2>1, FewerPending DEF PrepareRefused, Unexpired
  <2>2. ASSUME NEW t \in Target, Freeze(t) \/ Status(t) PROVE IInv'
    BY <1>0, <2>2, FewerPending DEF Freeze, Status, Unexpired
  <2>3. ASSUME NEW p \in Peer, NEW op \in Op, NEW t \in Target, Prepare(p, op, t)
        PROVE  IInv'
    BY <2>3, PrepareStep DEF Prepare, AnyOp, Subject
  <2>4. ASSUME NEW p \in Peer, NEW op \in Op, NEW t \in Target,
               NEW k \in 1 .. Len(issued)
        PROVE  NotConfirmed(k, p, op, t) \/ ConfirmInVain(k, p, op, t) => IInv'
    BY <1>0, FewerPending DEF NotConfirmed, ConfirmInVain, LeftAfter, Unexpired
  <2>5. ASSUME NEW p \in Peer, NEW op \in Op, NEW t \in Target,
               NEW k \in 1 .. Len(issued), Confirm(k, p, op, t)
        PROVE  IInv'
    BY <2>5, ConfirmCall
  <2>6. ASSUME NEW p \in Peer, NEW v \in Volume, PrepareStaging(p, v)
        PROVE  IInv'
    BY <2>6, PrepareStep DEF PrepareStaging, AnyOp, Subject
  <2>7. ASSUME NEW p \in Peer, NEW v \in Volume, NEW k \in 1 .. Len(issued),
               NotStaged(k, p, v)
        PROVE  IInv'
    BY <1>0, <2>7, FewerPending DEF NotStaged, TakenOut
  <2> QED
    BY <1>3, <2>1, <2>2, <2>3, <2>4, <2>5, <2>6, <2>7 DEF Call
<1>4. ASSUME NEW k \in 1 .. Len(issued), NEW p \in Peer, NEW v \in Volume,
             BeginStaging(k, p, v)
      PROVE  IInv'
  BY <1>4, StagingCall
<1>5. ASSUME UNCHANGED broker PROVE IInv'
  BY <1>0, <1>5, FewerPending DEF broker
<1> QED
  BY <1>1, <1>2, <1>3, <1>4, <1>5 DEF Next, vars

(* The inductive invariant holds always. *)
THEOREM BrokerInvariant == Spec => []IInv
  BY InitIInv, IInvStep, PTL DEF Spec

(* Every discard, commit and staging the broker carries out was prepared   *)
(* by the same identity (on Linux the same process, on Windows a process   *)
(* of the same user), for the same operation and target, in the same run   *)
(* of the service and less than a lifetime earlier.                        *)
THEOREM NothingUnprepared == Spec => []ExecutedWasPrepared
<1>1. IInv => ExecutedWasPrepared
  BY DEF IInv
<1> QED
  BY BrokerInvariant, <1>1, PTL

(* However often a call is repeated, its nonce carries out one operation.  *)
THEOREM OneOperationPerNonce == Spec => []NoncesWorkOnce
<1>1. IInv => NoncesWorkOnce
  BY DEF IInv
<1> QED
  BY BrokerInvariant, <1>1, PTL
-----------------------------------------------------------------------------
(* The table of nonces and its capacity *)

Record == [nonce : Nonce, identity : Known, op : AnyOp, target : Subject, expires : Nat]

TableOK ==
  /\ pending \subseteq Record
  /\ IsFiniteSet(pending)
  /\ Cardinality(pending) <= Capacity

LEMMA FewerFit ==
  ASSUME TableOK, NEW S \in SUBSET pending
  PROVE  /\ S \subseteq Record /\ IsFiniteSet(S)
         /\ Cardinality(S) \in Nat /\ Cardinality(S) <= Capacity
<1>1. IsFiniteSet(S) /\ Cardinality(S) <= Cardinality(pending)
  BY FS_Subset DEF TableOK
<1>2. Cardinality(S) \in Nat /\ Cardinality(pending) \in Nat
  BY <1>1, FS_CardinalityType DEF TableOK
<1> QED BY <1>1, <1>2, BoundsAssumption DEF TableOK

LEMMA NewNonceFits ==
  ASSUME TableOK, HistoryOK, NEW p \in Peer, NEW op \in AnyOp, NEW x \in Subject,
         IssueNonce(p, op, x)
  PROVE  TableOK'
<1> DEFINE rec == [nonce |-> Len(issued) + 1, identity |-> identity[p], op |-> op,
                   target |-> x, expires |-> now + Lifetime]
<1>1. rec \in Record
  <2>1. Len(issued) \in Nat /\ Len(issued) < Nonces /\ now \in Nat
    BY DEF IssueNonce, HistoryOK
  <2>2. Len(issued) + 1 \in Nonce /\ now + Lifetime \in Nat
    BY <2>1, BoundsAssumption DEF Nonce
  <2>3. identity[p] \in Known
    BY DEF HistoryOK
  <2> QED BY <2>2, <2>3 DEF Record
<1>2. /\ Unexpired \subseteq Record /\ IsFiniteSet(Unexpired)
      /\ Cardinality(Unexpired) \in Nat /\ Cardinality(Unexpired) < Capacity
  <2>1. Unexpired \in SUBSET pending
    BY DEF Unexpired
  <2> QED BY <2>1, FewerFit DEF IssueNonce
<1>3. pending' = Unexpired \cup {rec}
  BY DEF IssueNonce
<1> HIDE DEF rec
<1>4. /\ IsFiniteSet(Unexpired \cup {rec})
      /\ Cardinality(Unexpired \cup {rec}) <= Cardinality(Unexpired) + 1
  <2>1. /\ IsFiniteSet(Unexpired \cup {rec})
        /\ \/ Cardinality(Unexpired \cup {rec}) = Cardinality(Unexpired)
           \/ Cardinality(Unexpired \cup {rec}) = Cardinality(Unexpired) + 1
    BY <1>2, FS_AddElement
  <2> QED BY <2>1, <1>2
<1>5. Cardinality(Unexpired \cup {rec}) \in Nat
  BY <1>4, FS_CardinalityType
<1> QED BY <1>1, <1>2, <1>3, <1>4, <1>5, BoundsAssumption DEF TableOK

LEMMA TableStep ==
  ASSUME TableOK, HistoryOK, [Next]_vars
  PROVE  TableOK'
<1>1. ASSUME pending' \subseteq pending PROVE TableOK'
  <2>1. /\ pending' \subseteq Record /\ IsFiniteSet(pending')
        /\ Cardinality(pending') <= Capacity
    BY <1>1, FewerFit
  <2> QED BY <2>1 DEF TableOK
<1>2. CASE Tick \/ Restart
  BY <1>1, <1>2 DEF Tick, Restart
<1>3. CASE Call
  <2>1. ASSUME NEW p \in Peer, NEW op \in Op, NEW t \in Target, Prepare(p, op, t)
        PROVE  TableOK'
    BY <2>1, NewNonceFits DEF Prepare, AnyOp, Subject
  <2>2. ASSUME NEW p \in Peer, NEW v \in Volume, PrepareStaging(p, v)
        PROVE  TableOK'
    BY <2>2, NewNonceFits DEF PrepareStaging, AnyOp, Subject
  <2>3. CASE PrepareRefused
    BY <1>1, <2>3 DEF PrepareRefused, Unexpired
  <2>4. ASSUME NEW t \in Target, Freeze(t) \/ Status(t) PROVE TableOK'
    BY <1>1, <2>4 DEF Freeze, Status, Unexpired
  <2>5. ASSUME NEW p \in Peer, NEW op \in Op, NEW t \in Target, NEW k \in 1 .. Len(issued),
               NotConfirmed(k, p, op, t) \/ Confirm(k, p, op, t) \/ ConfirmInVain(k, p, op, t)
        PROVE  TableOK'
    BY <1>1, <2>5 DEF NotConfirmed, Confirm, ConfirmInVain, LeftAfter, Unexpired
  <2>6. ASSUME NEW p \in Peer, NEW v \in Volume, NEW k \in 1 .. Len(issued), NotStaged(k, p, v)
        PROVE  TableOK'
    BY <1>1, <2>6 DEF NotStaged, TakenOut
  <2> QED BY <1>3, <2>1, <2>2, <2>3, <2>4, <2>5, <2>6 DEF Call
<1>4. ASSUME NEW k \in 1 .. Len(issued), NEW p \in Peer, NEW v \in Volume, BeginStaging(k, p, v)
      PROVE  TableOK'
  BY <1>1, <1>4 DEF BeginStaging, TakenOut
<1>5. CASE UNCHANGED broker
  BY <1>1, <1>5 DEF broker
<1> QED BY <1>2, <1>3, <1>4, <1>5 DEF Next, vars

-----------------------------------------------------------------------------
(* Everything else that has a type, and the staging that goes on *)

RestOK ==
  /\ os \in {"posix", "nt"}
  /\ now \in 0 .. Clock
  /\ overlay \in [Target -> {"absent", "frozen", "discarding"}]
  /\ uwf \in [{"filter", "volume"} -> [now : BOOLEAN, next : BOOLEAN]]
  /\ staging \in [step : {"none", "inspect", "protect", "enable", "verify"}, nonce : Nat]
  /\ late \subseteq [part : {"filter", "volume"}, nonce : Nat]
  /\ staged \in [by : SUBSET Nat, outlived : SUBSET Nat, reported : BOOLEAN]

InTime == staged.by \ staged.outlived

(* A staging that is past its inspection is the only one of those without  *)
(* a late command that changed something; what was changed stays set for   *)
(* the next session, which is what the inspection of every other staging   *)
(* finds; a late command is one of a staging known to have one.            *)
OneStager ==
  /\ \E k \in Nat : InTime \subseteq {k}
  /\ staging.step \in {"protect", "enable", "verify"} => InTime \subseteq {staging.nonce}
  /\ staged.by # {} => uwf["filter"].next \/ uwf["volume"].next
  /\ staged.reported => uwf["filter"].next /\ uwf["volume"].next
  /\ \A c \in late : c.nonce \in staged.outlived

LEMMA BecomesOK ==
  ASSUME RestOK, NEW t \in Target, NEW s \in {"absent", "frozen", "discarding"}, Becomes(t, s)
  PROVE  overlay' \in [Target -> {"absent", "frozen", "discarding"}]
  BY DEF RestOK, Becomes

LEMMA OpenedOK ==
  ASSUME RestOK, NEW t \in Target
  PROVE  Opened(t) \in {"absent", "frozen", "discarding"}
  BY DEF RestOK, Opened

LEMMA CallOverlayOK ==
  ASSUME RestOK, Call
  PROVE  overlay' \in [Target -> {"absent", "frozen", "discarding"}] /\ now' = now
<1>0. overlay \in [Target -> {"absent", "frozen", "discarding"}]
  BY DEF RestOK
<1>1. CASE PrepareRefused
  BY <1>0, <1>1 DEF PrepareRefused
<1>2. ASSUME NEW t \in Target, Freeze(t) \/ Status(t)
      PROVE  overlay' \in [Target -> {"absent", "frozen", "discarding"}] /\ now' = now
  BY <1>0, <1>2, BecomesOK, OpenedOK DEF Freeze, Status
<1>3. ASSUME NEW p \in Peer, NEW op \in Op, NEW t \in Target, Prepare(p, op, t)
      PROVE  overlay' = overlay /\ now' = now
  BY <1>3 DEF Prepare
<1>4. ASSUME NEW p \in Peer, NEW op \in Op, NEW t \in Target, NEW k \in 1 .. Len(issued),
             NotConfirmed(k, p, op, t)
      PROVE  overlay' = overlay /\ now' = now
  BY <1>4 DEF NotConfirmed
<1>5. ASSUME NEW p \in Peer, NEW op \in Op, NEW t \in Target, NEW k \in 1 .. Len(issued),
             Confirm(k, p, op, t) \/ ConfirmInVain(k, p, op, t)
      PROVE  overlay' \in [Target -> {"absent", "frozen", "discarding"}] /\ now' = now
  BY <1>0, <1>5, BecomesOK, OpenedOK DEF Confirm, ConfirmInVain
<1>6. ASSUME NEW p \in Peer, NEW v \in Volume,
             PrepareStaging(p, v) \/ \E k \in 1 .. Len(issued) : NotStaged(k, p, v)
      PROVE  overlay' = overlay /\ now' = now
  BY <1>6 DEF PrepareStaging, NotStaged
<1> QED BY <1>0, <1>1, <1>2, <1>3, <1>4, <1>5, <1>6 DEF Call

(* What a command that took effect changed, at once or late. *)
LEMMA SetsForOK ==
  ASSUME RestOK, NEW x \in {"filter", "volume"}, NEW k \in Nat, SetsFor(k, x)
  PROVE  /\ uwf' \in [{"filter", "volume"} -> [now : BOOLEAN, next : BOOLEAN]]
         /\ uwf'[x].next = TRUE
         /\ \A y \in {"filter", "volume"} : uwf[y].next => uwf'[y].next
         /\ staged' \in [by : SUBSET Nat, outlived : SUBSET Nat, reported : BOOLEAN]
         /\ staged'.by \subseteq staged.by \cup {k}
         /\ staged'.outlived = staged.outlived
         /\ staged'.reported = staged.reported
<1>1. /\ uwf \in [{"filter", "volume"} -> [now : BOOLEAN, next : BOOLEAN]]
      /\ staged \in [by : SUBSET Nat, outlived : SUBSET Nat, reported : BOOLEAN]
  BY DEF RestOK
<1>2. /\ uwf' = [uwf EXCEPT ![x].next = TRUE]
      /\ staged' = staged \/ staged' = [staged EXCEPT !.by = @ \cup {k}]
  BY DEF SetsFor
<1>3. /\ uwf' \in [{"filter", "volume"} -> [now : BOOLEAN, next : BOOLEAN]]
      /\ uwf'[x].next = TRUE
      /\ \A y \in {"filter", "volume"} : uwf[y].next => uwf'[y].next
  BY <1>1, <1>2
<1> QED
  BY <1>1, <1>2, <1>3

LEMMA OutlivesOK ==
  ASSUME RestOK, NEW x \in {"filter", "volume"}, Outlives(x)
  PROVE  /\ UNCHANGED uwf
         /\ late' = late \cup {[part |-> x, nonce |-> staging.nonce]}
         /\ late' \subseteq [part : {"filter", "volume"}, nonce : Nat]
         /\ staged' \in [by : SUBSET Nat, outlived : SUBSET Nat, reported : BOOLEAN]
         /\ staged'.by = staged.by /\ staged'.reported = staged.reported
         /\ staged'.outlived = staged.outlived \cup {staging.nonce}
  BY DEF RestOK, Outlives

(* Another command outlived its call, or the service that ran it. *)
LEMMA OutlivesKeeps ==
  ASSUME RestOK, OneStager, NEW x \in {"filter", "volume"}, Outlives(x),
         staging'.step = "none"
  PROVE  OneStager'
<1>1. InTime' \subseteq InTime
  BY OutlivesOK DEF InTime
<1>2. \A c \in late' : c.nonce \in staged'.outlived
  BY OutlivesOK DEF OneStager
<1> QED
  BY <1>1, <1>2, OutlivesOK DEF OneStager

(* No call changes the platform or what the kernel tells of clients. *)
LEMMA CallKeepsWho ==
  ASSUME Call
  PROVE  UNCHANGED <<os, identity>>
  BY DEF Call, PrepareRefused, Freeze, Status, Prepare, NotConfirmed, Confirm, ConfirmInVain,
         PrepareStaging, NotStaged

(* One command of a staging, its end, or the late effect of one. *)
LEMMA StagingStep ==
  ASSUME RestOK, OneStager, Windows, UNCHANGED broker
  PROVE  RestOK' /\ OneStager'
<1>1. /\ uwf \in [{"filter", "volume"} -> [now : BOOLEAN, next : BOOLEAN]]
      /\ staging \in [step : {"none", "inspect", "protect", "enable", "verify"}, nonce : Nat]
      /\ late \subseteq [part : {"filter", "volume"}, nonce : Nat]
      /\ staged \in [by : SUBSET Nat, outlived : SUBSET Nat, reported : BOOLEAN]
      /\ UNCHANGED <<os, now, overlay>>
  BY DEF RestOK, broker
<1>2. ASSUME NEW from \in {"inspect", "protect", "enable", "verify"},
             NEW to \in {"none", "protect", "enable", "verify"}, Goes(from, to)
      PROVE  /\ staging'.step = to
             /\ staging' \in [step : {"none", "inspect", "protect", "enable", "verify"}, nonce : Nat]
             /\ to # "none" => staging'.nonce = staging.nonce
             /\ staging.step = from
  BY <1>1, <1>2 DEF Goes, NoStaging
<1>3. CASE Inspect
  <2>1. staging'.step \in {"none", "protect"} /\ UNCHANGED <<uwf, late, staged>>
        /\ staging' \in [step : {"none", "inspect", "protect", "enable", "verify"}, nonce : Nat]
    BY <1>2, <1>3 DEF Inspect
  <2>2. staging'.step = "protect" => ~Configured
    BY <1>2, <1>3 DEF Inspect
  <2>3. staging'.step = "protect" => staged.by = {}
    BY <2>2 DEF Configured, OneStager
  <2> QED BY <2>1, <2>3, <1>1 DEF RestOK, OneStager, InTime
<1>4. ASSUME NEW x \in {"filter", "volume"}, NEW from \in {"protect", "enable"},
             NEW to \in {"enable", "verify"}, CommandEnds(x, from, to)
      PROVE  RestOK' /\ OneStager'
  <2>1. /\ staging' \in [step : {"none", "inspect", "protect", "enable", "verify"}, nonce : Nat]
        /\ staging'.step = "none" \/ staging'.nonce = staging.nonce
        /\ staging.step = from /\ late' = late
    BY <1>2, <1>4 DEF CommandEnds
  <2>2. CASE UNCHANGED <<uwf, staged>>
    BY <2>1, <2>2, <1>1 DEF RestOK, OneStager, InTime
  <2>3. CASE SetsFor(staging.nonce, x)
    <3>1. /\ uwf' \in [{"filter", "volume"} -> [now : BOOLEAN, next : BOOLEAN]]
          /\ uwf'[x].next = TRUE
          /\ \A y \in {"filter", "volume"} : uwf[y].next => uwf'[y].next
          /\ staged' \in [by : SUBSET Nat, outlived : SUBSET Nat, reported : BOOLEAN]
          /\ staged'.by \subseteq staged.by \cup {staging.nonce}
          /\ staged'.outlived = staged.outlived
          /\ staged'.reported = staged.reported
      BY <2>3, <1>1, SetsForOK
    <3>2. InTime' \subseteq {staging.nonce} /\ staging.nonce \in Nat
      BY <2>1, <3>1, <1>1 DEF OneStager, InTime
    <3>3. OneStager'
      BY <2>1, <3>1, <3>2 DEF OneStager
    <3> QED BY <2>1, <3>1, <3>3, <1>1 DEF RestOK
  <2> QED BY <1>4, <2>2, <2>3 DEF CommandEnds
<1>5. ASSUME NEW x \in {"filter", "volume"}, NEW from \in {"protect", "enable"},
             CommandOutlives(x, from)
      PROVE  RestOK' /\ OneStager'
  <2>1. /\ staging' \in [step : {"none", "inspect", "protect", "enable", "verify"}, nonce : Nat]
        /\ staging'.step = "none" /\ Outlives(x)
    BY <1>2, <1>5 DEF CommandOutlives
  <2>2. RestOK'
    BY <2>1, OutlivesOK, <1>1 DEF RestOK
  <2> QED BY <2>1, <2>2, OutlivesKeeps
<1>6. CASE Verify
  <2>1. /\ staging'.step = "none" /\ UNCHANGED <<uwf, late>>
        /\ staging' \in [step : {"none", "inspect", "protect", "enable", "verify"}, nonce : Nat]
    BY <1>2, <1>6 DEF Verify
  <2>2. /\ staged' \in [by : SUBSET Nat, outlived : SUBSET Nat, reported : BOOLEAN]
        /\ staged'.by = staged.by /\ staged'.outlived = staged.outlived
        /\ staged'.reported => staged.reported \/ (uwf["filter"].next /\ uwf["volume"].next)
    BY <1>1, <1>6 DEF Verify
  <2> QED BY <2>1, <2>2, <1>1 DEF RestOK, OneStager, InTime
<1>7. CASE LateEffect
  <2>1. PICK c \in late : SetsFor(c.nonce, c.part) /\ late' = late \ {c} /\ staging' = staging
    BY <1>7 DEF LateEffect
  <2>2. c.nonce \in Nat /\ c.part \in {"filter", "volume"}
    BY <1>1
  <2>3. /\ uwf' \in [{"filter", "volume"} -> [now : BOOLEAN, next : BOOLEAN]]
        /\ uwf'["filter"].next \/ uwf'["volume"].next
        /\ \A y \in {"filter", "volume"} : uwf[y].next => uwf'[y].next
        /\ staged' \in [by : SUBSET Nat, outlived : SUBSET Nat, reported : BOOLEAN]
        /\ staged'.by \subseteq staged.by \cup {c.nonce}
        /\ staged'.outlived = staged.outlived
        /\ staged'.reported = staged.reported
    <3>1. SetsFor(c.nonce, c.part)
      BY <2>1
    <3>2. uwf'[c.part].next = TRUE
      BY <3>1, <2>2, SetsForOK
    <3> QED BY <3>1, <3>2, <2>2, SetsForOK
  <2>4. InTime' \subseteq InTime
    BY <2>3 DEF InTime, OneStager
  <2>5. OneStager'
    BY <2>1, <2>3, <2>4 DEF OneStager
  <2> QED BY <2>1, <2>3, <2>5, <1>1 DEF RestOK
<1> QED BY <1>3, <1>4, <1>5, <1>6, <1>7
        DEF Windows, Staging, ProtectVolume, EnableFilter, NativeCall

LEMMA RestartStep ==
  ASSUME RestOK, OneStager, Restart
  PROVE  RestOK' /\ OneStager'
<1>1. /\ staging' = NoStaging /\ UNCHANGED <<os, now>>
      /\ overlay' \in [Target -> {"absent", "frozen", "discarding"}]
  BY DEF Restart
<1>2. CASE MachineRestarts
  <2>1. \A x \in {"filter", "volume"} : uwf'[x].next = uwf[x].next
    BY <1>2 DEF MachineRestarts, NextSession, RestOK
  <2>2. uwf' \in [{"filter", "volume"} -> [now : BOOLEAN, next : BOOLEAN]]
    BY <1>2 DEF MachineRestarts, NextSession, RestOK
  <2>3. late' = {} /\ staged' = staged
    BY <1>2 DEF MachineRestarts
  <2> QED BY <1>1, <2>1, <2>2, <2>3 DEF RestOK, OneStager, InTime, NoStaging
<1>3. CASE UNCHANGED <<uwf, late, staged>>
  BY <1>1, <1>3 DEF RestOK, OneStager, InTime, NoStaging
<1>4. ASSUME NEW x \in {"filter", "volume"}, Outlives(x) PROVE RestOK' /\ OneStager'
  <2>1. RestOK'
    BY <1>1, <1>4, OutlivesOK DEF RestOK, NoStaging
  <2> QED BY <1>1, <1>4, <2>1, OutlivesKeeps DEF NoStaging
<1> QED BY <1>2, <1>3, <1>4 DEF Restart, ServiceRestarts

LEMMA RestStep ==
  ASSUME HistoryOK, RestOK, OneStager, [Next]_vars
  PROVE  RestOK' /\ OneStager'
<1>1. CASE Tick
  <2>1. now' \in 0 .. Clock
    BY <1>1, BoundsAssumption DEF Tick, RestOK
  <2> QED BY <1>1, <2>1 DEF Tick, RestOK, OneStager, InTime, windows
<1>2. CASE Restart
  BY <1>2, RestartStep
<1>3. CASE Call /\ UNCHANGED windows
  <2>1. os' = os
    BY <1>3, CallKeepsWho
  <2> QED BY <1>3, <2>1, CallOverlayOK DEF RestOK, OneStager, InTime, windows
<1>4. ASSUME NEW k \in 1 .. Len(issued), NEW p \in Peer, NEW v \in Volume, BeginStaging(k, p, v)
      PROVE  RestOK' /\ OneStager'
  <2>1. k \in Nat
    BY DEF HistoryOK
  <2> QED BY <1>4, <2>1 DEF BeginStaging, RestOK, OneStager, InTime
<1>5. CASE Windows /\ UNCHANGED broker
  BY <1>5, StagingStep
<1>6. CASE UNCHANGED vars
  BY <1>6 DEF vars, broker, windows, RestOK, OneStager, InTime
<1> QED BY <1>1, <1>2, <1>3, <1>4, <1>5, <1>6 DEF Next

LEMMA TypesAndStager == Spec => [](TableOK /\ RestOK /\ OneStager)
<1>1. Init => TableOK /\ RestOK /\ OneStager
  <2> SUFFICES ASSUME Init PROVE TableOK /\ RestOK /\ OneStager
    OBVIOUS
  <2>1. TableOK
    BY FS_EmptySet, BoundsAssumption DEF Init, TableOK
  <2>2. uwf \in [{"filter", "volume"} -> [now : BOOLEAN, next : BOOLEAN]]
    <3>1. Off \in [now : BOOLEAN, next : BOOLEAN]
      BY DEF Off
    <3>2. uwf = [x \in {"filter", "volume"} |-> Off]
      BY DEF Init
    <3> QED BY <3>1, <3>2
  <2>3. overlay \in [Target -> {"absent", "frozen", "discarding"}]
    BY DEF Init
  <2>4. RestOK
    BY <2>2, <2>3, BoundsAssumption DEF Init, RestOK, NoStaging
  <2>5. OneStager
    BY DEF Init, OneStager, InTime, NoStaging
  <2> QED BY <2>1, <2>4, <2>5
<1>2. IInv /\ TableOK /\ RestOK /\ OneStager /\ [Next]_vars => (TableOK /\ RestOK /\ OneStager)'
  BY TableStep, RestStep DEF IInv
<1> QED BY <1>1, <1>2, BrokerInvariant, PTL DEF Spec

(* Every record of the table is well formed and at most Capacity nonces    *)
(* are pending, whatever clients prepare and abandon.                      *)
THEOREM TypeCorrect == Spec => []TypeOK
<1>1. IInv /\ TableOK /\ RestOK => TypeOK
  BY DEF IInv, HistoryOK, Known, TableOK, RestOK, TypeOK, Record, AnyOp, Subject
<1> QED BY <1>1, BrokerInvariant, TypesAndStager, PTL

(* Of the stagings none of whose commands outlived its call, one at most   *)
(* changed what is set for the next session, and after one was reported as *)
(* configured both the filter and the volume are set.                      *)
THEOREM OneStagingAtMost == Spec => []StagedOnce
<1>1. OneStager => StagedOnce
  <2> SUFFICES ASSUME OneStager PROVE StagedOnce
    OBVIOUS
  <2>1. PICK k \in Nat : InTime \subseteq {k}
    BY DEF OneStager
  <2>2. InTime = {} \/ InTime = {k}
    BY <2>1
  <2>3. Cardinality(InTime) <= 1
    <3>1. Cardinality({}) = 0 /\ Cardinality({k}) = 1
      BY FS_EmptySet, FS_Singleton, Zenon
    <3> QED BY <2>2, <3>1
  <2> QED BY <2>3 DEF OneStager, StagedOnce, InTime
<1> QED BY <1>1, TypesAndStager, PTL
=============================================================================
