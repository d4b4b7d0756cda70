-------------------------- MODULE NtLedger_proofs --------------------------
(***************************************************************************)
(* For any number of runs, plans and operations: at most one run ever      *)
(* touches the target, because whoever created STARTED(0) is the only one  *)
(* to get past it, and STARTED(0) is never created twice.  How far that    *)
(* run has come is how far the markers and the effects reach, so that the  *)
(* operations are in order and an inspection is right about them.  Beside  *)
(* an operator who reports, reviews and resolves, all of it still holds,   *)
(* and the reports and the notes are right.                                *)
(***************************************************************************)
EXTENDS NtIncident, TLAPS

(* A run that writes a marker other than INTENT is the one that created it. *)
WritersOwn ==
  \A r \in Run : pc[r] = "write" /\ at[r] # Intent => owner[at[r]] = r /\ ledger[at[r]] # None

(* The first STARTED marker stays, and tells who is past it. *)
FirstStarted ==
  /\ owner[Started(0)] # NoRun => ledger[Started(0)] # None
  /\ \A r \in Run : at[r] > Started(0) => owner[Started(0)] = r
  /\ \A r \in Run : pc[r] \in {"apply", "applying"} => at[r] > Started(0)
  /\ \A i \in Step : \A r \in who[i] : owner[Started(0)] = r
  /\ \A i \in Step : effect[i] # "no" => owner[Started(0)] # NoRun

IInv == TypeOK /\ WritersOwn /\ FirstStarted

(* The marker of the first operation is a marker, whatever N is. *)
LEMMA FirstStartedIsAMark == Started(0) \in Mark /\ Intent \in Mark /\ Started(0) # Intent
  BY StepsAssumption DEF Started, Mark, Intent, Complete

LEMMA NextMark ==
  ASSUME NEW m \in Mark, m # Complete
  PROVE  m + 1 \in Mark
<1>1. 2 * N + 1 \in Nat
  BY StepsAssumption
<1> QED
  BY <1>1 DEF Mark, Intent, Complete

(* After INTENT no operation is due, and one that is due has its STARTED   *)
(* marker written.                                                         *)
LEMMA AfterMarkerFacts ==
  ASSUME NEW m \in Mark
  PROVE  /\ AfterMarker(m) \in {"create", "apply", "over"}
         /\ AfterMarker(m) = "apply" => m >= Started(0) /\ m # Complete
  BY StepsAssumption DEF AfterMarker, Mark, Intent, Complete, Started, Step

(* Every value stays in its type. *)
LEMMA TypeStep == TypeOK /\ [Next]_vars => TypeOK'
<1> SUFFICES ASSUME TypeOK, [Next]_vars PROVE TypeOK'
  OBVIOUS
<1> USE DEF TypeOK, files, run, history, Go
<1>1. CASE RemoveIntent
  BY <1>1, FirstStartedIsAMark DEF RemoveIntent
<1>2. ASSUME NEW r \in Run, Running(r) PROVE TypeOK'
  <2>1. CASE Scan(r)
    BY <2>1 DEF Scan
  <2>2. CASE CreateMarker(r)
    BY <2>2 DEF CreateMarker
  <2>3. CASE MarkerExists(r)
    BY <2>3 DEF MarkerExists
  <2>4. CASE WriteMarker(r)
    <3>1. pc' \in [Run -> {"new", "create", "write", "apply", "applying", "over"}]
      BY <2>4, AfterMarkerFacts DEF WriteMarker
    <3>2. at[r] # Complete => at[r] + 1 \in Mark
      BY NextMark
    <3>3. at' \in [Run -> Mark]
      BY <2>4, <3>2 DEF WriteMarker
    <3> QED
      BY <2>4, <3>1, <3>3 DEF WriteMarker
  <2>5. CASE BeginOperation(r)
    BY <2>5 DEF BeginOperation
  <2>6. CASE EndOperation(r)
    BY <2>6 DEF EndOperation
  <2>7. CASE Stop(r)
    BY <2>7 DEF Stop
  <2> QED
    BY <1>2, <2>1, <2>2, <2>3, <2>4, <2>5, <2>6, <2>7 DEF Running
<1>3. CASE UNCHANGED vars
  BY <1>3 DEF vars
<1> QED
  BY <1>1, <1>2, <1>3 DEF Next

(* Who writes a marker created it, and finds it still there. *)
LEMMA WritersStep == IInv /\ [Next]_vars => WritersOwn'
<1> SUFFICES ASSUME IInv, [Next]_vars PROVE WritersOwn'
  OBVIOUS
<1> USE DEF IInv, TypeOK, WritersOwn, files, run, history, Go
<1>1. CASE RemoveIntent
  BY <1>1, FirstStartedIsAMark DEF RemoveIntent
<1>2. ASSUME NEW r \in Run, Running(r) PROVE WritersOwn'
  <2>1. CASE Scan(r)
    BY <2>1 DEF Scan
  <2>2. CASE CreateMarker(r)
    BY <2>2, ContentAssumption DEF CreateMarker
  <2>3. CASE MarkerExists(r)
    BY <2>3 DEF MarkerExists
  <2>4. CASE WriteMarker(r)
    <3>1. \A s \in Run : pc'[s] = "write" => s # r
      BY <2>4, AfterMarkerFacts DEF WriteMarker
    <3>2. plan[r] # None
      BY ContentAssumption
    <3> QED
      BY <2>4, <3>1, <3>2 DEF WriteMarker
  <2>5. CASE BeginOperation(r)
    BY <2>5 DEF BeginOperation
  <2>6. CASE EndOperation(r)
    BY <2>6 DEF EndOperation
  <2>7. CASE Stop(r)
    BY <2>7 DEF Stop
  <2> QED
    BY <1>2, <2>1, <2>2, <2>3, <2>4, <2>5, <2>6, <2>7 DEF Running
<1>3. CASE UNCHANGED vars
  BY <1>3 DEF vars
<1> QED
  BY <1>1, <1>2, <1>3 DEF Next

(* STARTED(0) is created once, and whoever is past it created it. *)
LEMMA FirstStartedStep == IInv /\ [Next]_vars => FirstStarted'
<1> SUFFICES ASSUME IInv, [Next]_vars PROVE FirstStarted'
  OBVIOUS
<1> USE FirstStartedIsAMark
<1> USE DEF IInv, TypeOK, FirstStarted, files, run, history, Go
<1>1. CASE RemoveIntent
  BY <1>1, FirstStartedIsAMark DEF RemoveIntent
<1>2. ASSUME NEW r \in Run, Running(r) PROVE FirstStarted'
  <2>1. CASE Scan(r)
    BY <2>1 DEF Scan
  <2>2. CASE CreateMarker(r)
    <3>1. CASE at[r] = Started(0)
      <4>1. owner[Started(0)] = NoRun
        BY <2>2, <3>1 DEF CreateMarker
      <4>2. \A s \in Run : ~(at[s] > Started(0))
        BY <4>1, RunAssumption
      <4>3. \A i \in Step : who[i] = {}
        BY <4>1, RunAssumption
      <4> QED
        BY <2>2, <3>1, <4>2, <4>3, ContentAssumption DEF CreateMarker
    <3>2. CASE at[r] # Started(0)
      BY <2>2, <3>2 DEF CreateMarker
    <3> QED
      BY <3>1, <3>2
  <2>3. CASE MarkerExists(r)
    BY <2>3 DEF MarkerExists
  <2>4. CASE WriteMarker(r)
    <3>1. ledger'[Started(0)] = ledger[Started(0)] \/ ledger'[Started(0)] # None
      BY <2>4, ContentAssumption DEF WriteMarker
    <3>0. at[r] \in Nat
      <4>1. at[r] \in Mark
        OBVIOUS
      <4> QED
        BY <4>1 DEF Mark, Intent
    <3>2. at'[r] > Started(0) => owner[Started(0)] = r
      <4>1. CASE at[r] = Started(0)
        BY <2>4, <4>1 DEF WriteMarker, WritersOwn
      <4>2. CASE at[r] > Started(0)
        BY <4>2
      <4>3. CASE at[r] < Started(0)
        BY <2>4, <3>0, <4>3 DEF WriteMarker, Started
      <4> QED
        BY <3>0, <4>1, <4>2, <4>3 DEF Started
    <3>3. pc'[r] \in {"apply", "applying"} => at'[r] > Started(0)
      <4>1. pc'[r] = AfterMarker(at[r])
        BY <2>4 DEF WriteMarker
      <4>2. at[r] # Complete => at'[r] = at[r] + 1
        BY <2>4 DEF WriteMarker
      <4> QED
        BY <3>0, <4>1, <4>2, AfterMarkerFacts DEF Started
    <3>4. \A s \in Run : s # r => pc'[s] = pc[s] /\ at'[s] = at[s]
      BY <2>4 DEF WriteMarker
    <3> QED
      BY <2>4, <3>1, <3>2, <3>3, <3>4 DEF WriteMarker
  <2>5. CASE BeginOperation(r)
    <3>1. owner[Started(0)] = r
      BY <2>5 DEF BeginOperation
    <3>2. \A i \in Step : who'[i] \subseteq who[i] \cup {r}
      BY <2>5 DEF BeginOperation
    <3> QED
      BY <2>5, <3>1, <3>2, RunAssumption DEF BeginOperation
  <2>6. CASE EndOperation(r)
    BY <2>6, RunAssumption DEF EndOperation
  <2>7. CASE Stop(r)
    BY <2>7 DEF Stop
  <2> QED
    BY <1>2, <2>1, <2>2, <2>3, <2>4, <2>5, <2>6, <2>7 DEF Running
<1>3. CASE UNCHANGED vars
  BY <1>3 DEF vars
<1> QED
  BY <1>1, <1>2, <1>3 DEF Next

LEMMA InitIInv == Init => IInv
<1> SUFFICES ASSUME Init PROVE IInv
  OBVIOUS
<1>1. TypeOK
  BY FirstStartedIsAMark DEF Init, TypeOK
<1>2. WritersOwn
  BY DEF Init, WritersOwn
<1>3. FirstStarted
  BY FirstStartedIsAMark, StepsAssumption DEF Init, FirstStarted, Started, Intent
<1> QED
  BY <1>1, <1>2, <1>3 DEF IInv

(* The inductive invariant holds always. *)
THEOREM LedgerInvariant == Spec => []IInv
<1>1. IInv /\ [Next]_vars => IInv'
  BY TypeStep, WritersStep, FirstStartedStep DEF IInv
<1> QED
  BY InitIInv, <1>1, PTL DEF Spec

(* Whatever runs are started, stop or meet, one run begins all the         *)
(* operations that ever begin.                                             *)
THEOREM AtMostOneRun == Spec => []OneRunTouchesTheTarget
<1>1. IInv => OneRunTouchesTheTarget
  BY DEF IInv, FirstStarted, OneRunTouchesTheTarget
<1> QED
  BY LedgerInvariant, <1>1, PTL

FreshStartRefused ==
  \A r \in Run :
    /\ pc[r] = "new" /\ pc'[r] = "create"
    /\ \E i \in Step : effect[i] # "no"
    => ledger[Intent] # None

LEMMA FreshStartStep ==
  ASSUME IInv, [Next]_vars
  PROVE  FreshStartRefused
<1> SUFFICES ASSUME NEW r \in Run, pc[r] = "new", pc'[r] = "create",
                    NEW i \in Step, effect[i] # "no"
             PROVE  ledger[Intent] # None
  BY DEF FreshStartRefused
<1>1. ledger[Started(0)] # None
  BY DEF IInv, FirstStarted
<1>2. PICK s \in Run : Running(s) \/ RemoveIntent
  BY DEF Next, vars, run
<1>3. CASE RemoveIntent
  BY <1>3 DEF RemoveIntent, run
<1>4. CASE Running(s) /\ s # r
  BY <1>4 DEF Running, Scan, CreateMarker, MarkerExists, WriteMarker,
              BeginOperation, EndOperation, Stop, Go, IInv, TypeOK
<1>5. CASE Running(s) /\ s = r
  <2>1. Scan(r)
    BY <1>5 DEF Running, Scan, CreateMarker, MarkerExists, WriteMarker,
                BeginOperation, EndOperation, Stop, Go
  <2>2. ~Orphans
    BY <2>1 DEF Scan, Go, IInv, TypeOK
  <2> QED
    BY <1>1, <2>2, FirstStartedIsAMark DEF Orphans
<1> QED
  BY <1>2, <1>3, <1>4, <1>5

(* Once an operation began, its STARTED(0) betrays the attempt: a run that *)
(* scans a store without INTENT does not go on.                            *)
THEOREM NoFreshStart == Spec => NoFreshStartAfterEffects
<1>1. IInv /\ [Next]_vars => [FreshStartRefused]_vars
  BY FreshStartStep
<1> QED
  BY LedgerInvariant, <1>1, PTL DEF Spec, NoFreshStartAfterEffects, FreshStartRefused

-----------------------------------------------------------------------------
(* How far the owner of STARTED(0) has come: the markers below its next    *)
(* one are all there and none above, and the target agrees.                *)

Beyond == Mark \ {Intent}

OwnedByTheFirst ==
  \A m \in Beyond : /\ owner[m] = NoRun <=> ledger[m] = None
                    /\ owner[m] \in {NoRun, owner[Started(0)]}

MarkersUpTo(r) ==
  /\ at[r] \in Beyond
  /\ \A m \in Beyond : /\ m < at[r] => ledger[m] # None
                       /\ m > at[r] => ledger[m] = None
  /\ pc[r] # "new"
  /\ pc[r] \in {"create", "apply", "applying"} => ledger[at[r]] = None

EffectsUpTo(r) ==
  /\ pc[r] \in {"apply", "applying"} => \E i \in Step : at[r] = Done(i)
  /\ \A i \in Step :
       /\ Done(i) < at[r] => effect[i] = "yes"
       /\ Done(i) > at[r] => effect[i] = "no"
       /\ Done(i) = at[r] /\ (pc[r] \in {"create", "write"} \/ ledger[at[r]] # None)
            => effect[i] = "yes"

Advance == \A r \in Run : owner[Started(0)] = r => MarkersUpTo(r) /\ EffectsUpTo(r)

Chain == OwnedByTheFirst /\ Advance

LEMMA MarkArithmetic ==
  /\ N \in Nat /\ N >= 1
  /\ \A m \in Mark : m \in Nat /\ m <= 2 * N + 1
  /\ \A m \in Beyond : m >= 1
  /\ \A i \in Step : /\ i \in Nat /\ i < N
                     /\ Started(i) = 2 * i + 1 /\ Done(i) = 2 * i + 2
                     /\ Started(i) \in Beyond /\ Done(i) \in Beyond
  /\ Started(0) = 1 /\ Complete = 2 * N + 1 /\ Intent = 0
  /\ Intent \in Mark /\ Intent \notin Beyond /\ Started(0) \in Beyond
  BY StepsAssumption DEF Mark, Beyond, Intent, Complete, Started, Done, Step

(* n is the marker after m. *)
Follows(n, m) ==
  /\ n \in Beyond
  /\ \A k \in Beyond : /\ k < n => k < m \/ k = m
                       /\ k > n => k > m /\ k # m
  /\ n > m /\ n # m
  /\ \A i \in Step : /\ Done(i) = n <=> m = Started(i)
                     /\ Done(i) < n => Done(i) < m \/ Done(i) = m
                     /\ Done(i) > n => Done(i) > m

LEMMA NextFollows ==
  ASSUME NEW m \in Beyond, m # Complete
  PROVE  Follows(m + 1, m)
<1> DEFINE n == m + 1
<1>1. m \in Nat /\ m >= 1 /\ m <= 2 * N + 1 /\ m # 2 * N + 1
  BY MarkArithmetic DEF Beyond
<1>2. n \in Beyond
  BY <1>1, MarkArithmetic DEF Beyond, Mark
<1>3. \A k \in Beyond : k \in Nat
  BY MarkArithmetic DEF Beyond
<1> QED
  BY <1>1, <1>2, <1>3, MarkArithmetic DEF Follows

LEMMA AfterMarkerKinds ==
  ASSUME NEW m \in Mark
  PROVE  /\ AfterMarker(m) = "apply" => \E i \in Step : m = Started(i)
         /\ AfterMarker(m) = "create" => m # Complete /\ \A i \in Step : m # Started(i)
         /\ m = Complete => AfterMarker(m) = "over"
         /\ AfterMarker(m) \in {"create", "apply", "over"}
  BY DEF AfterMarker

LEMMA CurrentOperation ==
  ASSUME NEW r \in Run, NEW i \in Step, at[r] = Done(i)
  PROVE  Current(r) = i
  BY MarkArithmetic DEF Current

(* A step of another run, or one that leaves files and its own place       *)
(* alone, takes nothing from the owner.                                    *)
LEMMA OwnerKeeps ==
  ASSUME Chain, NEW r \in Run, owner'[Started(0)] = r, owner[Started(0)] = r,
         UNCHANGED effect, at'[r] = at[r],
         \A m \in Beyond : ledger'[m] = ledger[m],
         pc'[r] \in {pc[r], "over"}
  PROVE  (MarkersUpTo(r) /\ EffectsUpTo(r))'
<1>1. MarkersUpTo(r) /\ EffectsUpTo(r)
  BY DEF Chain, Advance
<1>2. MarkersUpTo(r)'
  BY <1>1 DEF MarkersUpTo
<1>3. EffectsUpTo(r)'
  BY <1>1 DEF EffectsUpTo, MarkersUpTo
<1> QED
  BY <1>2, <1>3

LEMMA InitChain == Init => Chain
  BY FirstStartedIsAMark, RunAssumption DEF Init, Chain, OwnedByTheFirst, Advance, Beyond

(* Creating a marker: the first one makes its run the owner, the others    *)
(* are the owner's next.                                                   *)
LEMMA CreateStep ==
  ASSUME IInv, Chain, NEW r \in Run, CreateMarker(r)
  PROVE  Chain'
<1> USE DEF IInv, TypeOK, files, run, history, Go
<1>1. /\ pc[r] = "create" /\ ledger[at[r]] = None
      /\ ledger' = [ledger EXCEPT ![at[r]] = Torn]
      /\ owner' = [owner EXCEPT ![at[r]] = r]
      /\ at' = at /\ effect' = effect /\ pc' = [pc EXCEPT ![r] = "write"]
  BY DEF CreateMarker
<1>2. CASE at[r] = Intent
  <2>1. \A m \in Beyond : ledger'[m] = ledger[m] /\ owner'[m] = owner[m]
    BY <1>1, <1>2 DEF Beyond
  <2>2. owner'[Started(0)] = owner[Started(0)]
    BY <1>1, <1>2, FirstStartedIsAMark
  <2>3. ASSUME NEW s \in Run, owner'[Started(0)] = s PROVE (MarkersUpTo(s) /\ EffectsUpTo(s))'
    <3>1. s # r
      BY <1>2, <2>2, <2>3, MarkArithmetic DEF Chain, Advance, MarkersUpTo
    <3> QED
      BY <1>1, <2>1, <2>2, <2>3, <3>1, OwnerKeeps
  <2> QED
    BY <2>1, <2>2, <2>3 DEF Chain, OwnedByTheFirst, Advance
<1>3. CASE at[r] = Started(0)
  <2>1. owner[Started(0)] = NoRun
    BY <1>1, <1>3, MarkArithmetic DEF Chain, OwnedByTheFirst
  <2>2. \A m \in Beyond : owner[m] = NoRun /\ ledger[m] = None
    BY <2>1 DEF Chain, OwnedByTheFirst
  <2>3. \A i \in Step : effect[i] = "no"
    BY <2>1 DEF FirstStarted
  <2>4. owner'[Started(0)] = r /\ ledger'[Started(0)] = Torn /\ pc'[r] = "write"
    BY <1>1, <1>3, FirstStartedIsAMark
  <2>5. \A m \in Beyond : m # Started(0) => owner'[m] = NoRun /\ ledger'[m] = None
    BY <1>1, <1>3, <2>2 DEF Beyond
  <2>6. OwnedByTheFirst'
    BY <2>4, <2>5, ContentAssumption, RunAssumption DEF OwnedByTheFirst
  <2>7. MarkersUpTo(r)'
    BY <1>1, <1>3, <2>4, <2>5, MarkArithmetic DEF MarkersUpTo, Beyond
  <2>8. EffectsUpTo(r)'
    BY <1>1, <1>3, <2>3, <2>4, MarkArithmetic DEF EffectsUpTo
  <2> QED
    BY <2>4, <2>6, <2>7, <2>8 DEF Chain, Advance
<1>4. CASE at[r] > Started(0)
  <2>1. owner[Started(0)] = r
    BY <1>4 DEF FirstStarted
  <2>2. MarkersUpTo(r) /\ EffectsUpTo(r)
    BY <2>1 DEF Chain, Advance
  <2>3. at[r] \in Beyond /\ at[r] # Started(0)
    BY <1>4, <2>2, MarkArithmetic DEF MarkersUpTo
  <2>4. owner'[Started(0)] = r
    BY <1>1, <2>1, <2>3, FirstStartedIsAMark
  <2>5. OwnedByTheFirst'
    BY <1>1, <2>1, <2>4, ContentAssumption, RunAssumption
    DEF Chain, OwnedByTheFirst, Beyond
  <2>6. MarkersUpTo(r)'
    BY <1>1, <2>2, ContentAssumption, MarkArithmetic DEF MarkersUpTo, Beyond
  <2>7. EffectsUpTo(r)'
    BY <1>1, <2>2 DEF EffectsUpTo
  <2> QED
    BY <2>4, <2>5, <2>6, <2>7 DEF Chain, Advance
<1> QED
  <2>1. at[r] \in Nat
    BY MarkArithmetic
  <2> QED
    BY <1>2, <1>3, <1>4, <2>1, MarkArithmetic

(* A marker that was written lets its run go on to the next. *)
LEMMA WriteStep ==
  ASSUME IInv, Chain, NEW r \in Run, WriteMarker(r)
  PROVE  Chain'
<1> USE DEF IInv, TypeOK, files, run, history, Go
<1>1. /\ pc[r] = "write" /\ pc' = [pc EXCEPT ![r] = AfterMarker(at[r])]
      /\ ledger' = IF owner[at[r]] = r THEN [ledger EXCEPT ![at[r]] = plan[r]] ELSE ledger
      /\ at' = IF at[r] = Complete THEN at ELSE [at EXCEPT ![r] = @ + 1]
      /\ effect' = effect /\ owner' = owner
  BY DEF WriteMarker
<1>2. plan[r] # None
  BY ContentAssumption
<1>3. OwnedByTheFirst'
  BY <1>1, <1>2 DEF Chain, OwnedByTheFirst, Beyond, WritersOwn
<1>4. CASE at[r] = Intent
  <2>1. ASSUME NEW s \in Run, owner[Started(0)] = s PROVE (MarkersUpTo(s) /\ EffectsUpTo(s))'
    <3>1. s # r
      BY <1>4, <2>1, MarkArithmetic DEF Chain, Advance, MarkersUpTo
    <3>2. \A m \in Beyond : ledger'[m] = ledger[m]
      BY <1>1, <1>4 DEF Beyond
    <3> QED
      BY <1>1, <2>1, <3>1, <3>2, OwnerKeeps
  <2> QED
    BY <1>1, <1>3, <2>1 DEF Chain, Advance
<1>5. CASE at[r] # Intent
  <2>1. owner[at[r]] = r /\ at[r] \in Beyond
    BY <1>1, <1>5 DEF WritersOwn, Beyond
  <2>2. owner[Started(0)] = r
    BY <2>1, RunAssumption DEF Chain, OwnedByTheFirst
  <2>3. MarkersUpTo(r) /\ EffectsUpTo(r)
    BY <2>2 DEF Chain, Advance
  <2>4. \A m \in Beyond : ledger'[m] = IF m = at[r] THEN plan[r] ELSE ledger[m]
    BY <1>1, <2>1 DEF Beyond
  <2>5. pc'[r] = AfterMarker(at[r])
    BY <1>1
  <2>6. MarkersUpTo(r)' /\ EffectsUpTo(r)'
    <3>1. CASE at[r] = Complete
      <4>1. pc'[r] = "over" /\ at'[r] = at[r]
        BY <1>1, <2>5, <3>1, AfterMarkerKinds
      <4>2. \A i \in Step : Done(i) # at[r]
        BY <3>1, MarkArithmetic
      <4> QED
        BY <1>1, <1>2, <2>3, <2>4, <4>1, <4>2 DEF MarkersUpTo, EffectsUpTo
    <3>2. CASE at[r] # Complete
      <4>1. at'[r] = at[r] + 1
        BY <1>1, <3>2
      <4>2. Follows(at'[r], at[r])
        BY <2>1, <3>2, <4>1, NextFollows
      <4>3. MarkersUpTo(r)'
        <5>1. ASSUME NEW m \in Beyond
              PROVE  /\ m < at'[r] => ledger'[m] # None
                     /\ m > at'[r] => ledger'[m] = None
          BY <1>2, <2>3, <2>4, <4>2 DEF MarkersUpTo, Follows
        <5>2. ledger'[at'[r]] = None
          BY <2>3, <2>4, <4>2 DEF MarkersUpTo, Follows
        <5>3. pc'[r] # "new"
          BY <2>5, AfterMarkerKinds
        <5> QED
          BY <4>2, <5>1, <5>2, <5>3 DEF MarkersUpTo, Follows
      <4>4. ASSUME NEW i \in Step
            PROVE  /\ Done(i) < at'[r] => effect'[i] = "yes"
                   /\ Done(i) > at'[r] => effect'[i] = "no"
        BY <1>1, <2>3, <4>2 DEF EffectsUpTo, Follows
      <4>5. pc'[r] \in {"apply", "applying"} => \E i \in Step : at'[r] = Done(i)
        BY <2>1, <2>5, <4>2, AfterMarkerKinds DEF Beyond, Follows
      <4>6. ASSUME NEW i \in Step, Done(i) = at'[r]
            PROVE  pc'[r] \notin {"create", "write"} /\ ledger'[at'[r]] = None
        <5>1. at[r] = Started(i)
          BY <4>2, <4>6 DEF Follows
        <5>2. pc'[r] \notin {"create", "write"}
          BY <2>5, <5>1, AfterMarkerKinds
        <5>3. ledger'[at'[r]] = None
          BY <2>3, <2>4, <4>2 DEF MarkersUpTo, Follows
        <5> QED
          BY <5>2, <5>3
      <4> QED
        BY <4>3, <4>4, <4>5, <4>6 DEF EffectsUpTo
    <3> QED
      BY <3>1, <3>2
  <2> QED
    BY <1>1, <1>3, <2>2, <2>6 DEF Chain, Advance
<1> QED
  BY <1>4, <1>5

(* An operation is begun and ended by the owner, at its own marker. *)
LEMMA OperationStep ==
  ASSUME IInv, Chain, NEW r \in Run, BeginOperation(r) \/ EndOperation(r)
  PROVE  Chain'
<1> USE DEF IInv, TypeOK, files, run, history, Go
<1>1. /\ pc[r] \in {"apply", "applying"} /\ pc'[r] \in {"applying", "create"}
      /\ UNCHANGED <<ledger, at, owner>>
      /\ \A j \in Step : j # Current(r) => effect'[j] = effect[j]
      /\ pc'[r] = "create" => \A j \in Step : j = Current(r) => effect'[j] = "yes"
  BY DEF BeginOperation, EndOperation
<1>2. owner[Started(0)] = r
  BY <1>1 DEF FirstStarted
<1>3. MarkersUpTo(r) /\ EffectsUpTo(r)
  BY <1>2 DEF Chain, Advance
<1>4. PICK i \in Step : at[r] = Done(i)
  BY <1>1, <1>3 DEF EffectsUpTo
<1>5. Current(r) = i
  BY <1>4, CurrentOperation
<1>6. \A j \in Step : Done(j) < at[r] \/ Done(j) > at[r] => j # i
  BY <1>4, MarkArithmetic
<1>7. \A j \in Step : Done(j) = at[r] => j = i
  BY <1>4, MarkArithmetic
<1>8. ledger[at[r]] = None /\ MarkersUpTo(r)'
  BY <1>1, <1>3 DEF MarkersUpTo
<1>9. EffectsUpTo(r)'
  BY <1>1, <1>3, <1>4, <1>5, <1>6, <1>7, <1>8 DEF EffectsUpTo
<1> QED
  BY <1>1, <1>2, <1>8, <1>9 DEF Chain, OwnedByTheFirst, Advance

LEMMA ChainStep == IInv /\ Chain /\ [Next]_vars => Chain'
<1> SUFFICES ASSUME IInv, Chain, [Next]_vars PROVE Chain'
  OBVIOUS
<1>1. ASSUME NEW r \in Run, Running(r),
             ~CreateMarker(r), ~WriteMarker(r), ~BeginOperation(r), ~EndOperation(r)
      PROVE  Chain'
  <2>1. /\ UNCHANGED <<ledger, effect, at, owner>>
        /\ \A s \in Run : pc'[s] \in {pc[s], "over"} \/ (s = r /\ pc[s] = "new" /\ pc'[s] = "create")
    BY <1>1 DEF Running, Scan, MarkerExists, Stop, Go, files, history, IInv, TypeOK
  <2>2. ASSUME NEW s \in Run, owner'[Started(0)] = s PROVE (MarkersUpTo(s) /\ EffectsUpTo(s))'
    <3>1. MarkersUpTo(s) /\ EffectsUpTo(s)
      BY <2>1, <2>2 DEF Chain, Advance
    <3>2. CASE pc'[s] \in {pc[s], "over"}
      BY <2>1, <2>2, <3>2, OwnerKeeps
    <3>3. pc[s] # "new"
      BY <3>1 DEF MarkersUpTo
    <3> QED
      BY <2>1, <3>2, <3>3
  <2> QED
    BY <2>1, <2>2 DEF Chain, OwnedByTheFirst, Advance
<1>2. CASE RemoveIntent
  <2>1. \A m \in Beyond : ledger'[m] = ledger[m] /\ owner'[m] = owner[m]
    BY <1>2 DEF RemoveIntent, Beyond, IInv, TypeOK
  <2>2. owner'[Started(0)] = owner[Started(0)]
    BY <2>1, MarkArithmetic
  <2>3. UNCHANGED <<effect, pc, at>>
    BY <1>2 DEF RemoveIntent, run
  <2>4. ASSUME NEW s \in Run, owner'[Started(0)] = s PROVE (MarkersUpTo(s) /\ EffectsUpTo(s))'
    BY <2>1, <2>2, <2>3, <2>4, OwnerKeeps
  <2> QED
    BY <2>1, <2>2, <2>4 DEF Chain, OwnedByTheFirst, Advance
<1>3. CASE UNCHANGED vars
  BY <1>3 DEF vars, files, run, history, Chain, OwnedByTheFirst, Advance, MarkersUpTo, EffectsUpTo
<1> QED
  BY <1>1, <1>2, <1>3, CreateStep, WriteStep, OperationStep DEF Next

(* Effects need a STARTED marker, and DONE markers need effects. *)
LEMMA ChainIsTruthful ==
  ASSUME IInv, Chain, NEW i \in Step
  PROVE  /\ ledger[Done(i)] # None => effect[i] = "yes"
         /\ effect[i] # "no" => ledger[Started(i)] # None
         /\ effect[i] # "no" => \A j \in 0 .. i - 1 : effect[j] = "yes"
<1>1. CASE owner[Started(0)] = NoRun
  <2>1. \A m \in Beyond : ledger[m] = None
    BY <1>1 DEF Chain, OwnedByTheFirst
  <2>2. effect[i] = "no"
    BY <1>1 DEF IInv, FirstStarted
  <2> QED
    BY <2>1, <2>2, MarkArithmetic
<1>2. CASE owner[Started(0)] # NoRun
  <2>1. PICK r \in Run : owner[Started(0)] = r
    BY <1>2, FirstStartedIsAMark DEF IInv, TypeOK
  <2>2. MarkersUpTo(r) /\ EffectsUpTo(r)
    BY <2>1 DEF Chain, Advance
  <2>3. at[r] \in Nat /\ Done(i) \in Nat /\ Started(i) < Done(i)
        /\ Started(i) \in Beyond /\ Done(i) \in Beyond
    <3>1. \A m \in Beyond : m \in Nat
      BY MarkArithmetic DEF Beyond
    <3>2. at[r] \in Nat
      BY <2>2, <3>1 DEF MarkersUpTo
    <3> QED
      BY <3>2, MarkArithmetic
  <2>4. effect[i] # "no" => Done(i) <= at[r]
    BY <2>2, <2>3 DEF EffectsUpTo
  <2>5. ledger[Done(i)] # None => effect[i] = "yes"
    BY <2>2, <2>3 DEF EffectsUpTo, MarkersUpTo
  <2>6. effect[i] # "no" => ledger[Started(i)] # None
    <3>1. Started(i) \in Nat
      BY MarkArithmetic
    <3> QED
      BY <2>2, <2>3, <2>4, <3>1 DEF MarkersUpTo
  <2>7. ASSUME effect[i] # "no", NEW j \in 0 .. i - 1 PROVE effect[j] = "yes"
    <3>1. j \in Step /\ Done(j) < Done(i) /\ Done(j) \in Nat
      BY MarkArithmetic DEF Step
    <3>2. Done(j) < at[r]
      BY <2>3, <2>4, <2>7, <3>1
    <3> QED
      BY <2>2, <3>1, <3>2 DEF EffectsUpTo
  <2> QED
    BY <2>5, <2>6, <2>7
<1> QED
  BY <1>1, <1>2

(* Both parts of the invariant hold always. *)
THEOREM ChainInvariant == Spec => [](IInv /\ Chain)
<1>1. Init => IInv /\ Chain
  BY InitIInv, InitChain
<1>2. IInv /\ [Next]_vars => IInv'
  BY TypeStep, WritersStep, FirstStartedStep DEF IInv
<1>3. (IInv /\ Chain) /\ [Next]_vars => (IInv /\ Chain)'
  BY <1>2, ChainStep
<1> QED
  BY <1>1, <1>3, PTL DEF Spec

(* Operations are applied in the order of the plan, each one only when all *)
(* before it are complete, also when runs meet and INTENT is deleted.      *)
THEOREM AppliedInOrder == Spec => []OperationsInOrder
<1>1. IInv /\ Chain => OperationsInOrder
  BY ChainIsTruthful DEF OperationsInOrder
<1> QED
  BY ChainInvariant, <1>1, PTL

(* What an inspection concludes lies between the markers it read. *)
LEMMA VerdictFacts ==
  ASSUME NEW obs, NEW i \in Step
  PROVE  /\ SaysDone(Verdict(obs), i) => obs[Done(i)] # None
         /\ SaysUntouched(Verdict(obs), i) => obs[Started(i)] = None
<1> DEFINE v == Verdict(obs)
<1>1. CASE v.state \in {"absent", "invalid"} /\ v.upto = 0
  BY <1>1, MarkArithmetic DEF SaysDone, SaysUntouched
<1>2. CASE \E j \in Intent .. 2 * N : v.upto = j /\ Reached(obs, j)
  <2>1. PICK j \in Intent .. 2 * N : v.upto = j /\ Present(obs) = Started(0) .. j
    BY <1>2 DEF Reached
  <2>2. /\ Done(i) \in Mark \ {Intent, Complete} /\ Started(i) \in Mark \ {Intent, Complete}
        /\ Done(i) \in Nat /\ Started(i) \in Nat /\ Done(i) >= Started(0)
        /\ Started(0) = 1
    BY MarkArithmetic DEF Beyond
  <2>3. j \in Nat
    BY MarkArithmetic
  <2>4. Done(i) <= j => Done(i) \in Present(obs)
    BY <2>1, <2>2, <2>3
  <2>5. Started(i) > j => Started(i) \notin Present(obs)
    BY <2>1, <2>2, <2>3
  <2> QED
    BY <2>1, <2>2, <2>4, <2>5 DEF Present, SaysDone, SaysUntouched
<1>3. CASE obs[Intent] = None \/ IsInvalid(obs)
  BY <1>1, <1>3 DEF Verdict
<1>4. CASE obs[Intent] # None /\ ~IsInvalid(obs)
  <2>1. \E j \in Intent .. 2 * N : Reached(obs, j)
    BY <1>4 DEF IsInvalid, IntentParses
  <2>2. v.upto = CHOOSE j \in Intent .. 2 * N : Reached(obs, j)
    BY <1>4 DEF Verdict
  <2> QED
    BY <1>2, <2>1, <2>2
<1> QED
  BY <1>3, <1>4

(* An inspection that does not raise is right about the target. *)
THEOREM InspectionIsRight == Spec => []LedgerIsTruthful
<1>1. IInv /\ Chain => LedgerIsTruthful
  BY ChainIsTruthful, VerdictFacts DEF LedgerIsTruthful
<1> QED
  BY ChainInvariant, <1>1, PTL
-----------------------------------------------------------------------------
(* The operator beside the runs *)

(* No marker but INTENT ever disappears. *)
LEMMA MarkersStay ==
  ASSUME IInv, [Next]_vars, NEW m \in Beyond, ledger[m] # None
  PROVE  ledger'[m] # None
<1> USE DEF IInv, TypeOK, files, run
<1>1. m \in Mark /\ m # Intent
  BY DEF Beyond
<1>2. CASE RemoveIntent
  BY <1>1, <1>2 DEF RemoveIntent
<1>3. ASSUME NEW r \in Run, Running(r) PROVE ledger'[m] # None
  <2>1. plan[r] # None
    BY ContentAssumption
  <2>2. CASE CreateMarker(r)
    BY <2>2, <1>1, ContentAssumption DEF CreateMarker
  <2>3. CASE WriteMarker(r)
    BY <2>1, <2>3, <1>1 DEF WriteMarker
  <2> QED
    BY <1>3, <2>2, <2>3 DEF Running, Scan, MarkerExists, BeginOperation, EndOperation, Stop
<1> QED
  BY <1>2, <1>3 DEF Next, vars

(* What was read to be there still is; a second reading cannot miss the    *)
(* STARTED marker of what was touched when it began.                       *)
ReadInv ==
  /\ \A m \in Beyond : m \in DOMAIN seen /\ seen[m] # None => ledger[m] # None
  /\ stage = "intent" => \A i \in Step : SaysDone(report, i) => ledger[Done(i)] # None
  /\ stage = "second" =>
       \A i \in Step :
         /\ SaysDone(report, i) => effectThen[i] = "yes"
         /\ effectThen[i] # "no" => ledger[Started(i)] # None
         /\ effectThen[i] # "no" /\ Started(i) \in DOMAIN seen => seen[Started(i)] # None
  /\ ReportsAreOfOneMoment

(* A note that is being written is half of one; a resolution goes on only  *)
(* for an interrupted attempt, and is written only when the review fits.   *)
NoteInv ==
  /\ review = [state |-> review.state, plan |-> review.plan]
  /\ op = "idle" => stage = "first" /\ DOMAIN seen = {}
  /\ stage = "intent" => op # "idle" /\ DOMAIN seen = {}
  /\ stage = "note" => op \in {"review", "resolve"}
  /\ stage = "fill" => op \in {"review", "resolve"} /\ Note = HalfNote
  /\ op = "resolve" => report.state \in Interrupted /\ stage \in {"third", "note", "fill"}
  /\ op = "resolve" /\ stage \in {"note", "fill"} => ReviewFits
  /\ op = "report" /\ stage = "third" =>
       resolution.state = report.state /\ resolution.plan = report.plan
  /\ ResolutionFollowsReview

IncidentInv == IInv /\ Chain /\ ReadInv /\ NoteInv

LEMMA NotesLeaveTheLedger ==
  ASSUME IInv, Chain, UNCHANGED <<ledger, effect, run, history>>, noted' \in BOOLEAN
  PROVE  IInv' /\ Chain'
<1>1. IInv'
  BY DEF IInv, TypeOK, WritersOwn, FirstStarted, run, history
<1>2. Chain'
  BY DEF Chain, OwnedByTheFirst, Advance, MarkersUpTo, EffectsUpTo, run, history
<1> QED
  BY <1>1, <1>2

LEMMA RunKeepsReadings ==
  ASSUME IInv, ReadInv, [Next]_vars, UNCHANGED incidentVars
  PROVE  ReadInv'
<1>1. UNCHANGED <<seen, stage, report, effectThen>>
  BY DEF incidentVars, desk
<1>2. \A m \in Beyond : ledger[m] # None => ledger'[m] # None
  BY MarkersStay
<1>3. \A i \in Step : Started(i) \in Beyond /\ Done(i) \in Beyond
  BY MarkArithmetic
<1> QED
  BY <1>1, <1>2, <1>3 DEF ReadInv, ReportsAreOfOneMoment

(* The next marker is read. *)
LEMMA ReadingGoesOn ==
  ASSUME ReadInv, ReadMarker
  PROVE  ReadInv'
<1>1. PICK m \in Mark :
        /\ DOMAIN seen = 0 .. m - 1
        /\ seen' = [k \in 0 .. m |-> IF k = m THEN ledger[m] ELSE seen[k]]
  BY DEF ReadMarker
<1>2. UNCHANGED <<ledger, stage, report, effectThen>> /\ stage \notin {"intent", "told"}
  BY DEF ReadMarker, vars, files
<1>3. m \in Nat
  BY MarkArithmetic
<1>4. DOMAIN seen' = 0 .. m
  BY <1>1
<1>5. \A k \in 0 .. m : k # m => k \in DOMAIN seen /\ seen'[k] = seen[k]
  BY <1>1, <1>3
<1>6. seen'[m] = ledger[m]
  BY <1>1, <1>3
<1>7. ASSUME NEW k \in Beyond, k \in DOMAIN seen', seen'[k] # None PROVE ledger[k] # None
  BY <1>4, <1>5, <1>6, <1>7 DEF ReadInv
<1>8. ASSUME stage = "second", NEW i \in Step, effectThen[i] # "no", Started(i) \in DOMAIN seen'
      PROVE  seen'[Started(i)] # None
  BY <1>4, <1>5, <1>6, <1>8 DEF ReadInv
<1> QED
  BY <1>2, <1>7, <1>8 DEF ReadInv, ReportsAreOfOneMoment

(* The first reading ends: what it found done was, and its marker stays. *)
LEMMA FirstReadingEnds ==
  ASSUME IInv, Chain, ReadInv, FirstReading
  PROVE  ReadInv'
<1>1. /\ DOMAIN seen = Mark /\ report' = Verdict(seen) /\ stage' = "intent"
      /\ DOMAIN seen' = {} /\ ledger' = ledger
  BY DEF FirstReading, ReadAll, Found, Unread, vars, files
<1>2. ASSUME NEW i \in Step, SaysDone(Verdict(seen), i) PROVE ledger[Done(i)] # None
  <2>1. seen[Done(i)] # None /\ Done(i) \in Beyond
    BY <1>2, VerdictFacts, MarkArithmetic
  <2> QED
    BY <1>1, <2>1 DEF ReadInv, Beyond
<1> QED
  BY <1>1, <1>2 DEF ReadInv, ReportsAreOfOneMoment

(* The moment of a report: what the first reading found done is done, and  *)
(* what has been touched can no longer be missed.                          *)
LEMMA IntentReadAgain ==
  ASSUME IInv, Chain, ReadInv, NoteInv, ReadIntentAgain
  PROVE  ReadInv'
<1>1. /\ stage = "intent" /\ stage' = "second" /\ effectThen' = effect
      /\ UNCHANGED <<ledger, seen, report>> /\ DOMAIN seen = {}
  BY DEF ReadIntentAgain, NoteInv, vars, files
<1>2. \A i \in Step : SaysDone(report, i) => effect[i] = "yes"
  BY <1>1, ChainIsTruthful DEF ReadInv
<1>3. \A i \in Step : effect[i] # "no" => ledger[Started(i)] # None
  BY ChainIsTruthful
<1> QED
  BY <1>1, <1>2, <1>3 DEF ReadInv, ReportsAreOfOneMoment

(* The second reading meets the first: what it does not mention had not    *)
(* been touched when it began.                                             *)
LEMMA SecondReadingEnds ==
  ASSUME ReadInv, SecondReading
  PROVE  ReadInv'
<1>1. /\ DOMAIN seen = Mark /\ report = Verdict(seen) /\ stage = "second" /\ stage' = "told"
      /\ DOMAIN seen' = {} /\ UNCHANGED <<effectThen, report, ledger>>
  BY DEF SecondReading, ReadAll, Found, Unread, vars, files
<1>2. ASSUME NEW i \in Step, SaysUntouched(report, i) PROVE effectThen[i] = "no"
  <2>1. seen[Started(i)] = None
    BY <1>1, <1>2, VerdictFacts
  <2>2. Started(i) \in Mark
    BY MarkArithmetic DEF Beyond
  <2> QED
    BY <1>1, <2>1, <2>2 DEF ReadInv
<1> QED
  BY <1>1, <1>2 DEF ReadInv, ReportsAreOfOneMoment

(* Every other step of the operator leaves or forgets what was read. *)
LEMMA OtherStepsKeepReadings ==
  ASSUME ReadInv, UNCHANGED ledger, stage' \notin {"intent", "second", "told"},
         seen' = seen \/ seen' = Unread
  PROVE  ReadInv'
  BY DEF ReadInv, ReportsAreOfOneMoment, Unread

LEMMA OperatingKeepsReadings ==
  ASSUME IInv, Chain, ReadInv, NoteInv, Operating
  PROVE  ReadInv'
<1> USE DEF vars, files, notes
<1>1. CASE ReadMarker \/ FirstReading \/ ReadIntentAgain \/ SecondReading
  BY <1>1, ReadingGoesOn, FirstReadingEnds, IntentReadAgain, SecondReadingEnds
<1>2. CASE AskReport
  BY <1>2, OtherStepsKeepReadings DEF AskReport
<1>3. CASE GoOnToReview \/ GoOnToResolve \/ ReadResolution
  BY <1>3, OtherStepsKeepReadings DEF GoOnToReview, GoOnToResolve, ReadResolution, GoesOn
<1>4. CASE TellResolution \/ ThirdReading
  BY <1>4, OtherStepsKeepReadings DEF TellResolution, ThirdReading
<1>5. CASE CreateNote \/ WriteNote \/ EndOfOperation
  BY <1>5, OtherStepsKeepReadings DEF CreateNote, WriteNote, EndOfOperation
<1> QED
  BY <1>1, <1>2, <1>3, <1>4, <1>5 DEF Operating

LEMMA OperatingKeepsNotes ==
  ASSUME NoteInv, Operating
  PROVE  NoteInv'
<1> USE DEF NoteInv, ResolutionFollowsReview, ReviewFits, Note, Nothing, HalfNote, Interrupted, notes
<1>0. DOMAIN Unread = {} /\ Mark # {}
  BY MarkArithmetic DEF Unread
<1>1. CASE AskReport
  BY <1>1 DEF AskReport
<1>2. CASE ReadMarker
  BY <1>2 DEF ReadMarker
<1>3. CASE FirstReading \/ ReadIntentAgain \/ SecondReading
  BY <1>0, <1>3 DEF FirstReading, ReadIntentAgain, SecondReading, ReadAll
<1>4. CASE GoOnToReview
  BY <1>4 DEF GoOnToReview, GoesOn
<1>5. CASE GoOnToResolve
  BY <1>5 DEF GoOnToResolve, GoesOn
<1>6. CASE ReadResolution
  BY <1>6 DEF ReadResolution, GoesOn
<1>7. CASE TellResolution
  BY <1>7 DEF TellResolution
<1>8. CASE ThirdReading
  BY <1>8 DEF ThirdReading
<1>9. CASE CreateNote
  BY <1>9 DEF CreateNote, PutNote
<1>10. CASE WriteNote
  <2>1. stage = "fill" /\ op \in {"review", "resolve"} /\ op' = "idle" /\ stage' = "first"
    BY <1>10 DEF WriteNote
  <2>2. CASE op = "review"
    BY <1>0, <1>10, <2>1, <2>2 DEF WriteNote, PutNote
  <2>3. CASE op = "resolve"
    BY <1>0, <1>10, <2>1, <2>3 DEF WriteNote, PutNote
  <2> QED
    BY <2>1, <2>2, <2>3
<1>11. CASE EndOfOperation
  BY <1>0, <1>11 DEF EndOfOperation
<1> QED
  BY <1>1, <1>2, <1>3, <1>4, <1>5, <1>6, <1>7, <1>8, <1>9, <1>10, <1>11 DEF Operating

LEMMA RunsKeepNotes ==
  ASSUME NoteInv, UNCHANGED incidentVars
  PROVE  NoteInv'
  BY DEF NoteInv, ResolutionFollowsReview, ReviewFits, Note, incidentVars, notes, desk

LEMMA LedgerStep == IInv /\ Chain /\ [Next]_vars => IInv' /\ Chain'
  BY TypeStep, WritersStep, FirstStartedStep, ChainStep DEF IInv

LEMMA IncidentInvariant == IncidentSpec => []IncidentInv
<1>1. IncidentInit => IncidentInv
  <2> SUFFICES ASSUME IncidentInit PROVE IncidentInv
    OBVIOUS
  <2>1. IInv /\ Chain
    BY InitIInv, InitChain DEF IncidentInit
  <2>2. ReadInv
    BY DEF IncidentInit, ReadInv, ReportsAreOfOneMoment, Unread
  <2>3. NoteInv
    BY DEF IncidentInit, NoteInv, ResolutionFollowsReview, Nothing, Unread
  <2> QED
    BY <2>1, <2>2, <2>3 DEF IncidentInv
<1>2. IncidentInv /\ [IncidentNext]_allVars => IncidentInv'
  <2> SUFFICES ASSUME IncidentInv, [IncidentNext]_allVars PROVE IncidentInv'
    OBVIOUS
  <2>1. CASE [Next]_vars /\ UNCHANGED incidentVars
    BY <2>1, LedgerStep, RunKeepsReadings, RunsKeepNotes DEF IncidentInv
  <2>2. CASE Operating
    <3>1. UNCHANGED <<ledger, effect, run, history>> /\ noted' \in BOOLEAN
      BY <2>2 DEF Operating, AskReport, ReadMarker, FirstReading, ReadIntentAgain, SecondReading, GoOnToReview,
                  GoOnToResolve, ReadResolution, GoesOn, TellResolution, ThirdReading, CreateNote,
                  WriteNote, EndOfOperation, vars, files, IncidentInv, IInv, TypeOK
    <3> QED
      BY <2>2, <3>1, NotesLeaveTheLedger, OperatingKeepsReadings, OperatingKeepsNotes
      DEF IncidentInv
  <2> QED
    BY <2>1, <2>2 DEF IncidentNext, allVars
<1> QED
  BY <1>1, <1>2, PTL DEF IncidentSpec

(* A report whose two readings met is one the target agreed with between   *)
(* them, whatever runs went on meanwhile.                                  *)
THEOREM ReportsOfOneMoment == IncidentSpec => []ReportsAreOfOneMoment
<1>1. IncidentInv => ReportsAreOfOneMoment
  BY DEF IncidentInv, ReadInv
<1> QED
  BY <1>1, IncidentInvariant, PTL

(* A resolution stands on a review of the same attempt in the same state,  *)
(* also when operations of the operator die between any two steps.         *)
THEOREM ResolutionsStandOnReviews == IncidentSpec => []ResolutionFollowsReview
<1>1. IncidentInv => ResolutionFollowsReview
  BY DEF IncidentInv, NoteInv
<1> QED
  BY <1>1, IncidentInvariant, PTL

(* The notes of an operator leave the ledger as truthful as it is alone.   *)
THEOREM TruthfulBesideTheOperator ==
  IncidentSpec => [](OneRunTouchesTheTarget /\ OperationsInOrder /\ LedgerIsTruthful)
<1>1. IncidentInv => OneRunTouchesTheTarget /\ OperationsInOrder /\ LedgerIsTruthful
  BY ChainIsTruthful, VerdictFacts
  DEF IncidentInv, IInv, FirstStarted, OneRunTouchesTheTarget, OperationsInOrder, LedgerIsTruthful
<1> QED
  BY <1>1, IncidentInvariant, PTL

(* Neither do they make an attempt look safe to start again.               *)
THEOREM NoFreshStartBesideTheOperator == IncidentSpec => NoFreshStartAfterEffects
<1>1. IncidentInv /\ [IncidentNext]_allVars => [FreshStartRefused]_vars
  <2> SUFFICES ASSUME IncidentInv, [IncidentNext]_allVars
               PROVE  [FreshStartRefused]_vars
    OBVIOUS
  <2>1. CASE [Next]_vars
    BY <2>1, FreshStartStep DEF IncidentInv
  <2>2. CASE Operating
    <3>1. pc' = pc
      BY <2>2 DEF Operating, AskReport, ReadMarker, FirstReading, ReadIntentAgain, SecondReading, GoOnToReview,
                  GoOnToResolve, ReadResolution, GoesOn, TellResolution, ThirdReading, CreateNote,
                  WriteNote, EndOfOperation, vars, run
    <3> QED
      BY <3>1 DEF FreshStartRefused
  <2> QED
    BY <2>1, <2>2 DEF IncidentNext, allVars
<1> QED
  BY <1>1, IncidentInvariant, PTL DEF IncidentSpec, NoFreshStartAfterEffects, FreshStartRefused
=============================================================================
