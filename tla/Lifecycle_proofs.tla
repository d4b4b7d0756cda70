-------------------------- MODULE Lifecycle_proofs --------------------------
(***************************************************************************)
(* For any set of processes: a usable session owns the overlay, and only a *)
(* recorded discard takes anything out of it.  The lock reduces it to one  *)
(* process: whoever is past it is the only one, so that what it knows of   *)
(* the files stays true until it changes them itself.                      *)
(***************************************************************************)
EXTENDS Lifecycle, TLAPS

Outside == {"none", "locking"}
Freezing == {"walking", "made", "listed"}
Thawing == {"committing", "marking"}
Dropping == {"removing", "unmarking"}

(* What a process past the lock knows, by the point it has reached. *)
Knows(p) ==
  /\ lock = p
  /\ pc[p] \in {"opening", "loading"} => ~frozen[p] /\ ~discarding[p]
  /\ recovering[p] => pc[p] \in Dropping /\ ~frozen[p] /\ ~discarding[p]
  /\ pc[p] \in Freezing => ~frozen[p]
  /\ pc[p] \in Thawing => frozen[p] /\ ~discarding[p]
  /\ pc[p] \in Dropping => marker /\ (recovering[p] \/ discarding[p])
  /\ discarding[p] => marker /\ frozen[p]
  /\ ~marker \/ discarding[p] \/ recovering[p] \/ pc[p] = "opening"
  /\ frozen[p] /\ ~discarding[p] => overlay = "frozen"
  /\ ~frozen[p] /\ pc[p] \in Freezing \cup {"open"} => ~changed
  /\ pc[p] = "listed" => overlay = "frozen"
  /\ pc[p] = "unmarking" => overlay = "absent"

Held(p) ==
  IF pc[p] \in Outside THEN ~frozen[p] /\ ~discarding[p] /\ ~recovering[p] ELSE Knows(p)

AbsentIsEmpty == overlay = "absent" => ~changed

IInv == TypeOK /\ AbsentIsEmpty /\ \A p \in Proc : Held(p)

LEMMA InitIInv == Init => IInv
  BY DEF Init, IInv, TypeOK, AbsentIsEmpty, Held, Outside

(* What p does past the lock, or without touching the files before it,     *)
(* takes nothing from any other process.                                   *)
LEMMA OthersKeep ==
  ASSUME IInv, NEW p \in Proc, NEW q \in Proc, q # p,
         pc'[q] = pc[q], frozen'[q] = frozen[q],
         discarding'[q] = discarding[q], recovering'[q] = recovering[q],
         \/ pc[p] \notin Outside
         \/ UNCHANGED files /\ (lock' = lock \/ lock \in {p, NoProc})
  PROVE  Held(q)'
<1>1. CASE pc[q] \in Outside
  BY <1>1 DEF IInv, Held
<1>2. CASE pc[q] \notin Outside
  <2>1. Knows(q)
    BY <1>2 DEF IInv, Held
  <2>2. lock = q /\ lock # NoProc
    BY <2>1, ProcAssumption DEF Knows
  <2>3. pc[p] \in Outside
    BY <2>2 DEF IInv, Held, Knows
  <2>4. UNCHANGED files /\ lock' = lock
    BY <2>2, <2>3
  <2> QED
    BY <1>2, <2>1, <2>4 DEF Held, Knows, files
<1> QED
  BY <1>1, <1>2

(* Who leaves, leaves nothing behind in memory. *)
LEMMA GoneStep ==
  ASSUME IInv, NEW p \in Proc, Gone(p), UNCHANGED files
  PROVE  IInv'
<1>1. TypeOK' /\ AbsentIsEmpty'
  BY DEF IInv, TypeOK, AbsentIsEmpty, Gone, files
<1>2. Held(p)'
  BY DEF IInv, TypeOK, Gone, Held, Outside
<1>3. ASSUME NEW q \in Proc, q # p PROVE Held(q)'
  <2>1. /\ pc'[q] = pc[q] /\ frozen'[q] = frozen[q]
        /\ discarding'[q] = discarding[q] /\ recovering'[q] = recovering[q]
        /\ lock' = lock \/ lock = p
    BY <1>3 DEF Gone, IInv, TypeOK
  <2> QED
    BY <1>3, <2>1, OthersKeep
<1> QED
  BY <1>1, <1>2, <1>3 DEF IInv

(* Steps of one process that stays. *)
Staying(p) ==
  \/ Open(p) \/ Acquire(p) \/ CheckMarker(p) \/ Load(p)
  \/ Freeze(p) \/ MakeOverlay(p) \/ WriteManifest(p) \/ EmptyJournal(p)
  \/ Change(p) \/ RetryThaw(p) \/ (\E commit \in BOOLEAN : Thaw(p, commit))
  \/ CommitSome(p) \/ CommitAll(p) \/ Mark(p)
  \/ RemoveJournal(p) \/ RemoveManifest(p) \/ RemoveOverlay(p) \/ NothingToRemove(p)
  \/ Unmark(p) \/ OperationFails(p)

Leaving(p) == LockTimeout(p) \/ LoadRefused(p) \/ OpenFails(p) \/ Close(p) \/ Crash(p)

LEMMA NextSplits == Next <=> \E p \in Proc : Staying(p) \/ Leaving(p)
  BY DEF Next, Operating, Using, Removing, Staying, Leaving

(* Each step keeps the types, and does not touch another process. *)
LEMMA StayingTypes ==
  ASSUME IInv, NEW p \in Proc, Staying(p)
  PROVE  /\ TypeOK'
         /\ \A q \in Proc \ {p} :
              /\ pc'[q] = pc[q] /\ frozen'[q] = frozen[q]
              /\ discarding'[q] = discarding[q] /\ recovering'[q] = recovering[q]
         /\ \/ pc[p] \notin Outside
            \/ UNCHANGED files /\ (lock' = lock \/ lock \in {p, NoProc})
<1> USE DEF IInv, TypeOK, Go, files, flags, Outside
<1>1. CASE Open(p) \/ Acquire(p) \/ CheckMarker(p) \/ Load(p)
  BY <1>1 DEF Open, Acquire, CheckMarker, Load
<1>2. CASE Freeze(p) \/ MakeOverlay(p) \/ WriteManifest(p) \/ EmptyJournal(p)
  BY <1>2 DEF Freeze, MakeOverlay, WriteManifest, EmptyJournal
<1>3. CASE Change(p) \/ RetryThaw(p) \/ \E commit \in BOOLEAN : Thaw(p, commit)
  BY <1>3 DEF Change, RetryThaw, Thaw
<1>4. CASE CommitSome(p) \/ CommitAll(p) \/ Mark(p)
  BY <1>4 DEF CommitSome, CommitAll, Mark
<1>5. CASE RemoveJournal(p) \/ RemoveManifest(p) \/ RemoveOverlay(p) \/ NothingToRemove(p)
  BY <1>5 DEF RemoveJournal, RemoveManifest, RemoveOverlay, NothingToRemove
<1>6. CASE Unmark(p) \/ OperationFails(p)
  BY <1>6 DEF Unmark, OperationFails
<1> QED
  BY <1>1, <1>2, <1>3, <1>4, <1>5, <1>6 DEF Staying

(* What the process itself knows after each of its steps. *)
LEMMA StayingKnows ==
  ASSUME IInv, NEW p \in Proc, Staying(p)
  PROVE  Held(p)' /\ AbsentIsEmpty'
<1> USE DEF IInv, TypeOK, AbsentIsEmpty, Held, Knows, Go, files, flags,
            Outside, Freezing, Thawing, Dropping
<1>1. CASE Open(p)
  BY <1>1 DEF Open
<1>2. CASE Acquire(p)
  BY <1>2 DEF Acquire
<1>3. CASE CheckMarker(p)
  BY <1>3 DEF CheckMarker
<1>4. CASE Load(p)
  BY <1>4 DEF Load
<1>5. CASE Freeze(p)
  BY <1>5 DEF Freeze
<1>6. CASE MakeOverlay(p)
  BY <1>6 DEF MakeOverlay
<1>7. CASE WriteManifest(p)
  BY <1>7 DEF WriteManifest
<1>8. CASE EmptyJournal(p)
  BY <1>8 DEF EmptyJournal
<1>9. CASE Change(p)
  BY <1>9 DEF Change
<1>10. CASE RetryThaw(p)
  BY <1>10 DEF RetryThaw
<1>11. ASSUME NEW commit \in BOOLEAN, Thaw(p, commit) PROVE Held(p)' /\ AbsentIsEmpty'
  BY <1>11 DEF Thaw
<1>12. CASE CommitSome(p)
  BY <1>12 DEF CommitSome
<1>13. CASE CommitAll(p)
  BY <1>13 DEF CommitAll
<1>14. CASE Mark(p)
  BY <1>14 DEF Mark
<1>15. CASE RemoveJournal(p)
  BY <1>15 DEF RemoveJournal
<1>16. CASE RemoveManifest(p)
  BY <1>16 DEF RemoveManifest
<1>17. CASE RemoveOverlay(p)
  BY <1>17 DEF RemoveOverlay
<1>18. CASE NothingToRemove(p)
  BY <1>18 DEF NothingToRemove
<1>19. CASE Unmark(p)
  BY <1>19 DEF Unmark
<1>20. CASE OperationFails(p)
  BY <1>20 DEF OperationFails
<1> QED
  BY <1>1, <1>2, <1>3, <1>4, <1>5, <1>6, <1>7, <1>8, <1>9, <1>10, <1>11, <1>12,
     <1>13, <1>14, <1>15, <1>16, <1>17, <1>18, <1>19, <1>20 DEF Staying
LEMMA IInvStep == IInv /\ [Next]_vars => IInv'
<1> SUFFICES ASSUME IInv, [Next]_vars PROVE IInv'
  OBVIOUS
<1>1. ASSUME NEW p \in Proc, Staying(p) PROVE IInv'
  <2>1. ASSUME NEW q \in Proc, q # p PROVE Held(q)'
    BY <1>1, <2>1, StayingTypes, OthersKeep
  <2> QED
    BY <1>1, <2>1, StayingTypes, StayingKnows DEF IInv
<1>2. ASSUME NEW p \in Proc, Leaving(p) PROVE IInv'
  BY <1>2, GoneStep DEF Leaving, LockTimeout, LoadRefused, OpenFails, Close, Crash
<1>3. CASE UNCHANGED vars
  BY <1>3 DEF vars, files, flags, IInv, TypeOK, AbsentIsEmpty, Held, Knows
<1> QED
  BY <1>1, <1>2, <1>3, NextSplits

(* The inductive invariant holds always. *)
THEOREM LifecycleInvariant == Spec => []IInv
  BY InitIInv, IInvStep, PTL DEF Spec

(* Every variable keeps to its values. *)
THEOREM TypeCorrect == Spec => []TypeOK
<1>1. IInv => TypeOK
  BY DEF IInv
<1> QED
  BY LifecycleInvariant, <1>1, PTL

(* A session that accepts operations has a complete overlay of its own     *)
(* that nobody is discarding.                                              *)
THEOREM SessionsOwnTheOverlay == Spec => []UsableSessionsOwnTheOverlay
<1>1. IInv => UsableSessionsOwnTheOverlay
  <2> SUFFICES ASSUME IInv, NEW p \in Proc, Usable(p)
               PROVE  lock = p /\ overlay = "frozen" /\ ~marker
    BY DEF UsableSessionsOwnTheOverlay
  <2>1. Knows(p)
    BY DEF IInv, Held, Outside, Usable
  <2> QED
    BY <2>1 DEF Knows, Usable, Dropping
<1> QED
  BY LifecycleInvariant, <1>1, PTL

(* The files of an overlay and the operations in it go away only once a    *)
(* thaw recorded the discard.                                              *)
THEOREM NothingLostWithoutADiscard == Spec => OnlyADiscardLosesChanges
<1> DEFINE Loses == \/ overlay = "frozen" /\ overlay' # "frozen"
                    \/ changed /\ ~changed'
<1>1. IInv /\ [Next]_vars => [Loses => marker]_vars
  <2> SUFFICES ASSUME IInv, NEW p \in Proc, Staying(p) \/ Leaving(p), Loses
               PROVE  marker
    BY NextSplits
  <2> USE DEF IInv, TypeOK, Go, files
  <2>1. CASE MakeOverlay(p) \/ WriteManifest(p) \/ Change(p)
    BY <2>1 DEF MakeOverlay, WriteManifest, Change
  <2>2. CASE EmptyJournal(p)
    BY <2>2 DEF EmptyJournal, Held, Knows, Outside, Freezing
  <2>3. CASE RemoveJournal(p) \/ RemoveManifest(p) \/ RemoveOverlay(p)
    BY <2>3 DEF RemoveJournal, RemoveManifest, RemoveOverlay, Held, Knows, Outside, Dropping
  <2>4. CASE Leaving(p)
    BY <2>4 DEF Leaving, LockTimeout, LoadRefused, OpenFails, Close, Crash
  <2>5. CASE UNCHANGED <<overlay, changed>>
    BY <2>5
  <2>6. \/ MakeOverlay(p) \/ WriteManifest(p) \/ Change(p) \/ EmptyJournal(p)
        \/ RemoveJournal(p) \/ RemoveManifest(p) \/ RemoveOverlay(p)
        \/ Leaving(p)
        \/ UNCHANGED <<overlay, changed>>
    BY DEF Staying, Open, Acquire, CheckMarker, Load, Freeze, RetryThaw, Thaw,
           CommitSome, CommitAll, Mark, NothingToRemove, Unmark, OperationFails
  <2> QED
    BY <2>1, <2>2, <2>3, <2>4, <2>5, <2>6
<1> QED
  BY LifecycleInvariant, <1>1, PTL DEF Spec, OnlyADiscardLosesChanges
=============================================================================
