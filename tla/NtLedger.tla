------------------------------ MODULE NtLedger ------------------------------
(***************************************************************************)
(* The progress ledger of the experimental NT commit                       *)
(* (nt_commit_checkpoint_experimental.py): write-once marker files INTENT, *)
(* STARTED(i), DONE(i) and COMPLETE around the operations of a plan.  Any  *)
(* number of runs may be started on the same target, together or one after *)
(* the other; each may raise or die between any two steps; and the INTENT  *)
(* file may be taken away by hand.                                         *)
(*                                                                         *)
(* The markers are numbered in the order in which a run writes them, which *)
(* is also the order in which an inspection reads them:                    *)
(*   0 INTENT, 2i+1 STARTED(i), 2i+2 DONE(i), 2N+1 COMPLETE.               *)
(***************************************************************************)
EXTENDS Naturals

CONSTANTS Run, NoRun,
          Plan,       \* digests of INTENT records
          N,          \* operations of a plan
          None,       \* no such file
          Torn        \* the file is there and its content is not complete

ASSUME StepsAssumption == N \in Nat \ {0}
ASSUME RunAssumption == NoRun \notin Run
ASSUME ContentAssumption == None \notin Plan /\ Torn \notin Plan /\ None # Torn

Intent == 0
Started(i) == 2 * i + 1
Done(i) == 2 * i + 2
Complete == 2 * N + 1

Step == 0 .. N - 1
Mark == Intent .. Complete

VARIABLES
  ledger,     \* ledger[m]: content of marker m, the digest every marker of a plan repeats
  noted,      \* REVIEW and RESOLUTION files are in the store
  effect,     \* effect[i]: what operation i did to the target, "no", "partly" or "yes"
  pc,
  at,         \* at[r]: the marker run r writes next
  plan,       \* plan[r]: the plan of run r
  owner,      \* the run whose file marker m is
  who         \* history: the runs that began operation i

files == <<ledger, noted, effect>>
run == <<pc, at, plan>>
history == <<owner, who>>
vars == <<files, run, history>>

Init ==
  /\ ledger = [m \in Mark |-> None]
  /\ noted = FALSE
  /\ effect = [i \in Step |-> "no"]
  /\ pc = [r \in Run |-> "new"]
  /\ at = [r \in Run |-> Intent]
  /\ plan \in [Run -> Plan]
  /\ owner = [m \in Mark |-> NoRun]
  /\ who = [i \in Step |-> {}]

Go(r, from, to) == pc[r] = from /\ pc' = [pc EXCEPT ![r] = to]

-----------------------------------------------------------------------------
(* A run *)

OrphansOfTheFirst == ledger[Intent] = None /\ (noted \/ ledger[Done(0)] # None)
(* Markers or records of an attempt without its INTENT. *)
Orphans == ledger[Intent] = None /\ (noted \/ \E m \in Mark : ledger[m] # None)

Scan(r) ==
  /\ Go(r, "new", IF Orphans THEN "over" ELSE "create")
  /\ UNCHANGED <<files, at, plan, history>>

CreateMarkerAnyway(r) ==
  /\ Go(r, "create", "write")
  /\ ledger' = [ledger EXCEPT ![at[r]] = Torn]
  /\ owner' = [owner EXCEPT ![at[r]] = r]
  /\ UNCHANGED <<noted, effect, at, plan, who>>

(* NtCreateFile(FILE_CREATE) *)
CreateMarker(r) ==
  /\ Go(r, "create", "write")
  /\ ledger[at[r]] = None
  /\ ledger' = [ledger EXCEPT ![at[r]] = Torn]
  /\ owner' = [owner EXCEPT ![at[r]] = r]
  /\ UNCHANGED <<noted, effect, at, plan, who>>

MarkerExists(r) ==
  /\ Go(r, "create", "over")
  /\ ledger[at[r]] # None
  /\ UNCHANGED <<files, at, plan, history>>

AfterMarkerDoneFirst(m) ==
  IF m = Complete THEN "over" ELSE IF m \in {Done(i) : i \in Step} THEN "apply" ELSE "create"

(* An operation follows its STARTED marker. *)
AfterMarker(m) ==
  IF m = Complete THEN "over" ELSE IF m \in {Started(i) : i \in Step} THEN "apply" ELSE "create"

(* Written, flushed, read back and compared.  When INTENT was taken away   *)
(* in the meantime the write goes to the file that is no longer there, and *)
(* what is read back is what another run put in its place.                 *)
WriteMarker(r) ==
  /\ Go(r, "write", AfterMarker(at[r]))
  /\ ledger' = IF owner[at[r]] = r THEN [ledger EXCEPT ![at[r]] = plan[r]] ELSE ledger
  /\ ledger'[at[r]] = plan[r]
  /\ at' = IF at[r] = Complete THEN at ELSE [at EXCEPT ![r] = @ + 1]
  /\ UNCHANGED <<noted, effect, plan, history>>

(* The operation after the marker that was written last: several NT calls, *)
(* any of which may fail.                                                  *)
Current(r) == (at[r] - 2) \div 2

BeginOperationReversed(r) ==
  /\ Go(r, "apply", "applying")
  /\ effect' = [effect EXCEPT ![N - 1 - Current(r)] = "partly"]
  /\ who' = [who EXCEPT ![N - 1 - Current(r)] = @ \cup {r}]
  /\ UNCHANGED <<ledger, noted, at, plan, owner>>

BeginOperation(r) ==
  /\ Go(r, "apply", "applying")
  /\ effect' = [effect EXCEPT ![Current(r)] = "partly"]
  /\ who' = [who EXCEPT ![Current(r)] = @ \cup {r}]
  /\ UNCHANGED <<ledger, noted, at, plan, owner>>

EndOperation(r) ==
  /\ Go(r, "applying", "create")
  /\ effect' = [effect EXCEPT ![Current(r)] = "yes"]
  /\ UNCHANGED <<ledger, noted, at, plan, history>>

(* A call raises or the process dies; nothing is cleaned up or retried. *)
Stop(r) ==
  /\ pc[r] \notin {"new", "over"}
  /\ pc' = [pc EXCEPT ![r] = "over"]
  /\ UNCHANGED <<files, at, plan, history>>

(* Somebody deletes INTENT, which is shared for deletion. *)
RemoveIntent ==
  /\ ledger[Intent] # None
  /\ ledger' = [ledger EXCEPT ![Intent] = None]
  /\ owner' = [owner EXCEPT ![Intent] = NoRun]
  /\ UNCHANGED <<noted, effect, run, who>>

Running(r) ==
  \/ Scan(r) \/ CreateMarker(r) \/ MarkerExists(r) \/ WriteMarker(r)
  \/ BeginOperation(r) \/ EndOperation(r) \/ Stop(r)

Next == RemoveIntent \/ \E r \in Run : Running(r)

Spec == Init /\ [][Next]_vars
-----------------------------------------------------------------------------
(* What an inspection concludes from the markers it read *)

Present(obs) == {m \in Mark \ {Intent, Complete} : obs[m] # None}

(* The markers between INTENT and COMPLETE are there up to some point. *)
Reached(obs, j) == Present(obs) = Started(0) .. j

(* INTENT is complete, of this root, and has the digest of its own content.*)
IntentParses(obs) == obs[Intent] # Torn

IsInvalid(obs) ==
  \/ ~IntentParses(obs)
  \/ \E m \in Mark : obs[m] \notin {None, obs[Intent]}
  \/ ~\E j \in Intent .. 2 * N : Reached(obs, j)
  \/ obs[Complete] # None /\ ~Reached(obs, 2 * N)

(* state, the number of markers reached and the digest; "invalid" when the *)
(* inspection raises.                                                      *)
Verdict(obs) ==
  IF obs[Intent] = None THEN [state |-> "absent", upto |-> 0, plan |-> None]
  ELSE IF IsInvalid(obs) THEN [state |-> "invalid", upto |-> 0, plan |-> None]
  ELSE LET j == CHOOSE j \in Intent .. 2 * N : Reached(obs, j) IN
       [state |-> IF obs[Complete] # None THEN "complete"
                  ELSE IF j % 2 = 1 THEN "uncertain" ELSE "incomplete",
        upto  |-> j,
        plan  |-> obs[Intent]]

(* What a verdict says of the target. *)
SaysDone(v, i) == Done(i) <= v.upto
SaysUntouched(v, i) == v.state \in {"incomplete", "uncertain"} /\ Started(i) > v.upto

-----------------------------------------------------------------------------
(* Properties *)

TypeOK ==
  /\ ledger \in [Mark -> Plan \cup {None, Torn}]
  /\ noted \in BOOLEAN
  /\ effect \in [Step -> {"no", "partly", "yes"}]
  /\ pc \in [Run -> {"new", "create", "write", "apply", "applying", "over"}]
  /\ at \in [Run -> Mark]
  /\ plan \in [Run -> Plan]
  /\ owner \in [Mark -> Run \cup {NoRun}]
  /\ who \in [Step -> SUBSET Run]

(* "No automatic retry": whatever runs are started, crash or meet, and     *)
(* also when INTENT was taken away, all operations that ever began were    *)
(* begun by one and the same run.                                          *)
OneRunTouchesTheTarget ==
  \A i, j \in Step : \A r \in who[i], s \in who[j] : r = s

(* Operations are applied in the order of the plan, each one only when all *)
(* before it are complete.                                                 *)
OperationsInOrder ==
  \A i \in Step : effect[i] # "no" => \A j \in 0 .. i - 1 : effect[j] = "yes"

(* An inspection that does not raise is right about the target: operations *)
(* it counts as completed were applied, and of the others only the one it  *)
(* calls uncertain may have been.                                          *)
LedgerIsTruthful ==
  \A i \in Step :
    /\ SaysDone(Verdict(ledger), i) => effect[i] = "yes"
    /\ SaysUntouched(Verdict(ledger), i) => effect[i] = "no"

(* A missing INTENT never makes an attempt that touched the target look    *)
(* safe to start again: a run that scans the store after an operation      *)
(* began, with INTENT gone, is refused.                                    *)
NoFreshStartAfterEffects ==
  [][\A r \in Run :
       /\ pc[r] = "new" /\ pc'[r] = "create"
       /\ \E i \in Step : effect[i] # "no"
       => ledger[Intent] # None]_vars
=============================================================================
