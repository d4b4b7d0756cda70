-------------------------- MODULE BootEnforcement --------------------------
(***************************************************************************)
(* The service that enforces the frozen state at every start               *)
(* (packaging/linux/deepfreezerd.py, packaging/windows/                    *)
(* deepfreezer_service.py) and publishes what it achieved                  *)
(* (enforcement_health.py).  Each target has a life cycle of its own, of   *)
(* which this module keeps what a whole open, freeze or thaw leaves behind *)
(* (Lifecycle has the steps inside).  The service may die anywhere and is  *)
(* started again, with a process id that may have been used before, or is  *)
(* started a second time by hand while it runs.                            *)
(***************************************************************************)
EXTENDS Naturals, FiniteSets

CONSTANTS Target,
          Pid,        \* processes of the service are told apart by their ids
          Starts      \* bound: starts of the service

ASSUME StartsAssumption == Starts \in Nat

VARIABLES
  overlay,    \* overlay[t]: "absent", "frozen", "discarding" (a thaw was cut short)
              \* or "bare" (no manifest: every open refuses it)
  oldest,     \* history: the start in which the oldest change in the overlay was made
  status,     \* status.json: the start it reports and its healthy targets
  temps,      \* process ids whose .deepfreezer-status-<pid>.tmp exists
  starts,     \* history: starts of the service so far
  born,       \* history: the start that made the process
  pc,
  todo,       \* targets of the configuration still to be enforced by the process
  good        \* targets that were

files == <<overlay, oldest>>
service == <<starts, born, pc, todo, good>>
vars == <<files, status, temps, service>>

NoChange == 0
NoStatus == [of |-> 0, good |-> {}]

Init ==
  /\ overlay \in [Target -> {"absent", "frozen"}]
  /\ oldest = [t \in Target |-> NoChange]
  /\ status = NoStatus
  /\ temps = {}
  /\ starts = 0 /\ born = [p \in Pid |-> 0]
  /\ pc = [p \in Pid |-> "down"]
  /\ todo = [p \in Pid |-> {}] /\ good = [p \in Pid |-> {}]

-----------------------------------------------------------------------------
(* One target *)

Leave(t, s, o) ==
  /\ overlay' = [overlay EXCEPT ![t] = s]
  /\ oldest' = [oldest EXCEPT ![t] = o]

(* What a discard and a freeze that raise somewhere can leave; the lock    *)
(* may be held by another process, and then nothing changes.               *)
Failing(s) ==
  IF s = "bare" THEN {"bare"}
  ELSE IF s = "absent" THEN {"absent", "bare", "frozen"}
  ELSE {"frozen", "discarding", "absent", "bare"}

-----------------------------------------------------------------------------
(* A start of the service *)

Goes(p, from, to) == pc[p] = from /\ pc' = [pc EXCEPT ![p] = to]

Start(p) ==
  /\ Goes(p, "down", "enforcing")
  /\ starts < Starts
  /\ starts' = starts + 1 /\ born' = [born EXCEPT ![p] = starts']
  /\ todo' = [todo EXCEPT ![p] = Target] /\ good' = [good EXCEPT ![p] = {}]
  /\ UNCHANGED <<files, status, temps>>

(* The configuration cannot be read: an empty report is published. *)
NoConfiguration(p) ==
  /\ pc[p] = "enforcing" /\ todo[p] = Target
  /\ todo' = [todo EXCEPT ![p] = {}]
  /\ UNCHANGED <<files, status, temps, starts, born, pc, good>>

Takes(p, t) ==
  /\ pc[p] = "enforcing" /\ t \in todo[p]
  /\ todo' = [todo EXCEPT ![p] = @ \ {t}]

EnforceKept(p, t) ==
  /\ Takes(p, t)
  /\ overlay[t] # "bare"
  /\ Leave(t, "frozen", oldest[t])
  /\ good' = [good EXCEPT ![p] = @ \cup {t}]
  /\ UNCHANGED <<status, temps, starts, born, pc>>

(* Opened, an older session discarded, frozen and hardened. *)
Enforce(p, t) ==
  /\ Takes(p, t)
  /\ overlay[t] # "bare"
  /\ Leave(t, "frozen", NoChange)
  /\ good' = [good EXCEPT ![p] = @ \cup {t}]
  /\ UNCHANGED <<status, temps, starts, born, pc>>

EnforceFails(p, t) ==
  /\ Takes(p, t)
  /\ \E s \in Failing(overlay[t]), o \in {NoChange, oldest[t]} :
       /\ s # "frozen" => o = NoChange
       /\ Leave(t, s, o)
  /\ UNCHANGED <<status, temps, starts, born, pc, good>>

EndCycle(p) ==
  /\ todo[p] = {}
  /\ Goes(p, "enforcing", "publishing")
  /\ UNCHANGED <<files, status, temps, starts, born, todo, good>>

(* O_EXCL *)
CreateTemp(p) ==
  /\ p \notin temps
  /\ temps' = temps \cup {p}
  /\ Goes(p, "publishing", "replacing")
  /\ UNCHANGED <<files, status, starts, born, todo, good>>

ReplaceStatus(p) ==
  /\ Goes(p, "replacing", "serving")
  /\ status' = [of |-> born[p], good |-> good[p]]
  /\ temps' = temps \ {p}
  /\ UNCHANGED <<files, starts, born, todo, good>>

NoReportButRetry(p) ==
  /\ Goes(p, "replacing", "publishing")
  /\ temps' = temps \ {p}
  /\ UNCHANGED <<files, status, starts, born, todo, good>>

(* The temporary file exists or cannot be made, or it cannot be filled,    *)
(* protected or renamed and is taken away; the service serves all the same *)
NoReport(p) ==
  /\ \/ Goes(p, "publishing", "serving") /\ UNCHANGED temps
     \/ Goes(p, "replacing", "serving") /\ temps' = temps \ {p}
  /\ UNCHANGED <<files, status, starts, born, todo, good>>

Die(p) ==
  /\ pc[p] # "down"
  /\ pc' = [pc EXCEPT ![p] = "down"]
  /\ todo' = [todo EXCEPT ![p] = {}] /\ good' = [good EXCEPT ![p] = {}]
  /\ UNCHANGED <<files, status, temps, starts, born>>

-----------------------------------------------------------------------------
(* Broker and command line; every open finishes a discard that was begun.  *)

Change(t) ==
  /\ starts > 0 /\ overlay[t] = "frozen"
  /\ Leave(t, "frozen", IF oldest[t] = NoChange THEN starts ELSE oldest[t])
  /\ UNCHANGED <<status, temps, service>>

Freeze(t) ==
  /\ overlay[t] \in {"absent", "discarding"}
  /\ \E s \in {"frozen", "absent", "bare"} : Leave(t, s, NoChange)
  /\ UNCHANGED <<status, temps, service>>

Thaw(t) ==
  /\ overlay[t] = "frozen"
  /\ \E s \in {"absent", "discarding"} : Leave(t, s, NoChange)
  /\ UNCHANGED <<status, temps, service>>

Recover(t) ==
  /\ overlay[t] = "discarding"
  /\ Leave(t, "absent", NoChange)
  /\ UNCHANGED <<status, temps, service>>

Enforcing(p) ==
  \/ NoConfiguration(p) \/ EndCycle(p) \/ CreateTemp(p) \/ ReplaceStatus(p) \/ NoReport(p)
  \/ \E t \in Target : Enforce(p, t) \/ EnforceFails(p, t)

Using == \E t \in Target : Change(t) \/ Freeze(t) \/ Thaw(t) \/ Recover(t)

Next == Using \/ \E p \in Pid : Start(p) \/ Enforcing(p) \/ Die(p)

(* A process of the service goes on with what it is doing. *)
Spec == Init /\ [][Next]_vars /\ \A p \in Pid : WF_vars(Enforcing(p))
-----------------------------------------------------------------------------
(* Properties *)

TypeOK ==
  /\ overlay \in [Target -> {"absent", "frozen", "discarding", "bare"}]
  /\ oldest \in [Target -> 0 .. Starts]
  /\ status \in [of : 0 .. Starts, good : SUBSET Target]
  /\ temps \in SUBSET Pid
  /\ starts \in 0 .. Starts
  /\ born \in [Pid -> 0 .. starts]
  /\ pc \in [Pid -> {"down", "enforcing", "publishing", "replacing", "serving"}]
  /\ todo \in [Pid -> SUBSET Target]
  /\ good \in [Pid -> SUBSET Target]

(* The cycle "changes in the session, frozen again at the next start":     *)
(* what a target holds that the status file calls healthy was changed in   *)
(* the start it reports or later, whatever failed, died, ran beside it or  *)
(* was done by hand before and since.                                      *)
NothingOlderSurvives ==
  \A t \in status.good : oldest[t] # NoChange => oldest[t] >= status.of
=============================================================================
