----------------------- MODULE BootEnforcement_proofs -----------------------
(***************************************************************************)
(* For any targets, process ids and number of starts: what a target holds  *)
(* that the status file calls healthy was changed in the start it reports, *)
(* or later, whichever processes enforce beside each other; and a process  *)
(* that serves keeps its socket or pipe but in two races it is known for.  *)
(***************************************************************************)
EXTENDS ServiceSocket, TLAPS

Oldest(t, start) == oldest[t] # NoChange => oldest[t] >= start

(* What a process enforced holds only changes made since it was started.   *)
GoodHoldsOnlyNew == \A p \in Pid : \A t \in good[p] : Oldest(t, born[p])

IInv == TypeOK /\ status.of <= starts /\ GoodHoldsOnlyNew /\ NothingOlderSurvives

LEMMA InitIInv == Init => IInv
  BY StartsAssumption
  DEF Init, IInv, TypeOK, Oldest, GoodHoldsOnlyNew, NothingOlderSurvives, NoStatus, NoChange

(* A change of one overlay that brings in no change older than the latest  *)
(* start does not disturb what the processes and status.json say.          *)
LEMMA LeaveStep ==
  ASSUME IInv, NEW t \in Target, NEW s \in {"absent", "frozen", "discarding", "bare"},
         NEW o, o \in {NoChange, oldest[t], starts}, Leave(t, s, o),
         UNCHANGED <<status, starts, born>>
  PROVE  /\ overlay' \in [Target -> {"absent", "frozen", "discarding", "bare"}]
         /\ oldest' \in [Target -> 0 .. Starts]
         /\ \A u \in Target, b \in 0 .. starts : Oldest(u, b) => Oldest(u, b)'
         /\ NothingOlderSurvives'
<1> USE DEF IInv, TypeOK, NoChange
<1>1. o \in 0 .. Starts
  BY StartsAssumption
<1>2. \A u \in Target : oldest'[u] = IF u = t THEN o ELSE oldest[u]
  BY DEF Leave
<1>3. ASSUME NEW u \in Target, NEW b \in 0 .. starts, Oldest(u, b)
      PROVE  Oldest(u, b)'
  BY <1>1, <1>2, <1>3 DEF Oldest
<1>4. NothingOlderSurvives'
  BY <1>1, <1>2 DEF NothingOlderSurvives
<1>5. overlay' \in [Target -> {"absent", "frozen", "discarding", "bare"}]
      /\ oldest' \in [Target -> 0 .. Starts]
  BY <1>1 DEF Leave
<1> QED
  BY <1>3, <1>4, <1>5

(* What happens to the overlays outside of the enforcement. *)
LEMMA UsingStep == IInv /\ Using => IInv'
<1> SUFFICES ASSUME IInv, NEW t \in Target,
                    Change(t) \/ Freeze(t) \/ Thaw(t) \/ Recover(t)
             PROVE  IInv'
  BY DEF Using
<1>1. PICK s \in {"absent", "frozen", "discarding", "bare"}, o \in {NoChange, oldest[t], starts} :
        Leave(t, s, o)
  <2>1. CASE Change(t)
    BY <2>1 DEF Change
  <2>2. CASE Freeze(t)
    BY <2>2 DEF Freeze
  <2>3. CASE Thaw(t)
    BY <2>3 DEF Thaw
  <2>4. CASE Recover(t)
    BY <2>4 DEF Recover
  <2> QED
    BY <2>1, <2>2, <2>3, <2>4
<1>2. UNCHANGED <<status, temps, starts, born, pc, todo, good>>
  BY DEF Change, Freeze, Thaw, Recover, service
<1>3. /\ overlay' \in [Target -> {"absent", "frozen", "discarding", "bare"}]
      /\ oldest' \in [Target -> 0 .. Starts]
      /\ \A u \in Target, b \in 0 .. starts : Oldest(u, b) => Oldest(u, b)'
      /\ NothingOlderSurvives'
  BY <1>1, <1>2, LeaveStep
<1>4. TypeOK'
  BY <1>2, <1>3 DEF IInv, TypeOK
<1>5. GoodHoldsOnlyNew'
  BY <1>2, <1>3 DEF IInv, TypeOK, GoodHoldsOnlyNew, Oldest
<1> QED
  BY <1>2, <1>3, <1>4, <1>5 DEF IInv

(* The steps of the service. *)
LEMMA EnforcingStep ==
  ASSUME IInv, NEW p \in Pid, Enforcing(p)
  PROVE  IInv'
<1> USE DEF IInv, TypeOK
<1>1. CASE NoConfiguration(p) \/ EndCycle(p) \/ CreateTemp(p) \/ NoReport(p)
  BY <1>1 DEF NoConfiguration, EndCycle, CreateTemp, NoReport, Goes, files, Oldest,
              GoodHoldsOnlyNew, NothingOlderSurvives
<1>2. CASE ReplaceStatus(p)
  <2>1. /\ UNCHANGED <<overlay, oldest, starts, born, todo, good>>
        /\ status' = [of |-> born[p], good |-> good[p]]
        /\ temps' = temps \ {p} /\ pc' = [pc EXCEPT ![p] = "serving"]
    BY <1>2 DEF ReplaceStatus, Goes, files
  <2>2. TypeOK'
    BY <2>1, StartsAssumption
  <2>3. NothingOlderSurvives'
    BY <2>1 DEF GoodHoldsOnlyNew, NothingOlderSurvives, Oldest
  <2>4. GoodHoldsOnlyNew'
    BY <2>1 DEF GoodHoldsOnlyNew, Oldest
  <2> QED
    BY <2>1, <2>2, <2>3, <2>4
<1>3. ASSUME NEW t \in Target, Enforce(p, t) PROVE IInv'
  <2>1. /\ Leave(t, "frozen", NoChange) /\ UNCHANGED <<status, temps, starts, born, pc>>
        /\ todo' = [todo EXCEPT ![p] = @ \ {t}]
        /\ good' = [good EXCEPT ![p] = @ \cup {t}]
    BY <1>3 DEF Enforce, Takes
  <2>2. /\ overlay' \in [Target -> {"absent", "frozen", "discarding", "bare"}]
        /\ oldest' \in [Target -> 0 .. Starts]
        /\ \A u \in Target, b \in 0 .. starts : Oldest(u, b) => Oldest(u, b)'
        /\ NothingOlderSurvives'
    BY <2>1, LeaveStep
  <2>3. oldest'[t] = NoChange
    BY <2>1 DEF Leave
  <2>4. GoodHoldsOnlyNew'
    BY <2>1, <2>2, <2>3 DEF GoodHoldsOnlyNew, Oldest
  <2>5. TypeOK'
    BY <2>1, <2>2
  <2> QED
    BY <2>1, <2>2, <2>4, <2>5
<1>4. ASSUME NEW t \in Target, EnforceFails(p, t) PROVE IInv'
  <2>1. PICK s \in Failing(overlay[t]), o \in {NoChange, oldest[t]} : Leave(t, s, o)
    BY <1>4 DEF EnforceFails
  <2>2. s \in {"absent", "frozen", "discarding", "bare"}
    BY DEF Failing
  <2>3. UNCHANGED <<status, temps, starts, born, pc, good>> /\ todo' = [todo EXCEPT ![p] = @ \ {t}]
    BY <1>4 DEF EnforceFails, Takes
  <2>4. /\ overlay' \in [Target -> {"absent", "frozen", "discarding", "bare"}]
        /\ oldest' \in [Target -> 0 .. Starts]
        /\ \A u \in Target, b \in 0 .. starts : Oldest(u, b) => Oldest(u, b)'
        /\ NothingOlderSurvives'
    BY <2>1, <2>2, <2>3, LeaveStep
  <2>5. GoodHoldsOnlyNew'
    BY <2>3, <2>4 DEF GoodHoldsOnlyNew, Oldest
  <2>6. TypeOK'
    BY <2>3, <2>4
  <2> QED
    BY <2>3, <2>4, <2>5, <2>6
<1> QED
  BY <1>1, <1>2, <1>3, <1>4 DEF Enforcing

LEMMA StartStep ==
  ASSUME IInv, NEW p \in Pid, Start(p)
  PROVE  IInv'
<1> USE DEF IInv, TypeOK
<1>1. /\ UNCHANGED <<overlay, oldest, status, temps>>
      /\ starts < Starts /\ starts' = starts + 1
      /\ born' = [born EXCEPT ![p] = starts + 1]
      /\ pc' = [pc EXCEPT ![p] = "enforcing"]
      /\ todo' = [todo EXCEPT ![p] = Target] /\ good' = [good EXCEPT ![p] = {}]
  BY DEF Start, Goes, files
<1>2. TypeOK'
  BY <1>1, StartsAssumption
<1>3. GoodHoldsOnlyNew' /\ NothingOlderSurvives'
  BY <1>1 DEF GoodHoldsOnlyNew, NothingOlderSurvives, Oldest
<1> QED
  BY <1>1, <1>2, <1>3, StartsAssumption

LEMMA IInvStep == IInv /\ [Next]_vars => IInv'
<1> SUFFICES ASSUME IInv, [Next]_vars PROVE IInv'
  OBVIOUS
<1>1. ASSUME NEW p \in Pid, Die(p) PROVE IInv'
  BY <1>1 DEF Die, files, IInv, TypeOK, GoodHoldsOnlyNew, NothingOlderSurvives, Oldest
<1>2. CASE UNCHANGED vars
  BY <1>2 DEF vars, files, service, IInv, TypeOK, GoodHoldsOnlyNew, NothingOlderSurvives, Oldest
<1> QED
  BY <1>1, <1>2, StartStep, UsingStep, EnforcingStep DEF Next

(* The inductive invariant holds always. *)
THEOREM EnforcementInvariant == Spec => []IInv
  BY InitIInv, IInvStep, PTL DEF Spec

(* A target reported healthy keeps no change older than the report,        *)
(* whatever failed, died, enforced beside it or was done by hand before    *)
(* and since.                                                              *)
THEOREM HealthyMeansRestored == Spec => []NothingOlderSurvives
<1>1. IInv => NothingOlderSurvives
  BY DEF IInv
<1> QED
  BY EnforcementInvariant, <1>1, PTL

-----------------------------------------------------------------------------
(* The socket or pipe of the processes *)

Stage == {"none", "bind", "probe", "unlink", "bound", "known", "listening", "leave",
          "remove", "left", "refused"}

SocketTypes ==
  /\ platform \in {"posix", "nt"}
  /\ path \in 0 .. starts
  /\ ipc \in [Pid -> Stage]
  /\ mine \in [Pid -> 0 .. starts]
  /\ saw \in [Pid -> SUBSET (1 .. starts)]
  /\ alone \in [Pid -> BOOLEAN]

(* A start makes one process.                                              *)
BornOnce ==
  /\ \A p, q \in Pid : born[p] = born[q] /\ born[p] > 0 => p = q
  /\ \A p \in Pid : pc[p] # "down" => born[p] > 0

(* Nobody serves before the status file is behind it.                      *)
ServesLast == \A p \in Pid : ipc[p] # "none" => pc[p] = "serving"

(* The pipe is there exactly as long as somebody answers on it.            *)
PipeOfOne ==
  platform = "nt" =>
    /\ \A p \in Pid : ipc[p] \in {"none", "listening", "refused", "left"}
    /\ \A p \in Pid : ipc[p] = "listening" => path = born[p]
    /\ path # None => \E p \in Pid : ipc[p] = "listening"

(* Who was seen answering has its bind behind it, and does not bind again; *)
(* so a name that is bound after the look is nobody's that was seen.       *)
SeenAreBound ==
  \A p, r \in Pid : born[r] \in saw[p] =>
    pc[r] = "down" \/ ipc[r] \in {"listening", "leave", "remove", "left"}

LooksBefore ==
  \A p \in Pid :
    /\ ipc[p] = "unlink" => path \notin saw[p]
    /\ ipc[p] = "remove" /\ mine[p] = born[p] => path \notin saw[p] \/ path = born[p]

(* What a process found is still so while nobody else is up.               *)
AloneIsUndisturbed ==
  \A p \in Pid : alone[p] =>
    /\ pc[p] # "down" /\ \A q \in Pid \ {p} : pc[q] = "down"
    /\ ipc[p] \in {"probe", "unlink", "bound"} => path # None
    /\ ipc[p] = "bind" => path = None
    /\ ipc[p] # "refused"

SocketInv ==
  /\ IInv
  /\ SocketTypes /\ BornOnce /\ ServesLast /\ PipeOfOne
  /\ SeenAreBound /\ LooksBefore /\ AloneIsUndisturbed

LEMMA InitSocketInv == SInit => SocketInv
<1> SUFFICES ASSUME SInit PROVE SocketInv
  OBVIOUS
<1>1. IInv
  BY InitIInv DEF SInit
<1>2. SocketTypes
  BY DEF SInit, Init, SocketTypes, Stage, None
<1>3. BornOnce /\ ServesLast /\ PipeOfOne
  BY DEF SInit, Init, BornOnce, ServesLast, PipeOfOne, None
<1>4. SeenAreBound /\ LooksBefore /\ AloneIsUndisturbed
  BY DEF SInit, Init, SeenAreBound, LooksBefore, AloneIsUndisturbed
<1> QED
  BY <1>1, <1>2, <1>3, <1>4 DEF SocketInv

(* What a step of the service does to the processes: at most one is made,  *)
(* by the next start, and one that serves goes on or ends.                 *)
LEMMA Lives ==
  ASSUME TypeOK, Next
  PROVE  /\ starts' \in Nat /\ starts' >= starts
         /\ \A p \in Pid :
              \/ born'[p] = born[p] /\ (pc[p] = "down" => pc'[p] = "down")
              \/ /\ pc[p] = "down" /\ pc'[p] = "enforcing"
                 /\ starts' = starts + 1 /\ born'[p] = starts'
                 /\ \A q \in Pid \ {p} : born'[q] = born[q]
         /\ \A p \in Pid : pc[p] = "serving" => pc'[p] \in {"serving", "down"}
<1>1. starts \in Nat /\ born \in [Pid -> 0 .. starts] /\ pc \in [Pid ->
        {"down", "enforcing", "publishing", "replacing", "serving"}]
  BY StartsAssumption DEF TypeOK
<1>2. CASE Using
  BY <1>1, <1>2 DEF Using, Change, Freeze, Thaw, Recover, service
<1>3. ASSUME NEW p \in Pid, Start(p) PROVE
        /\ starts' = starts + 1 /\ pc[p] = "down" /\ pc' = [pc EXCEPT ![p] = "enforcing"]
        /\ born' = [born EXCEPT ![p] = starts']
  BY <1>3 DEF Start, Goes
<1>4. ASSUME NEW p \in Pid, Enforcing(p) \/ Die(p) PROVE
        /\ starts' = starts /\ born' = born
        /\ \/ pc' = pc
           \/ /\ pc[p] \in {"enforcing", "publishing", "replacing"}
              /\ \E to \in {"publishing", "replacing", "serving"} : pc' = [pc EXCEPT ![p] = to]
           \/ pc' = [pc EXCEPT ![p] = "down"]
  BY <1>4 DEF Enforcing, NoConfiguration, EndCycle, CreateTemp, ReplaceStatus, NoReport,
              Enforce, EnforceFails, Takes, Goes, Die
<1> QED
  BY <1>1, <1>2, <1>3, <1>4 DEF Next

(* A process starts, goes on enforcing or ends.                            *)
LEMMA LifeKeepsSocket ==
  ASSUME SocketInv, Next, Follows
  PROVE  SocketInv'
<1>1. IInv /\ IInv' /\ TypeOK /\ TypeOK'
  BY IInvStep DEF SocketInv, IInv
<1>2. /\ SocketTypes /\ BornOnce /\ ServesLast /\ PipeOfOne
      /\ SeenAreBound /\ LooksBefore /\ AloneIsUndisturbed
  BY DEF SocketInv
<1>3. starts \in Nat /\ born \in [Pid -> 0 .. starts] /\ born' \in [Pid -> 0 .. starts']
  BY <1>1, StartsAssumption DEF TypeOK
<1>4. /\ starts' \in Nat /\ starts' >= starts
      /\ \A p \in Pid :
           \/ born'[p] = born[p] /\ (pc[p] = "down" => pc'[p] = "down")
           \/ /\ pc[p] = "down" /\ pc'[p] = "enforcing"
              /\ starts' = starts + 1 /\ born'[p] = starts'
              /\ \A q \in Pid \ {p} : born'[q] = born[q]
      /\ \A p \in Pid : pc[p] = "serving" => pc'[p] \in {"serving", "down"}
  BY <1>1, Lives
<1>5. /\ platform' = platform
      /\ \A p \in Pid :
           /\ ipc'[p] = IF pc'[p] = "down" THEN "none" ELSE ipc[p]
           /\ mine'[p] = IF pc'[p] = "down" THEN None ELSE mine[p]
           /\ saw'[p] = IF pc'[p] = "down" THEN {} ELSE saw[p]
           /\ alone'[p] = (/\ alone[p] \/ pc[p] = "down"
                           /\ pc'[p] # "down"
                           /\ \A q \in Pid \ {p} : pc'[q] = "down")
      /\ path' = IF platform = "nt" /\ \E p \in Pid : pc'[p] = "down" /\ ipc[p] = "listening"
                 THEN None ELSE path
  BY DEF Follows
<1>6. SocketTypes'
  <2>1. ipc' \in [Pid -> Stage] /\ alone' \in [Pid -> BOOLEAN]
    BY <1>2 DEF Follows, SocketTypes, Stage
  <2>2. mine' \in [Pid -> 0 .. starts'] /\ saw' \in [Pid -> SUBSET (1 .. starts')]
    BY <1>2, <1>3, <1>4 DEF Follows, SocketTypes, None
  <2>3. path' \in 0 .. starts'
    BY <1>2, <1>3, <1>4, <1>5 DEF SocketTypes, None
  <2> QED
    BY <1>2, <1>5, <2>1, <2>2, <2>3 DEF SocketTypes
<1>7. BornOnce'
  BY <1>2, <1>3, <1>4 DEF BornOnce
<1>8. ServesLast'
  BY <1>2, <1>4, <1>5 DEF ServesLast
<1>9. PipeOfOne'
  <2> SUFFICES ASSUME platform = "nt" PROVE PipeOfOne'
    BY <1>5 DEF PipeOfOne
  <2>1. \A p \in Pid : ipc'[p] \in {"none", "listening", "refused", "left"}
    BY <1>2, <1>5 DEF PipeOfOne
  <2>2. ASSUME NEW p \in Pid, ipc'[p] = "listening"
        PROVE  path' = born'[p]
    <3>1. ipc[p] = "listening" /\ pc'[p] # "down" /\ pc[p] = "serving" /\ path = born[p]
      BY <1>2, <1>5, <2>2 DEF PipeOfOne, ServesLast
    <3>2. born'[p] = born[p] /\ born[p] > 0
      BY <1>2, <1>4, <3>1 DEF BornOnce
    <3>3. ASSUME NEW q \in Pid, pc'[q] = "down", ipc[q] = "listening" PROVE FALSE
      BY <1>2, <3>1, <3>2, <3>3 DEF PipeOfOne, BornOnce
    <3> QED
      BY <1>5, <3>1, <3>2, <3>3
  <2>3. path' # None => \E p \in Pid : ipc'[p] = "listening"
    BY <1>2, <1>5 DEF PipeOfOne
  <2> QED
    BY <2>1, <2>2, <2>3 DEF PipeOfOne
<1>10. SeenAreBound'
  <2> SUFFICES ASSUME NEW p \in Pid, NEW r \in Pid, born'[r] \in saw'[p], pc'[r] # "down"
               PROVE  ipc'[r] \in {"listening", "leave", "remove", "left"}
    BY DEF SeenAreBound
  <2>1. born'[r] \in saw[p] /\ saw[p] \subseteq 1 .. starts
    BY <1>2, <1>5 DEF SocketTypes
  <2>2. born'[r] = born[r] /\ pc[r] # "down"
    BY <1>3, <1>4, <2>1
  <2> QED
    BY <1>2, <1>5, <2>1, <2>2 DEF SeenAreBound
<1>11. LooksBefore'
  <2> SUFFICES ASSUME NEW p \in Pid, ipc'[p] \in {"unlink", "remove"}
               PROVE  /\ ipc'[p] = "unlink" => path' \notin saw'[p]
                      /\ ipc'[p] = "remove" /\ mine'[p] = born'[p]
                           => path' \notin saw'[p] \/ path' = born'[p]
    BY DEF LooksBefore
  <2>1. pc'[p] # "down" /\ ipc'[p] = ipc[p] /\ mine'[p] = mine[p] /\ saw'[p] = saw[p]
    BY <1>5
  <2>2. born'[p] = born[p]
    BY <1>2, <1>4, <2>1 DEF ServesLast
  <2>3. path' = path
    BY <1>2, <1>5, <2>1 DEF PipeOfOne
  <2> QED
    BY <1>2, <2>1, <2>2, <2>3 DEF LooksBefore
<1>12. AloneIsUndisturbed'
  <2> SUFFICES ASSUME NEW p \in Pid, alone'[p]
               PROVE  /\ pc'[p] # "down" /\ \A q \in Pid \ {p} : pc'[q] = "down"
                      /\ ipc'[p] \in {"probe", "unlink", "bound"} => path' # None
                      /\ ipc'[p] = "bind" => path' = None
                      /\ ipc'[p] # "refused"
    BY DEF AloneIsUndisturbed
  <2>1. pc'[p] # "down" /\ (\A q \in Pid \ {p} : pc'[q] = "down") /\ ipc'[p] = ipc[p]
    BY <1>5
  <2>2. CASE alone[p]
    <3>1. ipc[p] \in {"probe", "unlink", "bound", "bind"} => path' = path
      BY <1>2, <1>5 DEF PipeOfOne
    <3> QED
      BY <1>2, <2>1, <2>2, <3>1 DEF AloneIsUndisturbed
  <2>3. CASE ~alone[p]
    <3>1. ipc[p] = "none"
      BY <1>2, <1>5, <2>3 DEF ServesLast
    <3> QED
      BY <2>1, <3>1
  <2> QED
    BY <2>2, <2>3
<1> QED
  BY <1>1, <1>6, <1>7, <1>8, <1>9, <1>10, <1>11, <1>12 DEF SocketInv

(* The steps of a process that serves, as changes of its own entries and   *)
(* of the path: looks, binds, removals of the name, and the pipe.          *)
LooksAtPath(p) ==
  /\ platform = "posix" /\ path' = path /\ mine'[p] = mine[p]
  /\ \/ ipc[p] = "none" /\ path = None /\ ipc'[p] = "bind" /\ saw'[p] = saw[p]
     \/ ipc[p] = "none" /\ path # None /\ ipc'[p] = "probe" /\ saw'[p] = saw[p]
     \/ ipc[p] = "probe" /\ path \in Listening \cup {None} /\ ipc'[p] = "refused" /\ saw'[p] = {}
     \/ /\ ipc[p] = "probe" /\ path \notin Listening \cup {None}
        /\ ipc'[p] = "unlink" /\ saw'[p] = Listening
     \/ ipc[p] = "leave" /\ path = mine[p] /\ ipc'[p] = "remove" /\ saw'[p] = Listening
     \/ ipc[p] = "leave" /\ path # mine[p] /\ ipc'[p] = "left" /\ saw'[p] = {}

TakesName(p) ==
  /\ platform = "posix"
  /\ \/ /\ ipc[p] = "bind" /\ path = None /\ ipc'[p] = "bound" /\ path' = born[p]
        /\ mine'[p] = mine[p] /\ saw'[p] = saw[p]
     \/ /\ ipc[p] = "bind" /\ path # None /\ ipc'[p] = "refused" /\ path' = path
        /\ mine'[p] = mine[p] /\ saw'[p] = saw[p]
     \/ /\ ipc[p] = "bound" /\ ipc'[p] = IF path = None THEN "refused" ELSE "known"
        /\ path' = path /\ mine'[p] = path /\ saw'[p] = saw[p]
     \/ /\ ipc[p] = "known" /\ ipc'[p] \in {"leave", "listening"}
        /\ path' = path /\ mine'[p] = mine[p] /\ saw'[p] = saw[p]
     \/ /\ ipc[p] = "listening" /\ ipc'[p] = "leave"
        /\ path' = path /\ mine'[p] = mine[p] /\ saw'[p] = saw[p]

RemovesName(p) ==
  /\ platform = "posix" /\ path' = None /\ mine'[p] = mine[p] /\ saw'[p] = {}
  /\ \/ ipc[p] = "unlink" /\ ipc'[p] = IF path = None THEN "refused" ELSE "bind"
     \/ ipc[p] = "remove" /\ ipc'[p] = "left"

HasPipe(p) ==
  /\ platform = "nt" /\ mine'[p] = mine[p] /\ saw'[p] = saw[p]
  /\ \/ ipc[p] = "none" /\ path = None /\ ipc'[p] = "listening" /\ path' = born[p]
     \/ ipc[p] = "none" /\ path # None /\ ipc'[p] = "refused" /\ path' = path
     \/ ipc[p] = "listening" /\ ipc'[p] = "left" /\ path' = None

LEMMA ServingSteps ==
  ASSUME SocketTypes, PipeOfOne, NEW p \in Pid, Serving(p) \/ StopServing(p) \/ ThreadEnds(p)
  PROVE  /\ pc[p] = "serving"
         /\ ipc' \in [Pid -> Stage]
         /\ \A q \in Pid \ {p} : ipc'[q] = ipc[q] /\ mine'[q] = mine[q] /\ saw'[q] = saw[q]
         /\ LooksAtPath(p) \/ TakesName(p) \/ RemovesName(p) \/ HasPipe(p)
<1> USE DEF SocketTypes, Moves
<1>1. ipc[p] \notin {"none", "listening", "refused", "left"} => platform = "posix"
  BY DEF PipeOfOne
<1>2. CASE LookAtPath(p)
  BY <1>2 DEF LookAtPath, local, LooksAtPath, Stage
<1>3. CASE Probe(p)
  BY <1>1, <1>3 DEF Probe, Sees, LooksAtPath, Stage
<1>4. CASE UnlinkOld(p)
  BY <1>1, <1>4 DEF UnlinkOld, Forgets, RemovesName, Stage
<1>5. CASE Bind(p)
  BY <1>1, <1>5 DEF Bind, local, TakesName, Stage
<1>6. CASE RecordIdentity(p)
  BY <1>1, <1>6 DEF RecordIdentity, TakesName, Stage
<1>7. CASE Listen(p)
  BY <1>1, <1>7 DEF Listen, local, TakesName, Stage
<1>8. CASE StopServing(p)
  BY <1>8 DEF StopServing, local, TakesName, Stage
<1>9. CASE Withdraw(p)
  BY <1>1, <1>9 DEF Withdraw, Sees, LooksAtPath, Stage
<1>10. CASE RemoveName(p)
  BY <1>1, <1>10 DEF RemoveName, Forgets, RemovesName, Stage
<1>11. CASE CreatePipe(p)
  BY <1>11 DEF CreatePipe, local, HasPipe, Stage
<1>12. CASE ThreadEnds(p)
  BY <1>12 DEF ThreadEnds, local, HasPipe, Stage
<1> QED
  BY <1>2, <1>3, <1>4, <1>5, <1>6, <1>7, <1>8, <1>9, <1>10, <1>11, <1>12 DEF Serving

(* A process goes on with serving.                                         *)
LEMMA ServingKeepsSocket ==
  ASSUME SocketInv, NEW p \in Pid, Serving(p) \/ StopServing(p) \/ ThreadEnds(p),
         UNCHANGED <<vars, platform, alone>>
  PROVE  SocketInv'
<1>1. IInv' /\ TypeOK
  BY IInvStep DEF SocketInv, IInv
<1>2. /\ SocketTypes /\ BornOnce /\ ServesLast /\ PipeOfOne
      /\ SeenAreBound /\ LooksBefore /\ AloneIsUndisturbed
  BY DEF SocketInv
<1>3. /\ pc[p] = "serving" /\ ipc' \in [Pid -> Stage]
      /\ \A q \in Pid \ {p} : ipc'[q] = ipc[q] /\ mine'[q] = mine[q] /\ saw'[q] = saw[q]
      /\ LooksAtPath(p) \/ TakesName(p) \/ RemovesName(p) \/ HasPipe(p)
  BY <1>2, ServingSteps
<1>4. starts \in Nat /\ born \in [Pid -> 0 .. starts] /\ born[p] > 0
  BY <1>1, <1>2, <1>3, StartsAssumption DEF TypeOK, BornOnce
<1>5. born' = born /\ pc' = pc /\ starts' = starts /\ platform' = platform /\ alone' = alone
  BY DEF vars, service
<1>6. Listening \subseteq 1 .. starts
  BY <1>2, <1>4 DEF Listening, BornOnce, ServesLast
<1>7. SocketTypes'
  <2>0. saw'[p] \in {saw[p], {}, Listening}
    BY <1>3 DEF LooksAtPath, TakesName, RemovesName, HasPipe
  <2>1. path' \in 0 .. starts /\ mine'[p] \in 0 .. starts /\ saw'[p] \in SUBSET (1 .. starts)
    <3>1. path' \in {path, None, born[p]} /\ mine'[p] \in {mine[p], path}
      BY <1>3 DEF LooksAtPath, TakesName, RemovesName, HasPipe
    <3>2. saw[p] \in SUBSET (1 .. starts) /\ path \in 0 .. starts /\ mine[p] \in 0 .. starts
      BY <1>2 DEF SocketTypes
    <3>3. path' \in 0 .. starts /\ mine'[p] \in 0 .. starts
      BY <1>4, <3>1, <3>2 DEF None
    <3>4. saw'[p] \in SUBSET (1 .. starts)
      BY <1>6, <2>0, <3>2
    <3> QED
      BY <3>3, <3>4
  <2>2. /\ \E m : mine' = [mine EXCEPT ![p] = m]
        /\ \E t : saw' = [saw EXCEPT ![p] = t]
    BY <1>2 DEF SocketTypes, Serving, LookAtPath, Probe, UnlinkOld, Bind, RecordIdentity, Listen,
       Withdraw, RemoveName, CreatePipe, StopServing, ThreadEnds, local, Sees, Forgets
  <2> QED
    BY <1>2, <1>3, <1>5, <2>1, <2>2 DEF SocketTypes
<1>8. BornOnce' /\ ServesLast'
  BY <1>2, <1>3, <1>5 DEF BornOnce, ServesLast
<1>9. PipeOfOne'
  <2>1. platform = "posix" => PipeOfOne'
    BY <1>5 DEF PipeOfOne
  <2>2. ASSUME platform = "nt" PROVE PipeOfOne'
    <3>1. HasPipe(p)
      BY <1>3, <2>2 DEF LooksAtPath, TakesName, RemovesName
    <3>2. ASSUME NEW q \in Pid, q # p, ipc[q] = "listening"
          PROVE  path = born[q] /\ path # None /\ path # born[p]
      BY <1>2, <2>2, <3>2 DEF PipeOfOne, BornOnce, ServesLast, None
    <3> QED
      BY <1>2, <1>3, <1>4, <1>5, <2>2, <3>1, <3>2 DEF HasPipe, PipeOfOne, None
  <2> QED
    BY <1>2, <2>1, <2>2 DEF SocketTypes
<1>10. SeenAreBound'
  <2>1. ASSUME NEW q \in Pid, NEW r \in Pid, ipc[q] = "listening", born[r] = born[q]
        PROVE  r = q
    BY <1>2, <1>4, <2>1 DEF BornOnce, ServesLast
  <2>2. \A r \in Pid : born[r] \in saw'[p] =>
          \/ pc[r] = "down"
          \/ ipc[r] \in {"listening", "leave", "remove", "left"}
    BY <1>2, <1>3, <2>1 DEF SeenAreBound, Listening, LooksAtPath, TakesName, RemovesName, HasPipe
  <2>3. ipc[p] \in {"listening", "leave", "remove", "left"}
          => ipc'[p] \in {"listening", "leave", "remove", "left"}
    BY <1>3 DEF LooksAtPath, TakesName, RemovesName, HasPipe
  <2> QED
    BY <1>2, <1>3, <1>5, <2>2, <2>3 DEF SeenAreBound
<1>11. LooksBefore'
  <2>1. path' \in {path, None, born[p]}
    BY <1>3 DEF LooksAtPath, TakesName, RemovesName, HasPipe
  <2>2. ASSUME NEW q \in Pid, q # p
        PROVE  path' = path \/ path' \notin saw[q]
    BY <1>2, <1>3, <1>4 DEF SeenAreBound, SocketTypes, LooksAtPath, TakesName, RemovesName,
       HasPipe, None
  <2>3. /\ ipc'[p] = "unlink" => path' \notin saw'[p]
        /\ ipc'[p] = "remove" /\ mine'[p] = born[p] => path' \notin saw'[p] \/ path' = born[p]
    BY <1>3 DEF LooksAtPath, TakesName, RemovesName, HasPipe
  <2>4. ASSUME NEW q \in Pid, q # p, path' # path, ipc[q] \in {"unlink", "remove"}
        PROVE  path' \notin saw'[q]
    BY <1>3, <2>2, <2>4
  <2> QED
    BY <1>2, <1>3, <1>5, <2>3, <2>4 DEF LooksBefore
<1>12. AloneIsUndisturbed'
  <2>1. ASSUME NEW q \in Pid, alone[q]
        PROVE  q = p
    BY <1>2, <1>3, <2>1 DEF AloneIsUndisturbed
  <2>2. ASSUME alone[p], NEW q \in Pid, ipc[q] = "listening"
        PROVE  q = p
    BY <1>2, <2>2 DEF AloneIsUndisturbed, ServesLast
  <2>3. ASSUME alone[p]
        PROVE  /\ ipc'[p] \in {"probe", "unlink", "bound"} => path' # None
               /\ ipc'[p] = "bind" => path' = None
               /\ ipc'[p] # "refused"
    <3>1. Listening = IF ipc[p] = "listening" THEN {born[p]} ELSE {}
      BY <2>2, <2>3 DEF Listening
    <3>2. platform = "nt" /\ ipc[p] = "none" => path = None
      BY <1>2, <2>2, <2>3 DEF PipeOfOne
    <3> QED
      BY <1>2, <1>3, <1>4, <2>3, <3>1, <3>2 DEF AloneIsUndisturbed, LooksAtPath, TakesName,
         RemovesName, HasPipe, None
  <2> QED
    BY <1>2, <1>5, <2>1, <2>3 DEF AloneIsUndisturbed
<1> QED
  BY <1>1, <1>7, <1>8, <1>9, <1>10, <1>11, <1>12 DEF SocketInv

LEMMA SocketStep == SocketInv /\ [SNext]_allVars => SocketInv'
<1> SUFFICES ASSUME SocketInv, [SNext]_allVars PROVE SocketInv'
  OBVIOUS
<1>1. CASE UNCHANGED allVars
  <2>1. IInv'
    BY <1>1, IInvStep DEF SocketInv, allVars
  <2> QED
    BY <1>1, <2>1 DEF SocketInv, SocketTypes, BornOnce, ServesLast, PipeOfOne, SeenAreBound,
       LooksBefore, AloneIsUndisturbed, allVars, vars, service, socket, local
<1> QED
  BY <1>1, LifeKeepsSocket, ServingKeepsSocket DEF SNext

LEMMA SocketInvariant == SSpec => []SocketInv
  BY InitSocketInv, SocketStep, PTL DEF SSpec

(* A process of the service that has been the only one since it started    *)
(* always gets the socket or the pipe, whatever crashed before it.         *)
THEOREM AloneNeverTurnedAway == SSpec => []OnlyOthersTurnItAway
<1>1. SocketInv => OnlyOthersTurnItAway
  BY DEF SocketInv, AloneIsUndisturbed, OnlyOthersTurnItAway
<1> QED
  BY SocketInvariant, <1>1, PTL

(* A server that answers loses its socket only in the two races of starts  *)
(* beside each other: to one that had looked before it answered, or to one *)
(* that took the socket of another for its own.                            *)
THEOREM AnsweringServersKeepTheirName == SSpec => AnsweringServersAreKept
<1> DEFINE Kept == \A q \in Pid :
       ipc[q] = "listening" /\ path = born[q] /\ ipc'[q] = "listening" /\ path' # path =>
         \E p \in Pid \ {q} :
           \/ ipc[p] \in {"unlink", "remove"} /\ born[q] \notin saw[p]
           \/ ipc[p] = "remove" /\ mine[p] # born[p]
<1>1. ASSUME SocketInv, [SNext]_allVars, NEW q \in Pid, ipc[q] = "listening", path = born[q],
             ipc'[q] = "listening", path' # path
      PROVE  \E p \in Pid \ {q} :
               \/ ipc[p] \in {"unlink", "remove"} /\ born[q] \notin saw[p]
               \/ ipc[p] = "remove" /\ mine[p] # born[p]
  <2>1. /\ SocketTypes /\ BornOnce /\ ServesLast /\ PipeOfOne /\ LooksBefore
    BY <1>1 DEF SocketInv
  <2>2. path # None /\ \A p \in Pid \ {q} : born[p] # path
    BY <1>1, <2>1 DEF BornOnce, ServesLast, None
  <2>3. \A p \in Pid \ {q} : platform = "nt" => ipc[p] # "listening"
    BY <1>1, <2>1, <2>2 DEF PipeOfOne
  <2>4. ~(Next /\ Follows)
    BY <1>1, <2>3 DEF Follows
  <2>5. PICK p \in Pid : Serving(p) \/ StopServing(p) \/ ThreadEnds(p)
    BY <1>1, <2>4 DEF SNext, allVars, socket
  <2>6. RemovesName(p) /\ p # q
    BY <1>1, <2>1, <2>2, <2>3, <2>5, ServingSteps DEF LooksAtPath, TakesName, RemovesName, HasPipe
  <2> QED
    BY <1>1, <2>1, <2>2, <2>6 DEF RemovesName, LooksBefore
<1>2. SocketInv /\ [SNext]_allVars => [Kept]_allVars
  BY <1>1
<1> QED
  BY SocketInvariant, <1>2, PTL DEF SSpec, AnsweringServersAreKept

(* What the status file says stays true while the processes that serve     *)
(* come and go.                                                            *)
THEOREM HealthyBesideTheClients == SSpec => []NothingOlderSurvives
<1>1. SocketInv => NothingOlderSurvives
  BY DEF SocketInv, IInv
<1> QED
  BY SocketInvariant, <1>1, PTL
=============================================================================
