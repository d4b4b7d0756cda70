---------------------------- MODULE AdminBroker ----------------------------
(***************************************************************************)
(* The administration broker (admin_ipc.py): two-step discards and commits *)
(* bound by a short-lived nonce to who prepared them, as far as the kernel *)
(* tells clients apart.  The transports hand over one call at a time and   *)
(* the broker handles it under a mutex, so that handling a call is one     *)
(* action; it ends with the service, which forgets its nonces when it      *)
(* starts again.                                                           *)
(*                                                                         *)
(* On Windows the same nonces authorise the laboratory staging of UWF      *)
(* (uwf_ipc_lab.py), the write filter of Windows: a call that runs         *)
(* commands with the mutex held, any of which may fail half-way, or be     *)
(* given up and take effect later.                                         *)
(*                                                                         *)
(* A client gives up after five seconds and what it sent is handled all    *)
(* the same.  A call on its way has no effect of its own, so that late,    *)
(* repeated and reordered calls are those of actions that may handle any   *)
(* call at any time.                                                       *)
(***************************************************************************)
EXTENDS Naturals, Sequences, FiniteSets

CONSTANTS Peer,       \* administrators' processes
          Account,    \* the Windows users they may run as
          Target,     \* the targets of the configuration
          Volume,     \* persistent volumes a staging may name (D: to Z:)
          Lifetime,   \* of a nonce (30 s)
          Capacity,   \* nonces pending at a time (128)
          Nonces,     \* bound: nonces ever issued
          Clock,      \* bound: last time
          Runs        \* bound: runs of the service

ASSUME BoundsAssumption == {Lifetime, Capacity, Nonces, Clock, Runs} \subseteq Nat

VARIABLES
  os,         \* the platform: "posix" or "nt"
  identity,   \* identity[p]: what the kernel tells the broker of process p
  pending,    \* set of [nonce, identity, op, target, expires]
  now,        \* the monotonic clock
  overlay,    \* overlay[t]: "absent", "frozen" or "discarding", as the core leaves it
  issued,     \* history: issued[k]: who nonce k was issued to, for what, when and in which run
  run,        \* history: the run of the service
  executed,   \* history: the discards, commits and stagings carried out, in order
  lab,        \* staging is allowed to this run of the service
  uwf,        \* the filter and the protection of C:, in this session and the next
  staging,    \* the staging that goes on: its next step and its nonce
  late,       \* set of [part, nonce]: the commands still under way after their call
  staged      \* history: the nonces whose staging changed something, those with a
              \* command that outlived its call, and whether one was reported

broker == <<os, identity, pending, now, overlay, issued, run, executed>>
windows == <<lab, uwf, staging, late, staged>>
vars == <<broker, windows>>

Op == {"discard", "commit"}
UwfStage == "uwf-stage"
Nonce == 1 .. Nonces

NoStaging == [step |-> "none", nonce |-> 0]
Off == [now |-> FALSE, next |-> FALSE]

(* On Linux the pid of a process of root; on Windows the SID of the user,  *)
(* whichever of the user's processes it is.                                *)
Identities(platform) ==
  IF platform = "nt" THEN [Peer -> Account] ELSE {[p \in Peer |-> p]}

Init ==
  /\ os \in {"posix", "nt"}
  /\ identity \in Identities(os)
  /\ pending = {}
  /\ now = 0
  /\ overlay \in [Target -> {"absent", "frozen"}]
  /\ issued = <<>>
  /\ run = 1
  /\ executed = <<>>
  /\ lab \in BOOLEAN /\ (lab => os = "nt")
  /\ uwf = [filter |-> Off, volume |-> Off]
  /\ staging = NoStaging
  /\ late = {}
  /\ staged = [by |-> {}, outlived |-> {}, reported |-> FALSE]

Tick ==
  /\ now < Clock
  /\ now' = now + 1
  /\ UNCHANGED <<os, identity, pending, overlay, issued, run, executed, windows>>

-----------------------------------------------------------------------------
(* Nonces.  Every call about a target drops the expired ones first; a call *)
(* that is refused before, for its sender, its form or a configuration     *)
(* that cannot be read, changes nothing.                                   *)

Unexpired == {r \in pending : r.expires > now}

IssueNonceOneMore(p, op, x) ==
  /\ Cardinality(Unexpired) <= Capacity /\ Len(issued) < Nonces
  /\ pending' = Unexpired \cup {[nonce |-> Len(issued) + 1, identity |-> identity[p],
                                 op |-> op, target |-> x, expires |-> now + Lifetime]}
  /\ issued' = Append(issued, [identity |-> identity[p], op |-> op, target |-> x,
                               at |-> now, run |-> run])

IssueNonce(p, op, x) ==
  /\ Cardinality(Unexpired) < Capacity /\ Len(issued) < Nonces
  /\ pending' = Unexpired \cup {[nonce |-> Len(issued) + 1, identity |-> identity[p],
                                 op |-> op, target |-> x, expires |-> now + Lifetime]}
  /\ issued' = Append(issued, [identity |-> identity[p], op |-> op, target |-> x,
                               at |-> now, run |-> run])

Prepare(p, op, t) ==
  /\ IssueNonce(p, op, t)
  /\ UNCHANGED <<os, identity, now, overlay, run, executed>>

PrepareRefused ==
  /\ Cardinality(Unexpired) >= Capacity
  /\ pending' = Unexpired
  /\ UNCHANGED <<os, identity, now, overlay, issued, run, executed>>

FitsPeer(k, p, op, t) == \E r \in Unexpired : r.nonce = k /\ r.identity = identity[p]

Fits(k, p, op, t) ==
  \E r \in Unexpired : r.nonce = k /\ r.identity = identity[p] /\ r.op = op /\ r.target = t

LookedUp(k) == Unexpired

(* The nonce is taken out whatever becomes of the call. *)
LeftAfter(k) == {r \in Unexpired : r.nonce # k}

NotConfirmed(k, p, op, t) ==
  /\ ~Fits(k, p, op, t)
  /\ pending' = LeftAfter(k)
  /\ UNCHANGED <<os, identity, now, overlay, issued, run, executed>>

-----------------------------------------------------------------------------
(* Calls of the core *)

Becomes(t, s) == overlay' = [overlay EXCEPT ![t] = s]

(* The overlay is opened, which finishes a discard that was begun. *)
Opened(t) == IF overlay[t] = "discarding" THEN "absent" ELSE overlay[t]

(* The thaw of a frozen target: done, cut short, or, of a commit, given up *)
(* with a part of it applied.                                              *)
Confirm(k, p, op, t) ==
  /\ Fits(k, p, op, t)
  /\ overlay[t] = "frozen"
  /\ \E s \in {"absent", "discarding"} \cup {x \in {"frozen"} : op = "commit"} : Becomes(t, s)
  /\ pending' = LeftAfter(k)
  /\ executed' = Append(executed, [nonce |-> k, identity |-> identity[p], op |-> op,
                                   target |-> t, at |-> now, run |-> run])
  /\ UNCHANGED <<os, identity, now, issued, run>>

(* The nonce is spent also when nothing could be done: the lock is held or *)
(* the target is not frozen.                                               *)
ConfirmInVain(k, p, op, t) ==
  /\ Fits(k, p, op, t)
  /\ UNCHANGED overlay \/ Becomes(t, Opened(t))
  /\ pending' = LeftAfter(k)
  /\ UNCHANGED <<os, identity, now, issued, run, executed>>

Freeze(t) ==
  /\ \/ UNCHANGED overlay
     \/ Becomes(t, Opened(t))
     \/ Becomes(t, "frozen")
  /\ pending' = Unexpired
  /\ UNCHANGED <<os, identity, now, issued, run, executed>>

(* Looking at a target opens it. *)
Status(t) ==
  /\ Becomes(t, Opened(t))
  /\ UNCHANGED <<os, identity, pending, now, issued, run, executed>>

-----------------------------------------------------------------------------
(* UWF *)

Configured == \E x \in {"filter", "volume"} : uwf[x].now \/ uwf[x].next

PrepareStaging(p, v) ==
  /\ lab /\ ~Configured
  /\ IssueNonce(p, UwfStage, v)
  /\ UNCHANGED <<os, identity, now, overlay, run, executed>>

(* Expired nonces are left in the table, and refused one by one. *)
FitsStaging(k, p, v) ==
  \E r \in pending :
    r.nonce = k /\ r.identity = identity[p] /\ r.op = UwfStage /\ r.target = v /\ r.expires > now

TakenOut(k) == {r \in pending : r.nonce # k}

NotStaged(k, p, v) ==
  /\ os = "nt" /\ ~FitsStaging(k, p, v)
  /\ pending' = TakenOut(k)
  /\ UNCHANGED <<os, identity, now, overlay, issued, run, executed>>

BeginStaging(k, p, v) ==
  /\ FitsStaging(k, p, v) /\ lab
  /\ pending' = TakenOut(k)
  /\ executed' = Append(executed, [nonce |-> k, identity |-> identity[p], op |-> UwfStage,
                                   target |-> v, at |-> now, run |-> run])
  /\ staging' = [step |-> "inspect", nonce |-> k]
  /\ UNCHANGED <<os, identity, now, overlay, issued, run, lab, uwf, late, staged>>

Goes(from, to) ==
  /\ staging.step = from
  /\ staging' = IF to = "none" THEN NoStaging ELSE [staging EXCEPT !.step = to]

InspectNothing ==
  /\ Goes("inspect", "protect")
  /\ UNCHANGED <<lab, uwf, late, staged>>

(* What was not configured when it was prepared may be by now. *)
Inspect ==
  /\ Goes("inspect", IF Configured THEN "none" ELSE "protect")
  /\ UNCHANGED <<lab, uwf, late, staged>>

SetsFor(k, x) ==
  /\ uwf' = [uwf EXCEPT ![x].next = TRUE]
  /\ staged' = IF uwf[x].next THEN staged ELSE [staged EXCEPT !.by = @ \cup {k}]

Outlives(x) ==
  /\ late' = late \cup {[part |-> x, nonce |-> staging.nonce]}
  /\ staged' = [staged EXCEPT !.outlived = @ \cup {staging.nonce}]
  /\ UNCHANGED uwf

(* uwfmgr returns, or fails and the call raises, without undoing anything: *)
(* with or without having done what it was told to.                        *)
CommandEnds(x, from, to) ==
  /\ Goes(from, to) \/ Goes(from, "none")
  /\ SetsFor(staging.nonce, x) \/ UNCHANGED <<uwf, staged>>
  /\ UNCHANGED <<lab, late>>

(* It takes too long, and what becomes of it is not known.                 *)
CommandOutlives(x, from) ==
  /\ Goes(from, "none")
  /\ Outlives(x)
  /\ UNCHANGED lab

NativeCall(x, from, to) == CommandEnds(x, from, to) \/ CommandOutlives(x, from)

ProtectVolume == NativeCall("volume", "protect", "enable")
EnableFilter == NativeCall("filter", "enable", "verify")

Verify ==
  /\ Goes("verify", "none")
  /\ staged' = IF uwf.filter.next /\ uwf.volume.next THEN [staged EXCEPT !.reported = TRUE]
               ELSE staged
  /\ UNCHANGED <<lab, uwf, late>>

(* A command given up takes effect after all, whatever goes on by then; or *)
(* never does.                                                             *)
LateEffect ==
  \E c \in late :
    /\ SetsFor(c.nonce, c.part)
    /\ late' = late \ {c}
    /\ UNCHANGED <<lab, staging>>

-----------------------------------------------------------------------------
(* The service ends or dies and is started again, on a machine that may    *)
(* have been started again too; it enforces the frozen state first         *)
(* (BootEnforcement).  A command may outlive the service that ran it, but  *)
(* not the machine.                                                        *)

NextSession == [x \in DOMAIN uwf |-> [uwf[x] EXCEPT !.now = uwf[x].next]]

MachineRestarts ==
  /\ uwf' = NextSession
  /\ late' = {}
  /\ UNCHANGED staged

ServiceRestarts ==
  \/ UNCHANGED <<uwf, late, staged>>
  \/ staging.step = "protect" /\ Outlives("volume")
  \/ staging.step = "enable" /\ Outlives("filter")

Restart ==
  /\ run < Runs
  /\ run' = run + 1
  /\ pending' = {}
  /\ overlay' \in [Target -> {"absent", "frozen"}]
  /\ lab' \in BOOLEAN /\ (lab' => os = "nt")
  /\ staging' = NoStaging
  /\ MachineRestarts \/ ServiceRestarts
  /\ UNCHANGED <<os, identity, now, issued, executed>>

Call ==
  \/ PrepareRefused
  \/ \E t \in Target : Freeze(t) \/ Status(t)
  \/ \E p \in Peer, op \in Op, t \in Target :
       \/ Prepare(p, op, t)
       \/ \E k \in 1 .. Len(issued) :
            NotConfirmed(k, p, op, t) \/ Confirm(k, p, op, t) \/ ConfirmInVain(k, p, op, t)
  \/ \E p \in Peer, v \in Volume :
       \/ PrepareStaging(p, v)
       \/ \E k \in 1 .. Len(issued) : NotStaged(k, p, v)

Staging == Inspect \/ ProtectVolume \/ EnableFilter \/ Verify

Windows == Staging \/ LateEffect

(* The mutex is held for as long as a staging goes on. *)
Next ==
  \/ Tick \/ Restart
  \/ staging = NoStaging /\ Call /\ UNCHANGED windows
  \/ staging = NoStaging /\ \E k \in 1 .. Len(issued), p \in Peer, v \in Volume : BeginStaging(k, p, v)
  \/ Windows /\ UNCHANGED broker

Spec == Init /\ [][Next]_vars
-----------------------------------------------------------------------------
(* Properties *)

TypeOK ==
  /\ os \in {"posix", "nt"} /\ identity \in [Peer -> Peer \cup Account]
  /\ pending \subseteq [nonce : Nonce, identity : Peer \cup Account, op : Op \cup {UwfStage},
                       target : Target \cup Volume, expires : Nat]
  /\ Cardinality(pending) <= Capacity
  /\ now \in 0 .. Clock
  /\ overlay \in [Target -> {"absent", "frozen", "discarding"}]
  /\ uwf \in [{"filter", "volume"} -> [now : BOOLEAN, next : BOOLEAN]]
  /\ staging \in [step : {"none", "inspect", "protect", "enable", "verify"}, nonce : Nat]
  /\ late \subseteq [part : {"filter", "volume"}, nonce : Nat]

(* However calls are repeated, delayed or reordered among clients, every   *)
(* discard, commit and staging had its own prepare: by someone the kernel  *)
(* tells the broker is the same (on Linux the same process, on Windows any *)
(* process of the same user), for the same operation and target, in the    *)
(* same run of the service, less than a lifetime earlier.                  *)
ExecutedWasPrepared ==
  \A i \in 1 .. Len(executed) :
    LET e == executed[i]
        k == issued[e.nonce]
    IN  /\ k.identity = e.identity /\ k.op = e.op /\ k.target = e.target
        /\ k.run = e.run
        /\ e.at < k.at + Lifetime

(* No nonce carries out two operations, also when the first one stopped    *)
(* half-way and the client asks again.                                     *)
NoncesWorkOnce ==
  \A i, j \in 1 .. Len(executed) : executed[i].nonce = executed[j].nonce => i = j

(* However many stagings were prepared, by whom, and whichever of them     *)
(* failed or was cut short: of those none of whose commands outlived its   *)
(* call one at most set something for the next session, also beside the    *)
(* late effects of the others, and once one was reported as configured C:  *)
(* comes up protected.                                                     *)
StagedOnce ==
  /\ Cardinality(staged.by \ staged.outlived) <= 1
  /\ staged.reported => uwf.filter.next /\ uwf.volume.next
=============================================================================
