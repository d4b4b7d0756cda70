--------------------------- MODULE ServiceSocket ---------------------------
(***************************************************************************)
(* How a process of the service (BootEnforcement) comes to answer its      *)
(* clients.  On Linux it binds a socket in the file system, where an       *)
(* earlier process may have left one and another may be starting too       *)
(* (serve_unix of admin_ipc.py): every look at the path and every change   *)
(* of it is a step of its own.  On Windows it creates the only instance of *)
(* a named pipe, which goes away with who holds it (admin_ipc_win.py).     *)
(***************************************************************************)
EXTENDS BootEnforcement

VARIABLES
  platform,   \* "posix" or "nt"
  path,       \* the socket or pipe: the start that made it, or None
  ipc,        \* how far the process is with serving
  mine,       \* (st_dev, st_ino) of the socket it takes for its own
  saw,        \* history: who answered when it last looked at what it is about to unlink
  alone       \* history: no other process has been up since it started

local == <<mine, saw>>
socket == <<path, ipc, local, alone>>
allVars == <<vars, platform, socket>>

None == 0

Listening == {born[q] : q \in {r \in Pid : ipc[r] = "listening"}}

SInit ==
  /\ Init
  /\ platform \in {"posix", "nt"}
  /\ path = None
  /\ ipc = [p \in Pid |-> "none"]
  /\ mine = [p \in Pid |-> None]
  /\ saw = [p \in Pid |-> {}]
  /\ alone = [p \in Pid |-> FALSE]

Moves(p, from, to) == pc[p] = "serving" /\ ipc[p] = from /\ ipc' = [ipc EXCEPT ![p] = to]

-----------------------------------------------------------------------------
(* serve_unix *)

LookAtNothing(p) ==
  /\ platform = "posix"
  /\ Moves(p, "none", "bind")
  /\ UNCHANGED <<path, local>>

LookAtPath(p) ==
  /\ platform = "posix"
  /\ Moves(p, "none", IF path = None THEN "bind" ELSE "probe")
  /\ UNCHANGED <<path, local>>

Sees(p) ==
  saw' = [saw EXCEPT ![p] = IF ipc'[p] \in {"unlink", "remove"} THEN Listening ELSE {}]
Forgets(p) == saw' = [saw EXCEPT ![p] = {}] /\ UNCHANGED mine

ProbeNot(p) ==
  /\ Moves(p, "probe", "unlink")
  /\ Sees(p)
  /\ UNCHANGED <<path, mine>>

(* connect: refused by a socket that nobody listens on; an answer, or no   *)
(* file at all, ends the call.                                             *)
Probe(p) ==
  /\ Moves(p, "probe", IF path = None \/ path \in Listening THEN "refused" ELSE "unlink")
  /\ Sees(p)
  /\ UNCHANGED <<path, mine>>

UnlinkOld(p) ==
  /\ Moves(p, "unlink", IF path = None THEN "refused" ELSE "bind")
  /\ path' = None
  /\ Forgets(p)

Bind(p) ==
  /\ Moves(p, "bind", IF path = None THEN "bound" ELSE "refused")
  /\ path' = IF path = None THEN born[p] ELSE path
  /\ UNCHANGED local

RecordIdentity(p) ==
  /\ Moves(p, "bound", IF path = None THEN "refused" ELSE "known")
  /\ mine' = [mine EXCEPT ![p] = path]
  /\ UNCHANGED <<path, saw>>

(* chmod by name, listen by descriptor *)
Listen(p) ==
  /\ Moves(p, "known", IF path = None THEN "leave" ELSE "listening")
  /\ UNCHANGED <<path, local>>

(* accept raises, or the process is interrupted. *)
StopServing(p) ==
  /\ platform = "posix"
  /\ Moves(p, "listening", "leave")
  /\ UNCHANGED <<path, local>>

(* The socket is closed, and its name taken away if it is still its own.   *)
Withdraw(p) ==
  /\ Moves(p, "leave", IF path = mine[p] THEN "remove" ELSE "left")
  /\ Sees(p)
  /\ UNCHANGED <<path, mine>>

RemoveName(p) ==
  /\ Moves(p, "remove", "left")
  /\ path' = None
  /\ Forgets(p)

-----------------------------------------------------------------------------
(* serve_windows, in a thread of the service *)

CreatePipe(p) ==
  /\ platform = "nt"
  /\ Moves(p, "none", IF path = None THEN "listening" ELSE "refused")
  /\ path' = IF path = None THEN born[p] ELSE path
  /\ UNCHANGED local

(* An error that is not a client's ends the thread; the service goes on    *)
(* without it.                                                             *)
ThreadEnds(p) ==
  /\ platform = "nt"
  /\ Moves(p, "listening", "left")
  /\ path' = None
  /\ UNCHANGED local

Serving(p) ==
  \/ LookAtPath(p) \/ Probe(p) \/ UnlinkOld(p) \/ Bind(p) \/ RecordIdentity(p) \/ Listen(p)
  \/ Withdraw(p) \/ RemoveName(p) \/ CreatePipe(p)

-----------------------------------------------------------------------------
(* A process that ends leaves its socket where it is; a pipe goes with it. *)
Follows ==
  /\ UNCHANGED platform
  /\ LET ends(p) == pc'[p] = "down" IN
     /\ ipc' = [p \in Pid |-> IF ends(p) THEN "none" ELSE ipc[p]]
     /\ mine' = [p \in Pid |-> IF ends(p) THEN None ELSE mine[p]]
     /\ saw' = [p \in Pid |-> IF ends(p) THEN {} ELSE saw[p]]
     /\ alone' = [p \in Pid |-> /\ alone[p] \/ pc[p] = "down"
                                /\ ~ends(p)
                                /\ \A q \in Pid \ {p} : ends(q)]
     /\ path' = IF platform = "nt" /\ \E p \in Pid : ends(p) /\ ipc[p] = "listening"
                THEN None ELSE path

SNext ==
  \/ Next /\ Follows
  \/ /\ \E p \in Pid : Serving(p) \/ StopServing(p) \/ ThreadEnds(p)
     /\ UNCHANGED <<vars, platform, alone>>

(* A process goes on with what it is doing, unless it has come to an end.  *)
Going(p) ==
  \/ Enforcing(p) /\ Follows
  \/ Serving(p) /\ UNCHANGED <<vars, platform, alone>>

SSpec == SInit /\ [][SNext]_allVars /\ \A p \in Pid : WF_allVars(Going(p))
-----------------------------------------------------------------------------
(* Properties *)

(* "Never delete the socket of a server that answers": one that answers    *)
(* under the path loses it, while it goes on, only to a process that had   *)
(* looked at the path before it answered, or that took the new socket for  *)
(* its own when both started at once.                                      *)
AnsweringServersAreKept ==
  [][\A q \in Pid :
       ipc[q] = "listening" /\ path = born[q] /\ ipc'[q] = "listening" /\ path' # path =>
         \E p \in Pid \ {q} :
           \/ ipc[p] \in {"unlink", "remove"} /\ born[q] \notin saw[p]
           \/ ipc[p] = "remove" /\ mine[p] # born[p]]_allVars

(* "Do not remove the socket of another process when the path was given to *)
(* a new one": a process that ends takes away its own.                     *)
OnlyItsOwnNameRemoved == \A p \in Pid : ipc[p] = "remove" => mine[p] = born[p]

(* A process that has been the only one since it started is never turned   *)
(* away from the path: whatever the crash of an earlier one left there, it *)
(* comes to answer.                                                        *)
OnlyOthersTurnItAway == \A p \in Pid : alone[p] => ipc[p] # "refused"

(* Every start that enforces comes to answer, is turned away, or dies,     *)
(* whatever its targets do and an earlier process with its id left.        *)
AnswersInTheEnd ==
  \A p \in Pid : pc[p] = "enforcing" ~> \/ pc[p] = "down"
                                        \/ ipc[p] \in {"listening", "refused", "left"}
=============================================================================
