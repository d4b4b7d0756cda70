---------------------------- MODULE MCLifecycle ----------------------------
(* The boot daemon and two other processes. *)
EXTENDS Lifecycle

CONSTANTS daemon, admin, shell

MCProc == {daemon, admin, shell}
=============================================================================
