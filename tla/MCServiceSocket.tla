-------------------------- MODULE MCServiceSocket --------------------------
(* Two processes at a time, one target. *)
EXTENDS ServiceSocket

CONSTANTS t1, p1, p2

MCTarget == {t1}
MCPid == {p1, p2}
=============================================================================
