--------------------------- MODULE MCAdminBroker ---------------------------
(* Two processes of administrators, on Windows of one user, a target and   *)
(* one persistent volume.                                                  *)
EXTENDS AdminBroker, TLC

CONSTANTS a, b, t, d, u

MCPeer == {a, b}
MCAccount == {u}
MCTarget == {t}
MCVolume == {d}
MCSymmetry == Permutations(MCPeer)
=============================================================================
