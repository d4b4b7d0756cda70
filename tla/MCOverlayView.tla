--------------------------- MODULE MCOverlayView ---------------------------
(* Instances of OverlayView: a directory with a file, a chain of three     *)
(* levels and a file at the root.                                          *)
EXTENDS OverlayView

MCPath == {"d", "d/f", "d/s", "d/s/x", "g"}
MCRoot == ""
MCAbove == [p \in MCPath |-> CASE p \in {"d/f", "d/s"} -> {"d"}
                               [] p = "d/s/x"          -> {"d", "d/s"}
                               [] OTHER                -> {}]

MCContent == {"old", "new"}
MCAbsent == "absent"
MCDir == "dir"

(* d/ and d/s/ are directories, d/f and g files, d/s/x is new. *)
MCBase == [p \in MCPath |-> CASE p \in {"d", "d/s"} -> "dir"
                              [] p \in {"d/f", "g"} -> "old"
                              [] OTHER              -> "absent"]
=============================================================================
