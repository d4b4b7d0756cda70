-------------------------- MODULE MCOverlayJournal --------------------------
(* Two paths, two contents; keys and contents are interchangeable. *)
EXTENDS OverlayJournal, TLC

CONSTANTS k1, k2, v1, v2

MCKey == {k1, k2}
MCValue == {v1, v2}
MCSymmetry == Permutations(MCKey) \cup Permutations(MCValue)
=============================================================================
