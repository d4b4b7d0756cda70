---------------------------- MODULE MCOverlayfs ----------------------------
(* The boot unit and an administrator, three boots, one marker. *)
EXTENDS OverlayfsProbe

MCName == {"baseline", "m1"}
MCMarker == {"m1"}
MCContent == {"old", "mark"}
MCLower == [n \in MCName |-> IF n = "baseline" THEN "old" ELSE "absent"]
=============================================================================
