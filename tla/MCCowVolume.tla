---------------------------- MODULE MCCowVolume ----------------------------
(* Two sectors of two bytes each: baseline, overlay and marks take ten of  *)
(* the thirteen addresses, in two orders, and three are the caller's.  *)
EXTENDS CowVolume

MCMemory == [a \in Addr |-> 1 + (a % 2)]

MCMounts ==
  [baseline : {0, 1, 5}, bytes : {0, 3, 4}, sector : {2, 3}, overlay : {1, 5, 9},
   overlayBytes : {3, 4}, map : {9}, mapBytes : {1, 2}, max : {0, 1, 2, 3}]

(* The buffers are inside of the volume or at its end, the offsets and     *)
(* sizes within it, at its end and beyond what a sum of both can hold.     *)
MCCalls ==
  [op : {"read", "write"}, offset : {0, 1, 3, 13}, bytes : {0, 1, 3}, buf : {0, 3, 11}]
=============================================================================
