---------------------------- MODULE VirtualTree ----------------------------
(***************************************************************************)
(* What a frozen session promises to its caller: a tree that starts as the *)
(* baseline and that write, mkdirs and remove change, with no journal, no  *)
(* sequence numbers and no baseline to consult.                            *)
(*                                                                         *)
(* node[p] is what was last put at p itself.  An operation at p erases     *)
(* everything below p.  A directory nobody created appears above whatever  *)
(* is put below it and disappears with its last descendant, uncovering     *)
(* node[p] again.                                                          *)
(***************************************************************************)
EXTENDS Paths

CONSTANTS Content, Absent, Dir,     \* distinct, as OverlayView assumes
          Base                      \* the frozen tree T

Node == Content \cup {Absent, Dir}

VARIABLE node

Init == node = Base

View(p) == IF \E q \in Below(p) : node[q] # Absent THEN Dir ELSE node[p]

Put(p, n) ==
  node' = [q \in Path |-> IF q = p THEN n
                          ELSE IF p \in Above[q] THEN Absent
                          ELSE node[q]]

Write(p, c) == Put(p, c)

Mkdirs(p) == View(p) # Dir /\ Put(p, Dir)

Remove(p) == Put(p, Absent)

Next ==
  \E p \in Path : \/ \E c \in Content : Write(p, c)
                  \/ Mkdirs(p)
                  \/ Remove(p)

Spec == Init /\ [][Next]_node
=============================================================================
