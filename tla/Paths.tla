------------------------------- MODULE Paths -------------------------------
(***************************************************************************)
(* The relative paths a DeepFreezer session works on.  The code keeps a    *)
(* path as the key "a/b/c" and walks its prefixes; what every decision     *)
(* depends on is only which paths are ancestors of which.  Path is the set *)
(* of normalised, non-empty keys (what _norm returns), Above[p] the set of *)
(* proper ancestors of p, and Root the empty path [].                      *)
(***************************************************************************)
CONSTANTS Path, Root, Above

ASSUME PathAssumption ==
  /\ Root \notin Path
  /\ Above \in [Path -> SUBSET Path]
  /\ \A p \in Path : p \notin Above[p]
  /\ \A p \in Path : \A q \in Above[p] : Above[q] \subseteq Above[p]
  /\ \A p \in Path : \A q, r \in Above[p] : q = r \/ q \in Above[r] \/ r \in Above[q]

(* A resolution that looks at the path itself only. *)
ChainIsThePath(p) == {p}

(* p and its ancestors: the keys "/".join(parts[:i]) for i in 1..len(parts) *)
Chain(p) == Above[p] \cup {p}

(* Descendants by a comparison that forgets the prefix. *)
BelowAnything(p) == Path \ {p}

(* The paths a key prefix "p/" matches. *)
Below(p) == {q \in Path : p \in Above[q]}

Parent(p) ==
  IF Above[p] = {} THEN Root
  ELSE CHOOSE q \in Above[p] : Above[q] = Above[p] \ {q}

Children(p) == {q \in Path : Parent(q) = p}

(* p, what is above it and what is below it. *)
Line(p) == {q \in Path : q = p \/ q \in Above[p] \/ p \in Above[q]}
=============================================================================
