---------------------------- MODULE OverlayView ----------------------------
(***************************************************************************)
(* The frozen view of deepfreezer.py: the in-memory table ops (last        *)
(* operation per path, with its sequence number), the resolution of a path *)
(* against baseline and overlay (_classify), the operations write, mkdirs  *)
(* and remove, and the queries exists, is_dir, read, iterdir and diff.     *)
(*                                                                         *)
(* The session reads the baseline in the target directory and never writes *)
(* it; only a commit does (module Commit).  The marker files md/<rel> and  *)
(* del/<rel> are a tree of their own: a marker cannot be put below another *)
(* marker, nor replace a directory that holds markers; the operation then  *)
(* raises and changes nothing.                                             *)
(*                                                                         *)
(* The definitions named after a fault (HasLiveChildShadowedToo and the    *)
(* like) are not part of the model: each is a plausible slip in the        *)
(* definition that follows it, kept to show which property notices.        *)
(***************************************************************************)
EXTENDS Paths, Naturals

CONSTANTS Content, Absent, Dir,
          Base,       \* the tree freeze walked, recorded in the manifest
          MaxSeq      \* bound on the sequence numbers given out

ASSUME NodeAssumption ==
  /\ Absent # Dir
  /\ Absent \notin Content
  /\ Dir \notin Content

Node == Content \cup {Absent, Dir}

ASSUME BaseAssumption ==
  /\ Base \in [Path -> Node]
  /\ \A p \in Path : Base[p] # Absent => \A q \in Above[p] : Base[q] = Dir

ASSUME MaxSeqAssumption == MaxSeq \in Nat

VARIABLES
  ops,      \* ops[p]: (seq, kind, d) of the last operation on p, and the
            \*   content of its payload; seq = 0 when there is none
  seq,      \* _seq
  marker,   \* marker[k]: the paths whose marker file exists, k = "M" (md/) or "D" (del/)
  disk      \* the target directory

vars == <<ops, seq, marker, disk>>

NoOp == [seq |-> 0, kind |-> "none", d |-> FALSE, data |-> Absent]

Op == [seq : Nat, kind : {"W", "M", "D", "none"}, d : BOOLEAN, data : Content \cup {Absent}]

Init ==
  /\ ops = [p \in Path |-> NoOp]
  /\ seq = 0
  /\ marker = [k \in {"M", "D"} |-> {}]
  /\ disk = Base

-----------------------------------------------------------------------------
(* Resolution of a path *)

Has(p) == ops[p].seq > 0

(* The most recent operation on p or on an ancestor of p covers p. *)
Covered(p) == \E q \in Chain(p) : Has(q)

Covers(q, p) ==
  /\ q \in Chain(p)
  /\ Has(q)
  /\ \A r \in Chain(p) : ops[r].seq <= ops[q].seq

Shadowed(q) == \E r \in Above[q] : ops[r].seq > ops[q].seq

HasLiveChildShadowedToo(p) ==
  \E q \in Below(p) :
    /\ ops[q].kind \in {"W", "M"}
    /\ \A r \in Chain(p) : ops[r].seq < ops[q].seq

HasLiveChild(p) ==
  \E q \in Below(p) :
    /\ Has(q)
    /\ ops[q].kind # "D"
    /\ \A r \in Chain(p) : ops[r].seq < ops[q].seq
    /\ ~Shadowed(q)

Classify(p) ==
  IF p = Root THEN "BASE"
  ELSE IF ~Covered(p) THEN IF HasLiveChild(p) THEN "IMPLICIT_DIR" ELSE "BASE"
  ELSE IF Covers(p, p) /\ ops[p].kind = "M" THEN "M_DIR"
  ELSE IF HasLiveChild(p) THEN "IMPLICIT_DIR"
  ELSE IF ~Covers(p, p) THEN "GONE"
  ELSE IF ops[p].kind = "D" THEN "DELETED" ELSE "NEW"

OnDisk(p) == IF p = Root THEN Dir ELSE disk[p]

Exists(p) ==
  \/ Classify(p) \in {"NEW", "M_DIR", "IMPLICIT_DIR"}
  \/ Classify(p) = "BASE" /\ OnDisk(p) # Absent

IsDir(p) ==
  \/ Classify(p) \in {"M_DIR", "IMPLICIT_DIR"}
  \/ Classify(p) = "BASE" /\ OnDisk(p) = Dir

(* What read returns, Absent when it raises FileNotFoundError. *)
Read(p) ==
  IF Classify(p) = "NEW" THEN ops[p].data
  ELSE IF Classify(p) = "BASE" /\ OnDisk(p) \in Content THEN OnDisk(p)
  ELSE Absent

ListingWithoutImplicit(p) ==
  {q \in Children(p) :
     /\ (Classify(p) = "BASE" /\ disk[q] # Absent) \/ Has(q)
     /\ Classify(q) \notin {"GONE", "DELETED"}}

(* iterdir of a path that is a directory of the view. *)
Listing(p) ==
  {q \in Children(p) :
     /\ \/ Classify(p) = "BASE" /\ disk[q] # Absent
        \/ Has(q)
        \/ \E r \in Below(q) : Has(r)
     /\ Classify(q) \notin {"GONE", "DELETED"}}

-----------------------------------------------------------------------------
(* Operations *)

(* _put_payload of a marker: its directories are created, then the file is *)
(* renamed into place.                                                     *)
MarkerFits(k, p) == marker[k] \cap (Above[p] \cup Below(p)) = {}

PutMarker(k, p) ==
  /\ MarkerFits(k, p)
  /\ marker' = [marker EXCEPT ![k] = @ \cup {p}]

Record(p, kind, d, data) ==
  /\ seq < MaxSeq
  /\ seq' = seq + 1
  /\ ops' = [ops EXCEPT ![p] = [seq |-> seq + 1, kind |-> kind, d |-> d, data |-> data]]

WriteUnderSubdirName(p, c) ==
  /\ Record(p, "files", FALSE, c)
  /\ UNCHANGED marker

Write(p, c) ==
  /\ Record(p, "W", FALSE, c)
  /\ UNCHANGED marker

MkdirsOverImplicit(p) ==
  /\ Classify(p) # "M_DIR"
  /\ PutMarker("M", p)
  /\ Record(p, "M", TRUE, Absent)

Mkdirs(p) ==
  /\ Classify(p) \notin {"M_DIR", "IMPLICIT_DIR"}
  /\ ~(Classify(p) = "BASE" /\ disk[p] = Dir)
  /\ PutMarker("M", p)
  /\ Record(p, "M", TRUE, Absent)

Remove(p) ==
  /\ PutMarker("D", p)
  /\ Record(p, "D", IsDir(p), Absent)

ViewStep ==
  \E p \in Path : \/ \E c \in Content : Write(p, c)
                  \/ Mkdirs(p)
                  \/ Remove(p)

Next == ViewStep /\ UNCHANGED disk

Spec == Init /\ [][Next]_vars
-----------------------------------------------------------------------------
(* Properties *)

(* ops holds well-formed records, one per path, and every sequence number  *)
(* in it was given out.                                                    *)
TypeOK ==
  /\ ops \in [Path -> Op]
  /\ seq \in Nat
  /\ marker \in [{"M", "D"} -> SUBSET Path]
  /\ disk \in [Path -> Node]

(* No two operations in the table have the same sequence number and none   *)
(* is ahead of _seq: "the most recent operation" of _classify is unique.   *)
SeqsDistinct ==
  /\ \A p \in Path : ops[p].seq <= seq
  /\ \A p, q \in Path : Has(p) /\ ops[p].seq = ops[q].seq => p = q

(* The view is a tree: whatever exists has only directories above it, for  *)
(* every order of writes, mkdirs and removes of parents and children.      *)
TreeShaped ==
  \A p \in Path : Exists(p) => \A q \in Above[p] : IsDir(q)

(* An operation at p changes what the view shows at p, above it and below  *)
(* it, never on another branch.                                            *)
Shown(p) == <<Exists(p), IsDir(p), Read(p)>>

OnlyItsLineChanges ==
  [][\E p \in Path : /\ ops'[p] # ops[p]
                     /\ \A q \in Path \ Line(p) : Shown(q)' = Shown(q)]_vars

(* What was put at p itself, read off the sequence numbers. *)
NodeOf(p) ==
  IF ~Covered(p) THEN disk[p]
  ELSE IF ~Covers(p, p) THEN Absent
  ELSE IF ops[p].kind = "W" THEN ops[p].data
  ELSE IF ops[p].kind = "M" THEN Dir
  ELSE Absent

VT == INSTANCE VirtualTree WITH node <- [p \in Path |-> NodeOf(p)]

(* write, mkdirs and remove are the operations of the virtual tree. *)
ImplementsVirtualTree == VT!Spec

(* exists, is_dir and read answer what the virtual tree holds. *)
QueriesAgree ==
  \A p \in Path :
    /\ Exists(p) <=> VT!View(p) # Absent
    /\ IsDir(p) <=> VT!View(p) = Dir
    /\ Read(p) = IF VT!View(p) \in Content THEN VT!View(p) ELSE Absent

(* A path the overlay put into the view is listed by its directory. *)
LiveOpsAreListed ==
  \A p \in Path : Classify(p) \in {"NEW", "M_DIR", "IMPLICIT_DIR"} => p \in Listing(Parent(p))
=============================================================================
