------------------------- MODULE OverlayView_proofs -------------------------
(***************************************************************************)
(* Proofs about the frozen view, for every set of paths, every baseline    *)
(* and every bound on the sequence numbers: what resolution gives is a     *)
(* tree, its queries are right, and every operation is the operation of    *)
(* VirtualTree on it.  In the second half, the commit: the target stays a  *)
(* tree and gets what the session showed.                                  *)
(***************************************************************************)
EXTENDS Commit, WellFoundedInduction, TLAPS

(* A bounded set of natural numbers that is not empty has a largest one. *)
LEMMA LargestNatural ==
  ASSUME NEW T \in SUBSET Nat, T # {}, NEW b \in Nat, \A t \in T : t <= b
  PROVE  \E m \in T : \A t \in T : t <= m
<1> DEFINE D == {b - t : t \in T}
<1>1. D \subseteq Nat /\ D # {}
  <2>1. \A t \in T : b - t \in Nat
    OBVIOUS
  <2>2. PICK t \in T : TRUE
    OBVIOUS
  <2>3. b - t \in D
    OBVIOUS
  <2> QED BY <2>1, <2>3
<1>2. PICK d \in D : \A e \in D : ~(<<e, d>> \in OpToRel(<, Nat))
  BY <1>1, NatLessThanWellFounded, WFMin, Zenon
<1>3. PICK m \in T : d = b - m
  OBVIOUS
<1>4. ASSUME NEW t \in T PROVE t <= m
  <2>1. b - t \in D /\ d \in Nat /\ b - t \in Nat
    BY <1>1
  <2>2. ~(b - t < d)
    <3>1. ~(<<b - t, d>> \in OpToRel(<, Nat))
      BY <1>2, <2>1
    <3> QED BY <3>1, <2>1 DEF OpToRel
  <2> QED BY <1>3, <2>2
<1> QED BY <1>4

LEMMA RecordTypeOK ==
  ASSUME TypeOK,
         NEW p \in Path, NEW kind \in {"W", "M", "D"}, NEW d \in BOOLEAN,
         NEW data \in Content \cup {Absent},
         Record(p, kind, d, data)
  PROVE  /\ ops' \in [Path -> Op]
         /\ seq' \in Nat
  BY DEF TypeOK, Record, Op

LEMMA RecordSeqsDistinct ==
  ASSUME TypeOK, SeqsDistinct,
         NEW p \in Path, NEW kind \in {"W", "M", "D"}, NEW d \in BOOLEAN,
         NEW data \in Content \cup {Absent},
         Record(p, kind, d, data)
  PROVE  SeqsDistinct'
<1>1. /\ seq' = seq + 1
      /\ ops'[p].seq = seq + 1
      /\ \A q \in Path \ {p} : ops'[q] = ops[q]
  BY DEF Record, TypeOK
<1>2. \A q \in Path : ops[q].seq \in Nat /\ ops[q].seq <= seq
  BY DEF TypeOK, SeqsDistinct, Op
<1>3. \A q \in Path : ops'[q].seq <= seq'
  BY <1>1, <1>2 DEF TypeOK
<1>4. ASSUME NEW q \in Path, NEW r \in Path, ops'[q].seq > 0, ops'[q].seq = ops'[r].seq
      PROVE  q = r
  <2>1. CASE q = p \/ r = p
    BY <2>1, <1>1, <1>2, <1>4 DEF TypeOK
  <2>2. CASE q # p /\ r # p
    BY <2>2, <1>1, <1>4 DEF SeqsDistinct, Has
  <2> QED BY <2>1, <2>2
<1> QED BY <1>3, <1>4 DEF SeqsDistinct, Has

(* Every operation records one of the three kinds. *)
LEMMA ViewStepRecords ==
  ASSUME ViewStep
  PROVE  \E p \in Path, kind \in {"W", "M", "D"}, d \in BOOLEAN, data \in Content \cup {Absent} :
           Record(p, kind, d, data)
<1>1. PICK p \in Path : \/ \E c \in Content : Write(p, c)
                        \/ Mkdirs(p)
                        \/ Remove(p)
  BY DEF ViewStep
<1>2. ASSUME NEW c \in Content, Write(p, c)
      PROVE  Record(p, "W", FALSE, c)
  BY <1>2 DEF Write
<1>3. ASSUME Mkdirs(p)
      PROVE  Record(p, "M", TRUE, Absent)
  BY <1>3 DEF Mkdirs
<1>4. ASSUME Remove(p)
      PROVE  Record(p, "D", IsDir(p), Absent) /\ IsDir(p) \in BOOLEAN
  BY <1>4 DEF Remove, IsDir
<1> QED BY <1>1, <1>2, <1>3, <1>4

LEMMA ViewStepMarkers ==
  ASSUME TypeOK, ViewStep
  PROVE  marker' \in [{"M", "D"} -> SUBSET Path]
  BY DEF TypeOK, ViewStep, Write, Mkdirs, Remove, PutMarker

(* The table ops is well formed in every state of a session. *)
THEOREM TypeCorrect == Spec => []TypeOK
<1>1. Init => TypeOK
  BY BaseAssumption DEF Init, TypeOK, NoOp, Op
<1>2. TypeOK /\ [Next]_vars => TypeOK'
  <2> SUFFICES ASSUME TypeOK, [Next]_vars PROVE TypeOK'
    OBVIOUS
  <2>1. CASE Next
    <3>1. disk' \in [Path -> Node]
      BY <2>1 DEF Next, TypeOK
    <3>2. marker' \in [{"M", "D"} -> SUBSET Path]
      BY <2>1, ViewStepMarkers DEF Next
    <3>3. /\ ops' \in [Path -> Op]
          /\ seq' \in Nat
      BY <2>1, ViewStepRecords, RecordTypeOK DEF Next
    <3> QED BY <3>1, <3>2, <3>3 DEF TypeOK
  <2>2. CASE UNCHANGED vars
    BY <2>2 DEF vars, TypeOK
  <2> QED BY <2>1, <2>2
<1> QED BY <1>1, <1>2, PTL DEF Spec

(* "The most recent operation" of a path and its ancestors is unique: no   *)
(* two entries of ops share a sequence number, and none is ahead of _seq.  *)
THEOREM SeqsAreDistinct == Spec => []SeqsDistinct
<1>1. Init => SeqsDistinct
  BY DEF Init, SeqsDistinct, NoOp, Has
<1>2. TypeOK /\ SeqsDistinct /\ [Next]_vars => SeqsDistinct'
  <2> SUFFICES ASSUME TypeOK, SeqsDistinct, [Next]_vars PROVE SeqsDistinct'
    OBVIOUS
  <2>1. CASE Next
    BY <2>1, ViewStepRecords, RecordSeqsDistinct DEF Next
  <2>2. CASE UNCHANGED vars
    BY <2>2 DEF vars, SeqsDistinct, Has
  <2> QED BY <2>1, <2>2
<1> QED BY <1>1, <1>2, TypeCorrect, PTL DEF Spec
-----------------------------------------------------------------------------
(* The queries against the virtual tree *)

(* An entry of ops that was recorded has one of the three kinds, and a     *)
(* write has a content.                                                    *)
KindsRecorded ==
  \A p \in Path : Has(p) => /\ ops[p].kind \in {"W", "M", "D"}
                            /\ ops[p].kind = "W" => ops[p].data \in Content

(* Whatever the target directory holds has only directories above it. *)
DiskIsATree ==
  \A p \in Path : disk[p] # Absent => \A q \in Above[p] : disk[q] = Dir

(* What resolution relies on. *)
ViewInv == TypeOK /\ SeqsDistinct /\ KindsRecorded /\ DiskIsATree

LEMMA RecordKinds ==
  ASSUME TypeOK, KindsRecorded,
         NEW p \in Path, NEW kind \in {"W", "M", "D"}, NEW d \in BOOLEAN,
         NEW data \in Content \cup {Absent},
         kind = "W" => data \in Content,
         Record(p, kind, d, data)
  PROVE  KindsRecorded'
<1> SUFFICES ASSUME NEW q \in Path, ops'[q].seq > 0
             PROVE  /\ ops'[q].kind \in {"W", "M", "D"}
                    /\ ops'[q].kind = "W" => ops'[q].data \in Content
  BY DEF KindsRecorded, Has
<1>1. CASE q = p
  BY <1>1 DEF TypeOK, Record
<1>2. CASE q # p
  BY <1>2 DEF TypeOK, Record, KindsRecorded, Has
<1> QED BY <1>1, <1>2

LEMMA ViewStepKinds ==
  ASSUME TypeOK, KindsRecorded, ViewStep
  PROVE  KindsRecorded'
<1>1. PICK p \in Path : \/ \E c \in Content : Write(p, c)
                        \/ Mkdirs(p)
                        \/ Remove(p)
  BY DEF ViewStep
<1>2. ASSUME NEW c \in Content, Write(p, c)
      PROVE  KindsRecorded'
  <2>1. Record(p, "W", FALSE, c)
    BY <1>2 DEF Write
  <2> QED BY <2>1, RecordKinds
<1>3. ASSUME Mkdirs(p)
      PROVE  KindsRecorded'
  <2>1. Record(p, "M", TRUE, Absent)
    BY <1>3 DEF Mkdirs
  <2> QED BY <2>1, RecordKinds
<1>4. ASSUME Remove(p)
      PROVE  KindsRecorded'
  <2>1. Record(p, "D", IsDir(p), Absent) /\ IsDir(p) \in BOOLEAN
    BY <1>4 DEF Remove, IsDir
  <2> QED BY <2>1, RecordKinds
<1> QED BY <1>1, <1>2, <1>3, <1>4

LEMMA ViewStepInv ==
  ASSUME ViewInv, ViewStep, UNCHANGED disk
  PROVE  ViewInv'
<1>1. PICK p \in Path, kind \in {"W", "M", "D"}, d \in BOOLEAN, data \in Content \cup {Absent} :
        Record(p, kind, d, data)
  BY ViewStepRecords
<1>2. TypeOK'
  BY <1>1, RecordTypeOK, ViewStepMarkers DEF ViewInv, TypeOK
<1>3. SeqsDistinct'
  BY <1>1, RecordSeqsDistinct DEF ViewInv
<1>4. KindsRecorded'
  BY ViewStepKinds DEF ViewInv
<1>5. DiskIsATree'
  BY DEF ViewInv, DiskIsATree
<1> QED BY <1>2, <1>3, <1>4, <1>5 DEF ViewInv

(* A node that was put and that nothing later covers holds something. *)
LEMMA LiveNodesCover ==
  ASSUME ViewInv, NEW q \in Path, Has(q), ops[q].kind # "D", ~Shadowed(q)
  PROVE  Covers(q, q) /\ NodeOf(q) # Absent
<1>1. Covered(q)
  BY DEF Covered, Chain
<1>2. Covers(q, q)
  <2>1. \A r \in Above[q] : ~(ops[r].seq > ops[q].seq)
    BY DEF Shadowed
  <2>2. \A r \in Chain(q) : r \in Path
    BY PathAssumption DEF Chain
  <2>3. \A r \in Path : ops[r].seq \in Nat
    BY DEF ViewInv, TypeOK, Op
  <2> QED BY <2>1, <2>2, <2>3 DEF Covers, Chain
<1>3. ops[q].kind \in {"W", "M"} /\ (ops[q].kind = "W" => ops[q].data \in Content)
  BY DEF ViewInv, KindsRecorded
<1> QED BY <1>1, <1>2, <1>3, NodeAssumption DEF NodeOf

(* HasLiveChild finds the covered nodes below p that hold something. *)
LEMMA LiveChildHoldsSomething ==
  ASSUME ViewInv, NEW p \in Path
  PROVE  /\ HasLiveChild(p) => \E q \in Below(p) : NodeOf(q) # Absent
         /\ \A q \in Below(p) : Covered(q) /\ NodeOf(q) # Absent => HasLiveChild(p)
         /\ Covered(p) /\ (\E q \in Below(p) : NodeOf(q) # Absent) => HasLiveChild(p)
<1>1. ASSUME HasLiveChild(p)
      PROVE  \E q \in Below(p) : NodeOf(q) # Absent
  <2>1. PICK q \in Below(p) : Has(q) /\ ops[q].kind # "D" /\ ~Shadowed(q)
    BY <1>1 DEF HasLiveChild
  <2> QED BY <2>1, LiveNodesCover DEF Below
<1>2. ASSUME NEW q \in Below(p), NodeOf(q) # Absent, Covered(q)
      PROVE  HasLiveChild(p)
  <2>1. q \in Path /\ p \in Above[q]
    BY DEF Below
  <2>2. Covers(q, q) /\ ops[q].kind # "D"
    BY <1>2 DEF NodeOf
  <2>3. ~Shadowed(q)
    <3>1. \A r \in Above[q] : r \in Path /\ ops[r].seq \in Nat /\ ops[q].seq \in Nat
      BY <2>1, PathAssumption DEF ViewInv, TypeOK, Op
    <3> QED BY <2>2, <3>1 DEF Shadowed, Covers, Chain
  <2>4. ASSUME NEW r \in Chain(p)
        PROVE  ops[r].seq < ops[q].seq
    <3>1. r \in Above[q] /\ r \in Path /\ r # q
      BY <2>1, PathAssumption DEF Chain
    <3>2. ops[r].seq <= ops[q].seq
      BY <2>2, <3>1 DEF Covers, Chain
    <3>3. ops[q].seq > 0
      BY <2>2 DEF Covers, Has
    <3>4. ops[r].seq # ops[q].seq
      BY <2>1, <3>1, <3>3 DEF ViewInv, SeqsDistinct, Has
    <3>5. ops[r].seq \in Nat /\ ops[q].seq \in Nat
      BY <2>1, <3>1 DEF ViewInv, TypeOK, Op
    <3> QED BY <3>2, <3>4, <3>5
  <2> QED BY <2>1, <2>2, <2>3, <2>4 DEF HasLiveChild, Covers
<1>3. ASSUME Covered(p), NEW q \in Below(p) PROVE Covered(q)
  BY <1>3, PathAssumption DEF Covered, Chain, Below
<1> QED BY <1>1, <1>2, <1>3

(* What NodeOf is in each of its cases. *)
LEMMA NodeOfCases ==
  ASSUME ViewInv, NEW p \in Path
  PROVE  /\ ~Covered(p) => NodeOf(p) = disk[p]
         /\ Covered(p) /\ ~Covers(p, p) => NodeOf(p) = Absent
         /\ Covered(p) /\ Covers(p, p) =>
              /\ ops[p].kind \in {"W", "M", "D"}
              /\ ops[p].kind = "W" => NodeOf(p) = ops[p].data /\ ops[p].data \in Content
              /\ ops[p].kind = "M" => NodeOf(p) = Dir
              /\ ops[p].kind = "D" => NodeOf(p) = Absent
<1>1. ~Covered(p) => NodeOf(p) = disk[p]
  BY DEF NodeOf
<1>2. Covered(p) /\ ~Covers(p, p) => NodeOf(p) = Absent
  BY DEF NodeOf
<1>3. ASSUME Covered(p), Covers(p, p)
      PROVE  /\ ops[p].kind \in {"W", "M", "D"}
             /\ ops[p].kind = "W" => ops[p].data \in Content
  BY <1>3 DEF Covers, ViewInv, KindsRecorded
<1>4. ASSUME Covered(p), Covers(p, p)
      PROVE  /\ ops[p].kind = "W" => NodeOf(p) = ops[p].data
             /\ ops[p].kind = "M" => NodeOf(p) = Dir
             /\ ops[p].kind = "D" => NodeOf(p) = Absent
  <2>1. ASSUME ops[p].kind = "W" PROVE NodeOf(p) = ops[p].data
    BY <1>4, <2>1, Zenon DEF NodeOf
  <2>2. ASSUME ops[p].kind = "M" PROVE NodeOf(p) = Dir
    <3>1. "M" # "W" OBVIOUS
    <3> QED BY <1>4, <2>2, <3>1, Zenon DEF NodeOf
  <2>3. ASSUME ops[p].kind = "D" PROVE NodeOf(p) = Absent
    <3>1. "D" # "W" /\ "D" # "M" OBVIOUS
    <3> QED BY <1>4, <2>3, <3>1, Zenon DEF NodeOf
  <2> QED BY <2>1, <2>2, <2>3
<1> QED BY <1>1, <1>2, <1>3, <1>4

LEMMA NodeOfIsANode ==
  ASSUME ViewInv, NEW p \in Path
  PROVE  NodeOf(p) \in Node
<1>1. disk[p] \in Node
  BY DEF ViewInv, TypeOK
<1> QED BY <1>1, NodeOfCases DEF Node

(* What the virtual tree shows at p, from the nodes below p. *)
LEMMA ViewCases ==
  ASSUME NEW p \in Path
  PROVE  /\ (\E q \in Below(p) : NodeOf(q) # Absent) => VT!View(p) = Dir
         /\ ~(\E q \in Below(p) : NodeOf(q) # Absent) => VT!View(p) = NodeOf(p)
  BY DEF VT!View, VT!Below, Below

(* What the queries answer for each outcome of _classify. *)
LEMMA QueryCases ==
  ASSUME NEW p \in Path
  PROVE  /\ Classify(p) = "BASE" => /\ Exists(p) <=> disk[p] # Absent
                                    /\ IsDir(p) <=> disk[p] = Dir
                                    /\ disk[p] \in Content => Read(p) = disk[p]
                                    /\ disk[p] \notin Content => Read(p) = Absent
         /\ Classify(p) = "NEW" => Exists(p) /\ ~IsDir(p) /\ Read(p) = ops[p].data
         /\ Classify(p) \in {"M_DIR", "IMPLICIT_DIR"} => Exists(p) /\ IsDir(p) /\ Read(p) = Absent
         /\ Classify(p) \in {"GONE", "DELETED"} => ~Exists(p) /\ ~IsDir(p) /\ Read(p) = Absent
<1>1. OnDisk(p) = disk[p]
  BY PathAssumption DEF OnDisk
<1>2. /\ Classify(p) = "BASE" => /\ Exists(p) <=> disk[p] # Absent
                                 /\ IsDir(p) <=> disk[p] = Dir
      /\ Classify(p) = "NEW" => Exists(p) /\ ~IsDir(p)
      /\ Classify(p) \in {"M_DIR", "IMPLICIT_DIR"} => Exists(p) /\ IsDir(p)
      /\ Classify(p) \in {"GONE", "DELETED"} => ~Exists(p) /\ ~IsDir(p)
  BY <1>1 DEF Exists, IsDir
<1>3. /\ Classify(p) = "BASE" /\ disk[p] \in Content => Read(p) = disk[p]
      /\ Classify(p) = "BASE" /\ disk[p] \notin Content => Read(p) = Absent
      /\ Classify(p) = "NEW" => Read(p) = ops[p].data
      /\ Classify(p) \in {"M_DIR", "IMPLICIT_DIR", "GONE", "DELETED"} => Read(p) = Absent
  BY <1>1 DEF Read
<1> QED BY <1>2, <1>3

(* Which outcome _classify has. *)
LEMMA ClassifyCases ==
  ASSUME NEW p \in Path
  PROVE  /\ ~Covered(p) /\ ~HasLiveChild(p) => Classify(p) = "BASE"
         /\ ~Covered(p) /\ HasLiveChild(p) => Classify(p) = "IMPLICIT_DIR"
         /\ Covered(p) /\ Covers(p, p) /\ ops[p].kind = "M" => Classify(p) = "M_DIR"
         /\ Covered(p) /\ ~(Covers(p, p) /\ ops[p].kind = "M") /\ HasLiveChild(p)
              => Classify(p) = "IMPLICIT_DIR"
         /\ Covered(p) /\ ~Covers(p, p) /\ ~HasLiveChild(p) => Classify(p) = "GONE"
         /\ Covered(p) /\ Covers(p, p) /\ ops[p].kind = "D" /\ ~HasLiveChild(p)
              => Classify(p) = "DELETED"
         /\ Covered(p) /\ Covers(p, p) /\ ops[p].kind = "W" /\ ~HasLiveChild(p)
              => Classify(p) = "NEW"
<1>1. p # Root
  BY PathAssumption
<1> QED BY <1>1 DEF Classify

(* The queries answer what the virtual tree holds, whatever the disk holds *)
(* as long as it is a tree.                                                *)
LEMMA QueriesAnswerTheTree ==
  ASSUME ViewInv
  PROVE  QueriesAgree
<1> SUFFICES ASSUME NEW p \in Path
             PROVE  /\ Exists(p) <=> VT!View(p) # Absent
                    /\ IsDir(p) <=> VT!View(p) = Dir
                    /\ Read(p) = IF VT!View(p) \in Content THEN VT!View(p) ELSE Absent
  BY DEF QueriesAgree
<1>1. CASE ~Covered(p) /\ ~HasLiveChild(p)
  <2>1. Classify(p) = "BASE"
    BY <1>1, ClassifyCases
  <2>2. VT!View(p) = disk[p]
    <3>1. CASE \E q \in Below(p) : NodeOf(q) # Absent
      <4>1. PICK q \in Below(p) : NodeOf(q) # Absent
        BY <3>1
      <4>2. q \in Path /\ p \in Above[q]
        BY DEF Below
      <4>3. disk[q] # Absent
        BY <1>1, <4>1, <4>2, NodeOfCases, LiveChildHoldsSomething
      <4>4. disk[p] = Dir
        BY <4>2, <4>3 DEF ViewInv, DiskIsATree
      <4> QED BY <3>1, <4>4, ViewCases
    <3>2. CASE ~(\E q \in Below(p) : NodeOf(q) # Absent)
      BY <3>2, <1>1, ViewCases, NodeOfCases
    <3> QED BY <3>1, <3>2
  <2>3. disk[p] \in Node
    BY DEF ViewInv, TypeOK
  <2> QED BY <2>1, <2>2, <2>3, QueryCases, NodeAssumption DEF Node
<1>2. CASE HasLiveChild(p) /\ Classify(p) \in {"M_DIR", "IMPLICIT_DIR"}
  <2>1. VT!View(p) = Dir
    BY <1>2, LiveChildHoldsSomething, ViewCases
  <2> QED BY <2>1, <1>2, QueryCases, NodeAssumption
<1>3. CASE Covered(p) /\ Covers(p, p) /\ ops[p].kind = "M"
  <2>1. VT!View(p) = Dir
    BY <1>3, ViewCases, NodeOfCases
  <2> QED BY <2>1, <1>3, ClassifyCases, QueryCases, NodeAssumption
<1>4. CASE Covered(p) /\ ~HasLiveChild(p) /\ ~(Covers(p, p) /\ ops[p].kind = "M")
  <2>1. VT!View(p) = NodeOf(p)
    BY <1>4, LiveChildHoldsSomething, ViewCases
  <2>2. CASE ~Covers(p, p)
    BY <2>1, <2>2, <1>4, NodeOfCases, ClassifyCases, QueryCases, NodeAssumption
  <2>3. CASE Covers(p, p) /\ ops[p].kind = "D"
    BY <2>1, <2>3, <1>4, NodeOfCases, ClassifyCases, QueryCases, NodeAssumption
  <2>4. CASE Covers(p, p) /\ ops[p].kind = "W"
    <3>1. NodeOf(p) = ops[p].data /\ ops[p].data \in Content
      BY <2>4, <1>4, NodeOfCases
    <3>2. Exists(p) /\ ~IsDir(p) /\ Read(p) = ops[p].data
      BY <2>4, <1>4, ClassifyCases, QueryCases
    <3>3. ops[p].data # Absent /\ ops[p].data # Dir
      BY <3>1, NodeAssumption
    <3> QED BY <2>1, <3>1, <3>2, <3>3
  <2> QED BY <1>4, <2>2, <2>3, <2>4, NodeOfCases
<1> QED BY <1>1, <1>2, <1>3, <1>4, ClassifyCases

(* Above whatever exists there are only directories. *)
LEMMA TreesAreShaped ==
  ASSUME ViewInv
  PROVE  TreeShaped
<1> SUFFICES ASSUME NEW p \in Path, Exists(p), NEW q \in Above[p]
             PROVE  IsDir(q)
  BY DEF TreeShaped
<1>1. q \in Path /\ p \in Below(q)
  BY PathAssumption DEF Below
<1>2. VT!View(p) # Absent
  BY QueriesAnswerTheTree DEF QueriesAgree
<1>3. \E r \in Below(q) : NodeOf(r) # Absent
  <2>1. CASE \E r \in Below(p) : NodeOf(r) # Absent
    <3>1. Below(p) \subseteq Below(q)
      BY PathAssumption DEF Below
    <3> QED BY <2>1, <3>1
  <2>2. CASE ~(\E r \in Below(p) : NodeOf(r) # Absent)
    BY <2>2, <1>1, <1>2, ViewCases
  <2> QED BY <2>1, <2>2
<1>4. VT!View(q) = Dir
  BY <1>1, <1>3, ViewCases
<1> QED BY <1>1, <1>4, QueriesAnswerTheTree DEF QueriesAgree

(* iterdir names what the overlay put into the view. *)
LEMMA LiveOpsListed ==
  ASSUME ViewInv
  PROVE  LiveOpsAreListed
<1> SUFFICES ASSUME NEW p \in Path, Classify(p) \in {"NEW", "M_DIR", "IMPLICIT_DIR"}
             PROVE  p \in Listing(Parent(p))
  BY DEF LiveOpsAreListed
<1>1. p # Root
  BY PathAssumption
<1>2. Has(p) \/ \E r \in Below(p) : Has(r)
  <2>1. CASE HasLiveChild(p)
    BY <2>1 DEF HasLiveChild
  <2>2. CASE ~HasLiveChild(p)
    <3>1. Covers(p, p)
      BY <2>2, <1>1 DEF Classify
    <3> QED BY <3>1 DEF Covers
  <2> QED BY <2>1, <2>2
<1> QED BY <1>2 DEF Listing, Children

-----------------------------------------------------------------------------
(* One operation as a step of the virtual tree *)

(* An operation recorded at p covers p with it, erases what is below p and *)
(* leaves every other path.                                                *)
LEMMA RecordPutsANode ==
  ASSUME ViewInv, NEW p \in Path, NEW kind \in {"W", "M", "D"}, NEW d \in BOOLEAN,
         NEW data \in Content \cup {Absent},
         Record(p, kind, d, data), UNCHANGED disk
  PROVE  /\ kind = "W" => NodeOf(p)' = data
         /\ kind = "M" => NodeOf(p)' = Dir
         /\ kind = "D" => NodeOf(p)' = Absent
         /\ \A q \in Path : p \in Above[q] => NodeOf(q)' = Absent
         /\ \A q \in Path : q # p /\ p \notin Above[q] => NodeOf(q)' = NodeOf(q)
<1>1. /\ ops'[p].seq = seq + 1 /\ ops'[p].kind = kind /\ ops'[p].data = data
      /\ \A q \in Path \ {p} : ops'[q] = ops[q]
      /\ seq \in Nat
  BY DEF Record, ViewInv, TypeOK
<1>2. \A q \in Path : ops[q].seq \in Nat /\ ops[q].seq <= seq
  BY DEF ViewInv, TypeOK, SeqsDistinct, Op
<1>3. \A q \in Path : Chain(q) \subseteq Path
  BY PathAssumption DEF Chain
<1>4. \A q \in Path \ {p} : ops'[q].seq < ops'[p].seq
  BY <1>1, <1>2
<1>5. ops'[p].seq > 0
  BY <1>1
<1>6. Covered(p)' /\ Covers(p, p)'
  <2>1. p \in Chain(p)
    BY DEF Chain
  <2>2. \A r \in Chain(p) : ops'[r].seq <= ops'[p].seq
    BY <1>1, <1>3, <1>4, <1>2
  <2> QED BY <1>5, <2>1, <2>2 DEF Covered, Covers, Has
<1>7. /\ kind = "W" => NodeOf(p)' = data
      /\ kind = "M" => NodeOf(p)' = Dir
      /\ kind = "D" => NodeOf(p)' = Absent
  <2>1. ASSUME kind = "W" PROVE NodeOf(p)' = data
    BY <2>1, <1>6, <1>1, Zenon DEF NodeOf
  <2>2. ASSUME kind = "M" PROVE NodeOf(p)' = Dir
    <3>1. "M" # "W" OBVIOUS
    <3> QED BY <2>2, <3>1, <1>6, <1>1, Zenon DEF NodeOf
  <2>3. ASSUME kind = "D" PROVE NodeOf(p)' = Absent
    <3>1. "D" # "W" /\ "D" # "M" OBVIOUS
    <3> QED BY <2>3, <3>1, <1>6, <1>1, Zenon DEF NodeOf
  <2> QED BY <2>1, <2>2, <2>3
<1>8. ASSUME NEW q \in Path, p \in Above[q]
      PROVE  NodeOf(q)' = Absent
  <2>1. p \in Chain(q) /\ q # p
    BY <1>8, PathAssumption DEF Chain
  <2>2. Covered(q)'
    BY <2>1, <1>5 DEF Covered, Has
  <2>3. ~(ops'[p].seq <= ops'[q].seq)
    BY <2>1, <1>4, <1>1, <1>2
  <2>4. ~Covers(q, q)'
    BY <2>1, <2>3 DEF Covers
  <2> QED BY <2>2, <2>4 DEF NodeOf
<1>9. ASSUME NEW q \in Path, q # p, p \notin Above[q]
      PROVE  NodeOf(q)' = NodeOf(q)
  <2>1. \A r \in Chain(q) : ops'[r] = ops[r]
    BY <1>9, <1>1, <1>3 DEF Chain
  <2>2. q \in Chain(q)
    BY DEF Chain
  <2>3. (Covered(q)' <=> Covered(q)) /\ (Covers(q, q)' <=> Covers(q, q)) /\ ops'[q] = ops[q]
    BY <2>1, <2>2 DEF Covered, Covers, Has
  <2> QED BY <2>3, Zenon DEF NodeOf
<1> QED BY <1>7, <1>8, <1>9

LEMMA StepPutsANode ==
  ASSUME ViewInv, NEW p \in Path, NEW n \in Node, UNCHANGED disk,
         \/ n \in Content /\ Write(p, n)
         \/ n = Dir /\ Mkdirs(p)
         \/ n = Absent /\ Remove(p)
  PROVE  VT!Put(p, n)
<1> DEFINE Erased(q) == IF q = p THEN n ELSE IF p \in Above[q] THEN Absent ELSE NodeOf(q)
<1>1. PICK kind \in {"W", "M", "D"}, d \in BOOLEAN, data \in Content \cup {Absent} :
        /\ Record(p, kind, d, data)
        /\ kind = "W" => n = data
        /\ kind = "M" => n = Dir
        /\ kind = "D" => n = Absent
  <2>1. CASE n \in Content /\ Write(p, n)
    BY <2>1 DEF Write
  <2>2. CASE n = Dir /\ Mkdirs(p)
    BY <2>2 DEF Mkdirs
  <2>3. CASE n = Absent /\ Remove(p)
    <3>1. IsDir(p) \in BOOLEAN /\ Record(p, "D", IsDir(p), Absent)
      BY <2>3 DEF Remove, IsDir
    <3> QED BY <2>3, <3>1
  <2> QED BY <2>1, <2>2, <2>3
<1>2. \A q \in Path : NodeOf(q)' = Erased(q)
  BY <1>1, RecordPutsANode
<1>3. [q \in Path |-> NodeOf(q)'] = [q \in Path |-> Erased(q)]
  BY <1>2
<1>4. ASSUME NEW q \in Path PROVE [r \in Path |-> NodeOf(r)][q] = NodeOf(q)
  OBVIOUS
<1> QED BY <1>3, <1>4 DEF VT!Put

-----------------------------------------------------------------------------
(* The invariant and what follows from it *)

LEMMA InitViewInv == Init => ViewInv
<1> SUFFICES ASSUME Init PROVE ViewInv
  OBVIOUS
<1>1. TypeOK
  BY BaseAssumption DEF Init, TypeOK, NoOp, Op
<1>2. SeqsDistinct /\ KindsRecorded
  BY DEF Init, SeqsDistinct, KindsRecorded, NoOp, Has
<1>3. DiskIsATree
  BY BaseAssumption DEF Init, DiskIsATree
<1> QED BY <1>1, <1>2, <1>3 DEF ViewInv

LEMMA StutterViewInv ==
  ASSUME ViewInv, UNCHANGED vars
  PROVE  ViewInv'
  BY DEF vars, ViewInv, TypeOK, SeqsDistinct, KindsRecorded, DiskIsATree, Has

LEMMA ViewInvariant == Spec => []ViewInv
<1>1. ViewInv /\ [Next]_vars => ViewInv'
  BY ViewStepInv, StutterViewInv DEF Next
<1> QED BY InitViewInv, <1>1, PTL DEF Spec

(* exists, is_dir and read answer what the virtual tree of the session     *)
(* holds: the five cases of _classify, with their sequence numbers, are    *)
(* the tree that the operations describe.                                  *)
THEOREM QueriesAreRight == Spec => []QueriesAgree
  BY ViewInvariant, QueriesAnswerTheTree, PTL

(* Above whatever exists in the view there are only directories, in        *)
(* whatever order parents and children were written, made and removed.     *)
THEOREM TheViewIsATree == Spec => []TreeShaped
  BY ViewInvariant, TreesAreShaped, PTL

(* iterdir lists every path that the overlay shows. *)
THEOREM LiveOpsListedAlways == Spec => []LiveOpsAreListed
  BY ViewInvariant, LiveOpsListed, PTL

LEMMA ViewStepIsATreeStep ==
  ASSUME ViewInv, Next
  PROVE  VT!Next
<1>1. PICK p \in Path : \/ \E c \in Content : Write(p, c)
                        \/ Mkdirs(p)
                        \/ Remove(p)
  BY DEF Next, ViewStep
<1>2. UNCHANGED disk
  BY DEF Next
<1>3. ASSUME NEW c \in Content, Write(p, c)
      PROVE  VT!Write(p, c)
  BY <1>2, <1>3, StepPutsANode DEF VT!Write, Node
<1>4. ASSUME Mkdirs(p)
      PROVE  VT!Mkdirs(p)
  <2>1. VT!Put(p, Dir)
    BY <1>2, <1>4, StepPutsANode DEF Node
  <2>2. ~IsDir(p)
    <3>1. OnDisk(p) = disk[p]
      BY PathAssumption DEF OnDisk
    <3> QED BY <1>4, <3>1 DEF Mkdirs, IsDir
  <2>3. VT!View(p) # Dir
    BY <2>2, QueriesAnswerTheTree DEF QueriesAgree
  <2> QED BY <2>1, <2>3 DEF VT!Mkdirs
<1>5. ASSUME Remove(p)
      PROVE  VT!Remove(p)
  BY <1>2, <1>5, StepPutsANode DEF VT!Remove, Node
<1> QED BY <1>1, <1>3, <1>4, <1>5 DEF VT!Next

(* write, mkdirs and remove, with their sequence numbers and markers, are  *)
(* the operations of the virtual tree.                                     *)
THEOREM ViewImplementsVirtualTree == Spec => ImplementsVirtualTree
<1>1. Init => VT!Init
  <2> SUFFICES ASSUME Init PROVE [p \in Path |-> NodeOf(p)] = Base
    BY DEF VT!Init
  <2>1. ASSUME NEW p \in Path PROVE NodeOf(p) = Base[p]
    <3>1. ~Covered(p)
      BY PathAssumption DEF Init, Covered, Chain, Has, NoOp
    <3> QED BY <3>1 DEF NodeOf, Init
  <2> QED BY <2>1, BaseAssumption
<1>2. ViewInv /\ [Next]_vars => [VT!Next]_([p \in Path |-> NodeOf(p)])
  <2> SUFFICES ASSUME ViewInv, [Next]_vars
               PROVE  [VT!Next]_([p \in Path |-> NodeOf(p)])
    OBVIOUS
  <2>1. CASE Next
    BY <2>1, ViewStepIsATreeStep
  <2>2. CASE UNCHANGED vars
    <3>1. ASSUME NEW p \in Path PROVE NodeOf(p)' = NodeOf(p)
      <4>1. ops' = ops /\ disk' = disk
        BY <2>2 DEF vars
      <4>2. (Covered(p)' <=> Covered(p)) /\ (Covers(p, p)' <=> Covers(p, p))
        BY <4>1 DEF Covered, Covers, Has
      <4> QED BY <4>1, <4>2, Zenon DEF NodeOf
    <3> QED BY <3>1
  <2> QED BY <2>1, <2>2
<1> QED BY <1>1, <1>2, ViewInvariant, PTL DEF Spec, ImplementsVirtualTree, VT!Spec

LEMMA PutStaysOnItsLine ==
  ASSUME NEW p \in Path, NEW n, VT!Put(p, n), NEW q \in Path \ Line(p)
  PROVE  VT!View(q)' = VT!View(q)
<1>1. \A r \in Path : r # p /\ p \notin Above[r] => NodeOf(r)' = NodeOf(r)
  BY DEF VT!Put
<1>2. q # p /\ q \notin Above[p] /\ p \notin Above[q]
  BY DEF Line
<1>3. ASSUME NEW r \in Below(q) PROVE r # p /\ p \notin Above[r] /\ r \in Path
  BY <1>2, PathAssumption DEF Below
<1>4. \A r \in Below(q) \cup {q} : NodeOf(r)' = NodeOf(r)
  BY <1>1, <1>2, <1>3
<1> QED BY <1>4, ViewCases DEF VT!View, VT!Below, Below

(* An operation at p changes what the view shows at p, above it and below  *)
(* it, never on another branch.                                            *)
THEOREM OtherBranchesKeepTheirView == Spec => OnlyItsLineChanges
<1> DEFINE OneLine == \E p \in Path : /\ ops'[p] # ops[p]
                                      /\ \A q \in Path \ Line(p) : Shown(q)' = Shown(q)
<1>1. ViewInv /\ QueriesAgree /\ QueriesAgree' /\ [Next]_vars => [OneLine]_vars
  <2> SUFFICES ASSUME ViewInv, QueriesAgree, QueriesAgree', Next
               PROVE  OneLine
    OBVIOUS
  <2>1. PICK p \in Path, n \in Node : VT!Put(p, n) /\ ops'[p] # ops[p]
    <3>1. PICK p \in Path : \/ \E c \in Content : Write(p, c)
                            \/ Mkdirs(p)
                            \/ Remove(p)
      BY DEF Next, ViewStep
    <3>2. UNCHANGED disk
      BY DEF Next
    <3>3. ops'[p] # ops[p]
      <4>1. ops \in [Path -> Op] /\ ops[p].seq <= seq /\ seq \in Nat
        BY DEF ViewInv, TypeOK, SeqsDistinct
      <4>2. ops'[p].seq = seq + 1 /\ ops[p].seq \in Nat
        BY <3>1, <4>1 DEF Write, Mkdirs, Remove, Record, Op
      <4> QED BY <4>1, <4>2
    <3> QED BY <3>1, <3>2, <3>3, StepPutsANode DEF Node
  <2>2. ASSUME NEW q \in Path \ Line(p)
        PROVE  Shown(q)' = Shown(q)
    <3>1. VT!View(q)' = VT!View(q)
      BY <2>1, PutStaysOnItsLine
    <3>2. (Exists(q)' <=> Exists(q)) /\ (IsDir(q)' <=> IsDir(q)) /\ Read(q)' = Read(q)
      BY <3>1 DEF QueriesAgree
    <3>3. Exists(q)' = Exists(q) /\ IsDir(q)' = IsDir(q)
      BY <3>2 DEF Exists, IsDir
    <3> QED BY <3>2, <3>3 DEF Shown
  <2> QED BY <2>1, <2>2
<1> QED BY <1>1, ViewInvariant, QueriesAreRight, PTL DEF Spec, OnlyItsLineChanges
-----------------------------------------------------------------------------
(* Commit *)

(* Removed paths are never above one another: their markers are files of   *)
(* one tree.                                                               *)
RemovalsApart ==
  /\ \A p \in Path : ops[p].kind = "D" => p \in marker["D"]
  /\ \A p, q \in marker["D"] : q \notin Above[p]

(* What was applied is older than what is still to be applied. *)
AppliedInOrder ==
  /\ \A q \in todo : Has(q)
  /\ \A p \in Path \ todo, q \in todo : ops[p].seq < ops[q].seq

(* What was applied and no later operation covers is in the target. *)
AppliedHolds ==
  \A p \in Path \ todo : Covers(p, p) =>
    /\ ops[p].kind = "W" => disk[p] = ops[p].data
    /\ ops[p].kind = "M" => disk[p] = Dir
    /\ ops[p].kind = "D" /\ ~HasLiveChild(p) => disk[p] = Absent

(* goal is what the resolution of each path gives, and what only the       *)
(* baseline holds stays where it is.                                       *)
GoalIsTheView ==
  \A p \in Path :
    /\ Classify(p) = "NEW" => goal[p] = ops[p].data
    /\ Classify(p) \in {"M_DIR", "IMPLICIT_DIR"} => goal[p] = Dir
    /\ Classify(p) \in {"GONE", "DELETED"} => goal[p] = Absent
    /\ Classify(p) = "BASE" /\ goal[p] # Absent => disk[p] = goal[p]

GoalReached == \A p \in Path : goal[p] # Absent => disk[p] = goal[p]

CommitInv ==
  /\ ViewInv
  /\ RemovalsApart
  /\ todo \subseteq Path
  /\ checked \subseteq Path /\ done \subseteq Path
  /\ RetriesGetAsFar
  /\ phase = "applying" => AppliedInOrder /\ AppliedHolds /\ GoalIsTheView
  /\ phase = "committed" => GoalReached

LEMMA RemovalsStayApart ==
  ASSUME TypeOK, RemovalsApart, ViewStep
  PROVE  RemovalsApart'
<1>1. PICK p \in Path : \/ \E c \in Content : Write(p, c)
                        \/ Mkdirs(p)
                        \/ Remove(p)
  BY DEF ViewStep
<1>2. /\ \A q \in Path \ {p} : ops'[q] = ops[q]
      /\ (\E c \in Content : Write(p, c)) => ops'[p].kind = "W" /\ marker' = marker
      /\ Mkdirs(p) => ops'[p].kind = "M" /\ marker'["D"] = marker["D"]
      /\ Remove(p) => marker'["D"] = marker["D"] \cup {p} /\ MarkerFits("D", p)
  BY <1>1 DEF TypeOK, Write, Mkdirs, Remove, Record, PutMarker
<1>3. marker["D"] \subseteq Path
  BY DEF TypeOK
<1>4. CASE (\E c \in Content : Write(p, c)) \/ Mkdirs(p)
  BY <1>2, <1>4 DEF RemovalsApart
<1>5. CASE Remove(p)
  <2>1. \A q \in Path : ops'[q].kind = "D" => q \in marker'["D"]
    BY <1>2, <1>5 DEF RemovalsApart
  <2>2. \A q, r \in marker'["D"] : r \notin Above[q]
    BY <1>2, <1>3, <1>5, PathAssumption DEF RemovalsApart, MarkerFits, Below
  <2> QED BY <2>1, <2>2 DEF RemovalsApart
<1> QED BY <1>1, <1>4, <1>5

(* One node is put into the target: it stays a tree when what is not       *)
(* absent gets a directory above and what is no directory has nothing      *)
(* below.                                                                  *)
LEMMA OneNodeKeepsTheTree ==
  ASSUME disk \in [Path -> Node], DiskIsATree,
         NEW r \in Path, NEW n \in Node,
         disk' = [disk EXCEPT ![r] = n],
         n # Absent => InDirectory(r),
         n # Dir => disk[r] # Dir \/ IsEmpty(r)
  PROVE  DiskIsATree' /\ disk' \in [Path -> Node]
<1>1. n # Dir => IsEmpty(r)
  BY DEF IsEmpty, Below, DiskIsATree
<1>2. ASSUME NEW p \in Path, disk'[p] # Absent, NEW q \in Above[p]
      PROVE  disk'[q] = Dir
  <2>1. q \in Path /\ q # p
    BY PathAssumption
  <2>2. CASE p = r
    BY <1>2, <2>1, <2>2 DEF InDirectory
  <2>3. CASE p # r
    <3>1. disk[p] # Absent /\ disk[q] = Dir
      BY <1>2, <2>3 DEF DiskIsATree
    <3>2. q = r => n = Dir
      BY <1>1, <3>1 DEF IsEmpty, Below
    <3> QED BY <2>1, <3>1, <3>2
  <2> QED BY <2>2, <2>3
<1> QED BY <1>2 DEF DiskIsATree

(* What one system call of a commit does to the target. *)
ChangesOne(r, n) ==
  /\ disk' = [disk EXCEPT ![r] = n]
  /\ n \in Node
  /\ n # Absent => InDirectory(r)
  /\ n # Dir => disk[r] # Dir \/ IsEmpty(r)

OwnCall(p) ==
  \E n \in Node :
    /\ ChangesOne(p, n)
    /\ ops[p].kind = "W" => n = ops[p].data
    /\ ops[p].kind = "M" => n = Dir
    /\ ops[p].kind = "D" => n = Absent
    /\ todo' = todo \ {p} /\ done' = done \cup {p}

ParentCall(p) ==
  /\ ops[p].kind \in {"W", "M"}
  /\ \E q \in Above[p] : disk[q] = Absent /\ ChangesOne(q, Dir)
  /\ todo' = todo /\ done' = done

EntryCall(p) ==
  /\ ops[p].kind = "D"
  /\ \E q \in Below(p) : ChangesOne(q, Absent)
  /\ todo' = todo /\ done' = done

LEMMA ApplyIsOneCall ==
  ASSUME ViewInv, phase = "applying" => AppliedInOrder, Apply
  PROVE  \E p \in todo \cap Path :
           /\ phase = "applying"
           /\ \A q \in todo : ops[p].seq <= ops[q].seq
           /\ UNCHANGED <<ops, seq, marker, phase, goal, checked>>
           /\ OwnCall(p) \/ ParentCall(p) \/ EntryCall(p)
<1>1. PICK p \in Path :
        \/ ReplaceFile(p)
        \/ MakeDirectory(p)
        \/ NothingToDelete(p)
        \/ Unlink(p)
        \/ RemoveDirectory(p)
        \/ \E q \in Path : MakeParent(p, q) \/ EmptyDirectory(p, q)
  BY DEF Apply
<1>2. /\ p \in todo
      /\ phase = "applying"
      /\ \A q \in todo : ops[p].seq <= ops[q].seq
      /\ UNCHANGED <<ops, seq, marker, phase, goal, checked>>
  BY <1>1 DEF ReplaceFile, MakeDirectory, NothingToDelete, Unlink, RemoveDirectory,
              MakeParent, EmptyDirectory, Applying, Applied, Underway, commitVars
<1>3. disk \in [Path -> Node] /\ disk[p] \in Node
  BY DEF ViewInv, TypeOK
<1>4. ASSUME ReplaceFile(p) PROVE OwnCall(p)
  <2>1. ops[p].kind = "W" /\ InDirectory(p) /\ disk[p] # Dir
        /\ disk' = [disk EXCEPT ![p] = ops[p].data]
        /\ todo' = todo \ {p} /\ done' = done \cup {p}
    BY <1>4 DEF ReplaceFile, Fits, Applying, Applied
  <2>2. ops[p].data \in Content /\ ops[p].data \in Node
    BY <1>2, <2>1 DEF AppliedInOrder, ViewInv, KindsRecorded, Node
  <2>3. ChangesOne(p, ops[p].data)
    BY <2>1, <2>2 DEF ChangesOne, Node
  <2> QED BY <2>1, <2>2, <2>3 DEF OwnCall
<1>5. ASSUME MakeDirectory(p) PROVE OwnCall(p)
  <2>1. ops[p].kind = "M" /\ ChangesOne(p, Dir)
        /\ todo' = todo \ {p} /\ done' = done \cup {p}
    BY <1>5 DEF MakeDirectory, Applying, Applied, ChangesOne, Node
  <2> QED BY <2>1 DEF OwnCall, Node
<1>6. ASSUME NothingToDelete(p) \/ Unlink(p) \/ RemoveDirectory(p) PROVE OwnCall(p)
  <2>1. ops[p].kind = "D" /\ todo' = todo \ {p} /\ done' = done \cup {p}
    BY <1>6 DEF NothingToDelete, Unlink, RemoveDirectory, Applying, Applied
  <2>2. disk' = [disk EXCEPT ![p] = Absent]
    BY <1>3, <1>6 DEF NothingToDelete, Unlink, RemoveDirectory
  <2>3. disk[p] # Dir \/ IsEmpty(p)
    BY <1>6, NodeAssumption DEF NothingToDelete, Unlink, RemoveDirectory
  <2>4. ChangesOne(p, Absent)
    BY <2>2, <2>3 DEF ChangesOne, Node
  <2> QED BY <2>1, <2>4 DEF OwnCall, Node
<1>7. ASSUME NEW q \in Path, MakeParent(p, q) PROVE ParentCall(p)
  <2>1. ChangesOne(q, Dir)
    BY <1>7 DEF MakeParent, ChangesOne, Node
  <2> QED BY <1>7, <2>1 DEF MakeParent, ParentCall, Applying, Underway, commitVars
<1>8. ASSUME NEW q \in Path, EmptyDirectory(p, q) PROVE EntryCall(p)
  <2>1. ChangesOne(q, Absent)
    BY <1>8 DEF EmptyDirectory, ChangesOne, Node
  <2> QED BY <1>8, <2>1 DEF EmptyDirectory, EntryCall, Applying, Underway, commitVars
<1> QED BY <1>1, <1>2, <1>4, <1>5, <1>6, <1>7, <1>8

LEMMA CallKeepsTheTree ==
  ASSUME ViewInv, NEW p \in Path, UNCHANGED <<ops, seq, marker>>,
         OwnCall(p) \/ ParentCall(p) \/ EntryCall(p)
  PROVE  ViewInv'
<1>1. PICK r \in Path, n \in Node : ChangesOne(r, n)
  <2>1. CASE OwnCall(p)
    BY <2>1 DEF OwnCall
  <2>2. CASE ParentCall(p)
    BY <2>2, PathAssumption DEF ParentCall, Node
  <2>3. CASE EntryCall(p)
    BY <2>3 DEF EntryCall, Below, Node
  <2> QED BY <2>1, <2>2, <2>3
<1>2. disk' \in [Path -> Node] /\ DiskIsATree'
  BY <1>1, OneNodeKeepsTheTree DEF ChangesOne, ViewInv, TypeOK
<1> QED BY <1>2 DEF ViewInv, TypeOK, SeqsDistinct, KindsRecorded, Has

(* Something that was created below a removed path later is seen, or is    *)
(* below something that is: nothing between them was removed.              *)
LEMMA CreatedBelowARemoval ==
  ASSUME ViewInv, RemovalsApart,
         NEW q \in Path, Covers(q, q), ops[q].kind = "D",
         NEW p \in Below(q), ops[p].seq > ops[q].seq
  PROVE  HasLiveChild(q)
<1>1. p \in Path /\ q \in Above[p] /\ Chain(p) \subseteq Path
  BY PathAssumption DEF Below, Chain
<1>2. \A r \in Path : ops[r].seq \in Nat /\ ops[r].seq <= seq /\ seq \in Nat
  BY DEF ViewInv, TypeOK, SeqsDistinct, Op
<1>3. PICK c \in Chain(p) : \A r \in Chain(p) : ops[r].seq <= ops[c].seq
  <2> DEFINE T == {ops[r].seq : r \in Chain(p)}
  <2>1. T \in SUBSET Nat /\ T # {} /\ \A t \in T : t <= seq
    BY <1>1, <1>2 DEF Chain
  <2>2. \E m \in T : \A t \in T : t <= m
    BY <2>1, <1>2, LargestNatural
  <2> QED BY <2>2
<1>4. c \in Path /\ ops[c].seq > ops[q].seq
  <2>1. ops[p].seq <= ops[c].seq
    BY <1>3 DEF Chain
  <2> QED BY <2>1, <1>1, <1>2
<1>5. \A r \in Chain(q) : ops[r].seq <= ops[q].seq /\ r \in Path
  BY PathAssumption DEF Covers, Chain
<1>6. q \in Above[c]
  <2>1. c \notin Chain(q)
    BY <1>2, <1>4, <1>5
  <2>2. CASE c = p
    BY <2>2, <1>1
  <2>3. CASE c \in Above[p]
    BY <2>1, <2>3, <1>1, PathAssumption DEF Chain
  <2> QED BY <2>2, <2>3 DEF Chain
<1>7. c \in Below(q) /\ Has(c)
  BY <1>2, <1>4, <1>6 DEF Below, Has
<1>8. ops[c].kind # "D"
  BY <1>4, <1>6 DEF RemovalsApart
<1>9. ASSUME NEW r \in Chain(q)
      PROVE  ops[r].seq < ops[c].seq
  <2>1. ops[r].seq <= ops[q].seq /\ r \in Path
    BY <1>5
  <2> QED BY <2>1, <1>2, <1>4
<1>10. ~Shadowed(c)
  <2>1. Above[c] \subseteq Chain(p)
    BY <1>1, <1>4, PathAssumption DEF Chain
  <2> QED BY <2>1, <1>1, <1>2, <1>3, <1>4 DEF Shadowed
<1> QED BY <1>7, <1>8, <1>9, <1>10 DEF HasLiveChild

(* Only what no operation covers is resolved to the baseline. *)
LEMMA BaseIsNotCovered ==
  ASSUME NEW p \in Path, Classify(p) = "BASE"
  PROVE  ~Covered(p)
<1>1. p # Root
  BY PathAssumption
<1> QED BY <1>1 DEF Classify

(* What was checked and what was applied can be again after one more call, *)
(* which puts a file only where an operation wants one, makes directories  *)
(* only above what is created, and removes.                                *)
LEMMA CallKeepsRetries ==
  ASSUME CommitInv, phase = "applying", NEW p \in todo \cap Path,
         UNCHANGED <<ops, checked>>,
         OwnCall(p) \/ ParentCall(p) \/ EntryCall(p)
  PROVE  RetriesGetAsFar' /\ done' \subseteq Path
<1>1. /\ ops[p].kind \in {"W", "M", "D"}
      /\ ops[p].kind = "W" => ops[p].data \in Content
  BY DEF CommitInv, AppliedInOrder, ViewInv, KindsRecorded
<1>2. disk \in [Path -> Node] /\ checked \subseteq Path /\ done \subseteq Path
  BY DEF CommitInv, ViewInv, TypeOK
<1>3. \A q \in Path : Clash(q)' <=> Clash(q)
  BY DEF Clash
<1>4. \A q \in Path : q # p => (q \in done' <=> q \in done)
  BY DEF OwnCall, ParentCall, EntryCall
<1>5. \A q \in Path : disk'[q] \in Content => disk[q] \in Content \/ (q = p /\ ops[p].kind = "W")
  <2>1. CASE OwnCall(p)
    BY <2>1, <1>1, <1>2, NodeAssumption DEF OwnCall, ChangesOne
  <2>2. CASE ParentCall(p)
    BY <2>2, <1>2, NodeAssumption DEF ParentCall, ChangesOne
  <2>3. CASE EntryCall(p)
    BY <2>3, <1>2, NodeAssumption DEF EntryCall, ChangesOne
  <2> QED BY <2>1, <2>2, <2>3
<1>6. ASSUME NEW q \in checked', ~Clash(q)'
      PROVE  ~FileAbove(q)'
  <2>1. q \in Path /\ ~Clash(q) /\ ~FileAbove(q)
    BY <1>2, <1>3, <1>6 DEF CommitInv, RetriesGetAsFar
  <2>2. Above[q] \subseteq Path
    BY <2>1, PathAssumption
  <2> QED BY <2>1, <2>2, <1>5 DEF FileAbove, Clash
<1>7. done' \subseteq Path
  BY <1>2 DEF OwnCall, ParentCall, EntryCall
<1>8. ASSUME NEW q \in done', ~Clash(q)'
      PROVE  Fits(q)'
  <2>1. q \in Path
    BY <1>8, <1>7
  <2>2. ~Clash(q)
    BY <2>1, <1>3, <1>8
  <2>3. q \in done => Fits(q)
    BY <2>2 DEF CommitInv, RetriesGetAsFar
  <2>4. CASE OwnCall(p)
    <3>1. CASE q = p
      BY <2>4, <3>1, <1>1, <1>2, NodeAssumption DEF OwnCall, ChangesOne, Fits
    <3>2. CASE q # p
      <4>1. disk'[q] = disk[q] /\ q \in done
        BY <2>1, <2>4, <3>2, <1>2, <1>4, <1>8 DEF OwnCall, ChangesOne
      <4> QED BY <4>1, <2>3 DEF Fits
    <3> QED BY <3>1, <3>2
  <2>5. CASE ParentCall(p)
    <3>1. PICK r \in Above[p] : disk' = [disk EXCEPT ![r] = Dir]
      BY <2>5 DEF ParentCall, ChangesOne
    <3>2. q \in done
      BY <2>5, <1>8 DEF ParentCall
    <3>3. CASE q = r
      <4>1. p \in Below(q) /\ ops[p].kind \in {"W", "M"}
        BY <2>5, <3>1, <3>3 DEF Below, ParentCall
      <4>2. ops[q].kind # "W" /\ (ops[q].kind = "D" => ops[q].d)
        BY <4>1, <2>2 DEF Clash
      <4>3. disk'[q] = Dir
        BY <2>1, <3>1, <3>3, <1>2
      <4> QED BY <4>2, <4>3, NodeAssumption DEF Fits
    <3>4. CASE q # r
      <4>1. disk'[q] = disk[q]
        BY <2>1, <3>1, <3>4, <1>2
      <4> QED BY <4>1, <3>2, <2>3 DEF Fits
    <3> QED BY <3>3, <3>4
  <2>6. CASE EntryCall(p)
    <3>1. disk'[q] = disk[q] \/ disk'[q] = Absent
      BY <2>1, <2>6, <1>2 DEF EntryCall, ChangesOne
    <3>2. q \in done
      BY <2>6, <1>8 DEF EntryCall
    <3> QED BY <3>1, <3>2, <2>3, NodeAssumption DEF Fits
  <2> QED BY <2>4, <2>5, <2>6
<1> QED BY <1>6, <1>8, <1>7 DEF RetriesGetAsFar

(* What the session did not change an operation of, above or below, can be *)
(* checked and applied as before.                                          *)
LEMMA SessionKeepsRetries ==
  ASSUME CommitInv, Session
  PROVE  /\ RetriesGetAsFar'
         /\ checked' \subseteq Path /\ done' \subseteq Path
<1>1. /\ checked' = Unchanged(checked) /\ done' = Unchanged(done) /\ disk' = disk
      /\ checked \subseteq Path /\ done \subseteq Path
  BY DEF Session, CommitInv
<1>2. ASSUME NEW p \in Path, \A q \in Line(p) : ops'[q] = ops[q]
      PROVE  /\ Clash(p)' <=> Clash(p)
             /\ FileAbove(p)' <=> FileAbove(p)
             /\ Fits(p)' <=> Fits(p)
  <2>1. /\ ops'[p] = ops[p]
        /\ \A q \in Above[p] : ops'[q] = ops[q]
        /\ \A q \in Below(p) : ops'[q] = ops[q]
    BY <1>2, PathAssumption DEF Line, Below
  <2>2. Clash(p)' <=> Clash(p)
    BY <2>1 DEF Clash
  <2>3. (FileAbove(p)' <=> FileAbove(p)) /\ (Fits(p)' <=> Fits(p))
    BY <2>1, <1>1 DEF FileAbove, Fits
  <2> QED BY <2>2, <2>3
<1>3. \A p \in checked' : p \in checked /\ p \in Path /\ \A q \in Line(p) : ops'[q] = ops[q]
  BY <1>1 DEF Unchanged
<1>4. \A p \in done' : p \in done /\ p \in Path /\ \A q \in Line(p) : ops'[q] = ops[q]
  BY <1>1 DEF Unchanged
<1>5. \A p \in checked' : Clash(p)' \/ ~FileAbove(p)'
  BY <1>2, <1>3 DEF CommitInv, RetriesGetAsFar
<1>6. \A p \in done' : Clash(p)' \/ Fits(p)'
  BY <1>2, <1>4 DEF CommitInv, RetriesGetAsFar
<1> QED BY <1>3, <1>4, <1>5, <1>6 DEF RetriesGetAsFar

(* An attempt begins with paths that pass the check. *)
LEMMA StartKeepsRetries ==
  ASSUME CommitInv, StartCommit
  PROVE  /\ RetriesGetAsFar'
         /\ checked' \subseteq Path /\ done' \subseteq Path
<1>1. /\ UNCHANGED <<ops, disk, done>>
      /\ checked' = checked \cup {p \in Path : Has(p)}
      /\ \A p \in Path : Has(p) => ~FileAbove(p)
  BY DEF StartCommit, vars
<1>2. \A p \in Path : /\ Clash(p)' <=> Clash(p)
                      /\ FileAbove(p)' <=> FileAbove(p)
                      /\ Fits(p)' <=> Fits(p)
  BY <1>1 DEF Clash, FileAbove, Fits
<1> QED BY <1>1, <1>2 DEF CommitInv, RetriesGetAsFar

(* The same operations, target and attempts. *)
LEMMA StutterKeepsRetries ==
  ASSUME CommitInv, UNCHANGED <<ops, disk, checked, done>>
  PROVE  /\ RetriesGetAsFar'
         /\ checked' \subseteq Path /\ done' \subseteq Path
<1>1. \A p \in Path : /\ Clash(p)' <=> Clash(p)
                      /\ FileAbove(p)' <=> FileAbove(p)
                      /\ Fits(p)' <=> Fits(p)
  BY DEF Clash, FileAbove, Fits
<1> QED BY <1>1 DEF CommitInv, RetriesGetAsFar

LEMMA CallKeepsCommitInv ==
  ASSUME CommitInv, Apply
  PROVE  CommitInv'
<1>1. PICK p \in todo \cap Path :
        /\ phase = "applying"
        /\ \A q \in todo : ops[p].seq <= ops[q].seq
        /\ UNCHANGED <<ops, seq, marker, phase, goal, checked>>
        /\ OwnCall(p) \/ ParentCall(p) \/ EntryCall(p)
  BY ApplyIsOneCall DEF CommitInv
<1>2. ViewInv'
  BY <1>1, CallKeepsTheTree DEF CommitInv
<1>3. RemovalsApart'
  BY <1>1 DEF CommitInv, RemovalsApart
<1>4. todo' \subseteq todo /\ (OwnCall(p) => todo' = todo \ {p}) /\ (~OwnCall(p) => todo' = todo)
  BY <1>1 DEF OwnCall, ParentCall, EntryCall
<1>5. /\ AppliedInOrder /\ AppliedHolds /\ GoalIsTheView /\ Has(p)
      /\ todo \subseteq Path
      /\ \A q \in Path : ops[q].seq \in Nat
      /\ disk \in [Path -> Node]
  BY <1>1 DEF CommitInv, AppliedInOrder, ViewInv, TypeOK, Op
<1>6. AppliedInOrder'
  <2>1. \A q \in todo : q # p => ops[p].seq < ops[q].seq
    BY <1>1, <1>5 DEF CommitInv, ViewInv, SeqsDistinct
  <2> QED BY <1>1, <1>4, <1>5, <2>1 DEF AppliedInOrder, Has
<1>7. \A q \in Path : /\ Covers(q, q)' <=> Covers(q, q)
                      /\ HasLiveChild(q)' <=> HasLiveChild(q)
                      /\ Classify(q)' = Classify(q)
  <2>1. \A q \in Path : Covers(q, q)' <=> Covers(q, q)
    BY <1>1 DEF Covers, Has
  <2>2. \A q \in Path : HasLiveChild(q)' <=> HasLiveChild(q)
    BY <1>1 DEF HasLiveChild, Has, Shadowed
  <2>3. \A q \in Path : Covered(q)' <=> Covered(q)
    BY <1>1 DEF Covered, Has
  <2> QED BY <1>1, <2>1, <2>2, <2>3 DEF Classify
<1>8. ASSUME NEW q \in Path \ todo, Covers(q, q), disk'[q] # disk[q]
      PROVE  ops[q].kind = "D" /\ HasLiveChild(q)
  <2>1. ops[q].seq < ops[p].seq /\ q # p
    BY <1>1, <1>5, <1>8 DEF AppliedInOrder
  <2>2. PICK r \in Above[p] : disk[r] = Absent /\ ChangesOne(r, Dir) /\ ParentCall(p)
    <3>1. CASE OwnCall(p)
      BY <3>1, <2>1, <1>5, <1>8 DEF OwnCall, ChangesOne
    <3>2. CASE EntryCall(p)
      <4>1. PICK r \in Below(p) : ChangesOne(r, Absent)
        BY <3>2 DEF EntryCall
      <4>2. q = r /\ p \in Above[q]
        BY <4>1, <1>5, <1>8 DEF ChangesOne, Below
      <4>3. ops[p].seq <= ops[q].seq
        BY <4>2, <1>8 DEF Covers, Chain
      <4> QED BY <4>3, <2>1, <1>5, <1>8
    <3> QED BY <1>1, <3>1, <3>2 DEF ParentCall
  <2>3. q = r
    BY <2>2, <1>5, <1>8, PathAssumption DEF ChangesOne
  <2>4. ops[q].kind \in {"W", "M", "D"} /\ (ops[q].kind = "W" => ops[q].data \in Content)
    BY <1>8 DEF CommitInv, ViewInv, KindsRecorded, Covers
  <2>5. ops[q].kind = "D"
    BY <2>2, <2>3, <2>4, <1>5, <1>8, NodeAssumption DEF AppliedHolds
  <2>6. p \in Below(q)
    BY <2>2, <2>3 DEF Below
  <2> QED BY <2>1, <2>5, <2>6, <1>5, <1>8, CreatedBelowARemoval DEF CommitInv
<1>9. AppliedHolds'
  <2> SUFFICES ASSUME NEW q \in Path \ todo', Covers(q, q)
               PROVE  /\ ops[q].kind = "W" => disk'[q] = ops[q].data
                      /\ ops[q].kind = "M" => disk'[q] = Dir
                      /\ ops[q].kind = "D" /\ ~HasLiveChild(q) => disk'[q] = Absent
    BY <1>1, <1>7 DEF AppliedHolds
  <2>1. CASE q \in todo
    BY <2>1, <1>4, <1>5 DEF OwnCall, ChangesOne
  <2>2. CASE q \notin todo
    BY <2>2, <1>5, <1>8 DEF AppliedHolds
  <2> QED BY <2>1, <2>2
<1>10. GoalIsTheView'
  <2> SUFFICES ASSUME NEW q \in Path, Classify(q) = "BASE", goal[q] # Absent
               PROVE  disk'[q] = disk[q]
    BY <1>1, <1>5, <1>7 DEF GoalIsTheView
  <2>1. ~Covered(q) /\ disk[q] # Absent
    BY <1>5, BaseIsNotCovered DEF GoalIsTheView
  <2>2. q # p /\ p \notin Above[q]
    BY <2>1, <1>5 DEF Covered, Chain
  <2>3. CASE OwnCall(p)
    BY <2>2, <2>3, <1>5 DEF OwnCall, ChangesOne
  <2>4. CASE ParentCall(p)
    BY <2>1, <2>4, <1>5, PathAssumption DEF ParentCall, ChangesOne
  <2>5. CASE EntryCall(p)
    BY <2>2, <2>5, <1>5 DEF EntryCall, ChangesOne, Below
  <2> QED BY <1>1, <2>3, <2>4, <2>5
<1>11. /\ RetriesGetAsFar'
       /\ checked' \subseteq Path /\ done' \subseteq Path
  BY <1>1, CallKeepsRetries DEF CommitInv
<1> QED BY <1>1, <1>2, <1>3, <1>4, <1>5, <1>6, <1>9, <1>10, <1>11 DEF CommitInv

LEMMA StartKeepsCommitInv ==
  ASSUME CommitInv, StartCommit
  PROVE  CommitInv'
<1>1. /\ UNCHANGED vars
      /\ phase' = "applying"
      /\ todo' = {p \in Path : Has(p)}
      /\ goal' = [p \in Path |-> Seen(p)]
  BY DEF StartCommit
<1>2. ViewInv' /\ RemovalsApart'
  BY <1>1, StutterViewInv DEF CommitInv, RemovalsApart, vars
<1>3. \A p \in Path : /\ Covers(p, p)' <=> Covers(p, p)
                      /\ Has(p)' <=> Has(p)
                      /\ Classify(p)' = Classify(p)
  <2>1. ops' = ops
    BY <1>1 DEF vars
  <2> QED BY <2>1 DEF Covers, Has, Classify, Covered, HasLiveChild, Shadowed
<1>4. AppliedInOrder'
  <2>1. \A p \in Path : ops[p].seq \in Nat
    BY DEF CommitInv, ViewInv, TypeOK, Op
  <2> QED BY <2>1, <1>1 DEF AppliedInOrder, Has, vars
<1>5. AppliedHolds'
  BY <1>1, <1>3 DEF AppliedHolds, Covers
<1>6. GoalIsTheView'
  <2> SUFFICES ASSUME NEW p \in Path
               PROVE  /\ Classify(p) = "NEW" => Seen(p) = ops[p].data
                      /\ Classify(p) \in {"M_DIR", "IMPLICIT_DIR"} => Seen(p) = Dir
                      /\ Classify(p) \in {"GONE", "DELETED"} => Seen(p) = Absent
                      /\ Classify(p) = "BASE" => Seen(p) = disk[p]
    BY <1>1, <1>3 DEF GoalIsTheView, vars
  <2>1. disk[p] \in Content \cup {Absent, Dir}
    BY DEF CommitInv, ViewInv, TypeOK, Node
  <2> QED BY <2>1, QueryCases, NodeAssumption DEF Seen
<1> QED BY <1>1, <1>2, <1>4, <1>5, <1>6, StartKeepsRetries DEF CommitInv

LEMMA DropKeepsTheView ==
  ASSUME ViewInv, DropOverlay
  PROVE  /\ ViewInv' /\ RemovalsApart'
         /\ RetriesGetAsFar' /\ checked' = {} /\ done' = {}
<1>1. /\ checked' = {} /\ done' = {}
      /\ ops' = [p \in Path |-> NoOp]
      /\ seq' = 0
      /\ marker' = [k \in {"M", "D"} |-> {}]
      /\ disk' = disk
  BY DEF DropOverlay
<1>2. TypeOK' /\ DiskIsATree'
  BY <1>1 DEF ViewInv, TypeOK, DiskIsATree, NoOp, Op
<1>3. SeqsDistinct' /\ KindsRecorded' /\ RemovalsApart'
  BY <1>1 DEF SeqsDistinct, KindsRecorded, RemovalsApart, NoOp, Has
<1> QED BY <1>1, <1>2, <1>3 DEF ViewInv, RetriesGetAsFar

LEMMA FinishReachesTheGoal ==
  ASSUME ViewInv, AppliedHolds, GoalIsTheView, todo = {}
  PROVE  GoalReached
<1> SUFFICES ASSUME NEW p \in Path, goal[p] # Absent PROVE disk[p] = goal[p]
  BY DEF GoalReached
<1>1. ASSUME NEW q \in Path, Covers(q, q), ops[q].kind \in {"W", "M"}
      PROVE  /\ ops[q].kind = "W" => disk[q] = ops[q].data
             /\ ops[q].kind = "M" => disk[q] = Dir
             /\ disk[q] # Absent
  BY <1>1, NodeAssumption DEF AppliedHolds, ViewInv, KindsRecorded, Covers
<1>2. CASE Classify(p) = "BASE"
  BY <1>2 DEF GoalIsTheView
<1>3. CASE Classify(p) = "NEW"
  <2>1. Covers(p, p) /\ ops[p].kind = "W"
    <3>1. p # Root
      BY PathAssumption
    <3>2. Covers(p, p) /\ ops[p].kind \notin {"M", "D"}
      BY <1>3, <3>1 DEF Classify
    <3> QED BY <3>2 DEF ViewInv, KindsRecorded, Covers
  <2> QED BY <1>1, <1>3, <2>1 DEF GoalIsTheView
<1>4. CASE Classify(p) \in {"M_DIR", "IMPLICIT_DIR"}
  <2>1. CASE HasLiveChild(p)
    <3>1. PICK q \in Below(p) : NodeOf(q) # Absent /\ Covers(q, q)
      <4>1. PICK q \in Below(p) : Has(q) /\ ops[q].kind # "D" /\ ~Shadowed(q)
        BY <2>1 DEF HasLiveChild
      <4>2. Covers(q, q) /\ NodeOf(q) # Absent
        BY <4>1, LiveNodesCover DEF Below
      <4> QED BY <4>2
    <3>2. q \in Path /\ p \in Above[q]
      BY DEF Below
    <3>3. ops[q].kind \in {"W", "M"}
      BY <3>1, <3>2, NodeOfCases DEF Covered, Covers
    <3>4. disk[q] # Absent
      BY <1>1, <3>1, <3>2, <3>3
    <3> QED BY <1>4, <3>2, <3>4 DEF ViewInv, DiskIsATree, GoalIsTheView
  <2>2. CASE ~HasLiveChild(p)
    <3>1. Covers(p, p) /\ ops[p].kind = "M"
      <4>1. p # Root
        BY PathAssumption
      <4> QED BY <1>4, <2>2, <4>1 DEF Classify
    <3> QED BY <1>1, <1>4, <3>1 DEF GoalIsTheView
  <2> QED BY <2>1, <2>2
<1>5. CASE Classify(p) \in {"GONE", "DELETED"}
  BY <1>5 DEF GoalIsTheView
<1> QED BY <1>2, <1>3, <1>4, <1>5 DEF Classify

LEMMA CommitInvariant == CSpec => []CommitInv
<1>1. CInit => CommitInv
  <2> SUFFICES ASSUME CInit PROVE CommitInv
    OBVIOUS
  <2>1. ViewInv
    BY InitViewInv DEF CInit
  <2>2. RemovalsApart
    BY DEF CInit, Init, RemovalsApart, NoOp
  <2> QED BY <2>1, <2>2 DEF CInit, CommitInv, RetriesGetAsFar
<1>2. CommitInv /\ [CNext]_allVars => CommitInv'
  <2> SUFFICES ASSUME CommitInv, [CNext]_allVars PROVE CommitInv'
    OBVIOUS
  <2>1. CASE Session
    <3>1. ViewInv' /\ RemovalsApart'
      BY <2>1, ViewStepInv, RemovalsStayApart DEF Session, CommitInv, ViewInv
    <3> QED BY <2>1, <3>1, SessionKeepsRetries DEF Session, CommitInv
  <2>2. CASE StartCommit
    BY <2>2, StartKeepsCommitInv
  <2>3. CASE Apply
    BY <2>3, CallKeepsCommitInv
  <2>4. CASE CommitAborts
    <3>1. ViewInv' /\ RemovalsApart'
      BY <2>4, StutterViewInv DEF CommitAborts, CommitInv, RemovalsApart, vars
    <3>2. /\ RetriesGetAsFar'
          /\ checked' \subseteq Path /\ done' \subseteq Path
      BY <2>4, StutterKeepsRetries DEF CommitAborts, vars
    <3> QED BY <2>4, <3>1, <3>2 DEF CommitAborts, CommitInv
  <2>5. CASE FinishCommit
    <3>1. /\ ViewInv' /\ RemovalsApart'
          /\ RetriesGetAsFar' /\ checked' = {} /\ done' = {}
      BY <2>5, DropKeepsTheView DEF FinishCommit, CommitInv
    <3>2. GoalReached'
      <4>1. GoalReached
        BY <2>5, FinishReachesTheGoal DEF FinishCommit, CommitInv
      <4> QED BY <2>5, <4>1 DEF FinishCommit, DropOverlay, GoalReached
    <3> QED BY <2>5, <3>1, <3>2 DEF FinishCommit, CommitInv
  <2>6. CASE Discard
    <3>1. /\ ViewInv' /\ RemovalsApart'
          /\ RetriesGetAsFar' /\ checked' = {} /\ done' = {}
      BY <2>6, DropKeepsTheView DEF Discard, CommitInv
    <3> QED BY <2>6, <3>1 DEF Discard, CommitInv
  <2>7. CASE UNCHANGED allVars
    <3>1. UNCHANGED vars /\ UNCHANGED commitVars
      BY <2>7 DEF allVars
    <3>2. ViewInv' /\ RemovalsApart'
      BY <3>1, StutterViewInv DEF CommitInv, RemovalsApart, vars
    <3>3. UNCHANGED <<ops, disk, phase, todo, goal, checked, done>>
      BY <3>1 DEF vars, commitVars
    <3>4. /\ AppliedInOrder => AppliedInOrder'
          /\ AppliedHolds => AppliedHolds'
          /\ GoalIsTheView => GoalIsTheView'
          /\ GoalReached => GoalReached'
      BY <3>3 DEF AppliedInOrder, AppliedHolds, GoalIsTheView, GoalReached, Covers, Has,
                  Classify, Covered, HasLiveChild, Shadowed
    <3>5. /\ RetriesGetAsFar'
          /\ checked' \subseteq Path /\ done' \subseteq Path
      BY <3>3, StutterKeepsRetries
    <3> QED BY <3>2, <3>3, <3>4, <3>5 DEF CommitInv
  <2> QED BY <2>1, <2>2, <2>3, <2>4, <2>5, <2>6, <2>7 DEF CNext
<1> QED BY <1>1, <1>2, PTL DEF CSpec

(* A retry of a commit gets as far as any attempt before it, whatever part *)
(* of the operations the attempts applied before they were cut short, and  *)
(* whatever the session changed on other branches since; not on a line     *)
(* where one path is to be a file and a directory.                         *)
THEOREM CommitsCanBeRetried == CSpec => []RetriesGetAsFar
<1>1. CommitInv => RetriesGetAsFar
  BY DEF CommitInv
<1> QED BY <1>1, CommitInvariant, PTL

(* A commit that was carried through has put the session into the target:  *)
(* a path whose last operation removed it, and that the view does not show *)
(* again, is gone, and each path of the view is there with the content it  *)
(* had when the commit began.  The target may hold more than the view: the *)
(* children a removed directory had, when it was made again, and parents   *)
(* made for something that was removed later.                              *)
THEOREM CommitsLand == CSpec => []CommittedSessionLands
<1>1. CommitInv => CommittedSessionLands
  <2> SUFFICES ASSUME CommitInv PROVE CommittedSessionLands
    OBVIOUS
  <2>1. ASSUME phase = "applying", todo = {}, NEW p \in Path, Classify(p) = "DELETED"
        PROVE  disk[p] = Absent
    <3>1. p # Root
      BY PathAssumption
    <3>2. Covers(p, p) /\ ops[p].kind = "D" /\ ~HasLiveChild(p)
      BY <2>1, <3>1 DEF Classify
    <3> QED BY <2>1, <3>2 DEF CommitInv, AppliedHolds
  <2> QED BY <2>1 DEF CommittedSessionLands, CommitInv, GoalReached
<1> QED BY <1>1, CommitInvariant, PTL

(* Whatever part of a commit was applied, read answers for every path what *)
(* it answered before.                                                     *)
THEOREM CommitsKeepReads == CSpec => CommitKeepsReads
<1> DEFINE Kept == phase = "applying" /\ phase' # "committed"
                     => \A p \in Path : Read(p)' = Read(p)
<1>1. CommitInv /\ [CNext]_allVars => [Kept]_allVars
  <2> SUFFICES ASSUME CommitInv, CNext, phase = "applying", phase' # "committed", NEW p \in Path
               PROVE  Read(p)' = Read(p)
    OBVIOUS
  <2>1. CASE Apply
    <3>1. PICK q \in todo \cap Path :
            /\ UNCHANGED <<ops, seq, marker, phase, goal, checked>>
            /\ OwnCall(q) \/ ParentCall(q) \/ EntryCall(q)
      BY <2>1, ApplyIsOneCall DEF CommitInv
    <3>2. Classify(p)' = Classify(p) /\ ops' = ops
      BY <3>1 DEF Classify, Covered, Covers, Has, HasLiveChild, Shadowed
    <3>3. Has(q) /\ disk \in [Path -> Node]
      BY <3>1 DEF CommitInv, AppliedInOrder, ViewInv, TypeOK
    <3>4. ASSUME Classify(p) = "BASE"
          PROVE  disk'[p] = disk[p] \/ (disk[p] = Absent /\ disk'[p] = Dir)
      <4>1. ~Covered(p)
        BY <3>4, BaseIsNotCovered
      <4>2. p # q /\ q \notin Above[p]
        BY <3>3, <4>1 DEF Covered, Chain
      <4>3. CASE OwnCall(q)
        BY <3>3, <4>2, <4>3 DEF OwnCall, ChangesOne
      <4>4. CASE ParentCall(q)
        BY <3>3, <4>4, PathAssumption DEF ParentCall, ChangesOne
      <4>5. CASE EntryCall(q)
        BY <3>3, <4>2, <4>5 DEF EntryCall, ChangesOne, Below
      <4> QED BY <3>1, <4>3, <4>4, <4>5
    <3>5. OnDisk(p) = disk[p] /\ OnDisk(p)' = disk'[p]
      BY PathAssumption DEF OnDisk
    <3> QED BY <3>2, <3>4, <3>5, NodeAssumption DEF Read
  <2>2. CASE CommitAborts
    <3>1. ops' = ops /\ disk' = disk
      BY <2>2 DEF CommitAborts, vars
    <3> QED BY <3>1 DEF Read, Classify, Covered, Covers, Has, HasLiveChild, Shadowed, OnDisk
  <2> QED BY <2>1, <2>2 DEF CNext, Session, StartCommit, FinishCommit, Discard
<1> QED BY <1>1, CommitInvariant, PTL DEF CSpec, CommitKeepsReads
=============================================================================
