-------------------------- MODULE CowVolume_proofs --------------------------
(***************************************************************************)
(* For any width of size_t, any memory, layout, calls and buffers: the     *)
(* copy-on-write core writes only where it may, reads the bytes of the     *)
(* volume, keeps its count of dirty sectors right and within the limit,    *)
(* and is a flat volume to its caller.                                     *)
(***************************************************************************)
EXTENDS CowVolume, FiniteSetTheorems, TLAPS

(* Division *)

LEMMA DivMod ==
  ASSUME NEW w \in Nat \ {0}, NEW x \in Nat
  PROVE  /\ x \div w \in Nat /\ x % w \in 0 .. w - 1
         /\ x = w * (x \div w) + (x % w)
<1>1. x \div w \in Nat /\ x % w \in 0 .. w - 1
  OBVIOUS
<1>2. x = w * (x \div w) + (x % w)
  OBVIOUS
<1> QED
  BY <1>1, <1>2

LEMMA DivUnique ==
  ASSUME NEW w \in Nat \ {0}, NEW x \in Nat, NEW q \in Nat, w * q <= x, x < w * q + w
  PROVE  x \div w = q
  OBVIOUS

LEMMA DivMonotone ==
  ASSUME NEW w \in Nat \ {0}, NEW x \in Nat, NEW y \in Nat, x <= y
  PROVE  x \div w <= y \div w
  OBVIOUS

(* All bytes up to the end of its sector are in the sector of x.           *)
LEMMA SameSector ==
  ASSUME NEW w \in Nat \ {0}, NEW x \in Nat, NEW y \in Nat, x <= y, y < x + (w - (x % w))
  PROVE  y \div w = x \div w
<1>1. /\ x \div w \in Nat /\ x % w \in 0 .. w - 1
      /\ x = w * (x \div w) + (x % w)
  BY DivMod
<1>2. w * (x \div w) <= y /\ y < w * (x \div w) + w
  <2> DEFINE wq == w * (x \div w)
             m == x % w
  <2>1. wq \in Nat /\ m \in 0 .. w - 1 /\ x = wq + m
    BY <1>1
  <2> HIDE DEF wq, m
  <2>2. wq <= y /\ y < wq + w
    BY <2>1 DEF m
  <2> QED
    BY <2>2 DEF wq
<1> QED
  BY <1>1, <1>2, DivUnique

(* The next byte is the first one of the next sector.                      *)
LEMMA NextSector ==
  ASSUME NEW w \in Nat \ {0}, NEW x \in Nat
  PROVE  (x + (w - (x % w))) \div w = x \div w + 1
<1>1. /\ x \div w \in Nat /\ x % w \in 0 .. w - 1
      /\ x = w * (x \div w) + (x % w)
  BY DivMod
<1> DEFINE q == x \div w
           y == x + (w - (x % w))
<1>2. y = w * q + w /\ y \in Nat
  BY <1>1
<1>3. w * (q + 1) = w * q + w
  BY <1>1
<1>4. w * (q + 1) <= y /\ y < w * (q + 1) + w /\ q + 1 \in Nat
  BY <1>1, <1>2, <1>3
<1> QED
  BY <1>2, <1>4, DivUnique

(* A volume of whole sectors has no byte beyond the last of them.          *)
LEMMA WithinSectors ==
  ASSUME NEW w \in Nat \ {0}, NEW n \in Nat, n % w = 0, NEW x \in Nat, x < n
  PROVE  x \div w < n \div w
  OBVIOUS

(* Addresses *)

LEMMA OffIs ==
  ASSUME NEW a \in Addr, NEW p \in Addr
  PROVE  Off(a, p) = IF p <= a THEN a - p ELSE a - p + Width
<1>1. CASE p <= a
  BY <1>1, WidthAssumption DEF Off, Addr
<1>2. CASE p > a
  BY <1>2, WidthAssumption DEF Off, Addr
<1> QED
  BY <1>1, <1>2, WidthAssumption DEF Addr

LEMMA AtIs ==
  ASSUME NEW p \in Addr, NEW i \in Nat, p + i < Width
  PROVE  At(p, i) = p + i /\ At(p, i) \in Addr
  BY WidthAssumption DEF At, Addr

(* a is one of the n bytes at p. *)
In(a, p, n) == p <= a /\ a < p + n

LEMMA OffIn ==
  ASSUME NEW a \in Addr, NEW p \in Addr, NEW n \in Nat, p + n <= Width
  PROVE  /\ Off(a, p) \in Nat
         /\ Off(a, p) < n <=> In(a, p, n)
         /\ Off(a, p) < n => Off(a, p) = a - p
  BY OffIs, WidthAssumption DEF Addr, In

Apart(p, n, q, k) == p + n <= q \/ q + k <= p

LEMMA NoOverlapIsApart ==
  ASSUME NEW p \in Nat, NEW n \in Nat \ {0}, NEW q \in Nat, NEW k \in Nat \ {0},
         ~RangesOverlap(p, n, q, k)
  PROVE  Apart(p, n, q, k)
  BY DEF RangesOverlap, Apart

LEMMA ApartIn ==
  ASSUME NEW p \in Nat, NEW n \in Nat, NEW q \in Nat, NEW k \in Nat, NEW a \in Nat,
         Apart(p, n, q, k)
  PROVE  ~(In(a, p, n) /\ In(a, q, k))
  BY DEF Apart, In

LEMMA AddrIsNat == Width \in Nat /\ \A a \in Addr : a \in Nat /\ a < Width
  BY WidthAssumption DEF Addr

-----------------------------------------------------------------------------
(* The inductive invariant *)

Types ==
  /\ mem \in [Addr -> Nat]
  /\ volume \in [baseline : Addr, overlay : Addr, map : Addr, bytes : Addr,
                 sector : Nat \ {0}, max : Nat, dirty : Nat]
  /\ call \in [op : {"none", "read", "write"}, offset : Addr, bytes : Addr, buf : Addr,
               position : Nat]
  /\ result \in {"OK", "INVALID", "RANGE", "STATE", "CAPACITY"}

InBaseline(a) == In(a, volume.baseline, volume.bytes)
InOverlay(a) == In(a, volume.overlay, volume.bytes)
InMap(a) == In(a, volume.map, SectorCount)
InBuffer(a) == In(a, call.buf, call.bytes)

(* The three parts of a volume are in the memory and apart, and it has     *)
(* whole sectors.                                                          *)
Mounted ==
  /\ volume.baseline # NULL /\ volume.overlay # NULL /\ volume.map # NULL
  /\ volume.bytes # 0 /\ volume.bytes % volume.sector = 0
  /\ volume.max \in 1 .. SectorCount
  /\ volume.baseline + volume.bytes <= Width
  /\ volume.overlay + volume.bytes <= Width
  /\ volume.map + SectorCount <= Width
  /\ Apart(volume.baseline, volume.bytes, volume.overlay, volume.bytes)
  /\ Apart(volume.baseline, volume.bytes, volume.map, SectorCount)
  /\ Apart(volume.overlay, volume.bytes, volume.map, SectorCount)

Layout == volume = NoVolume \/ Mounted

DirtySectors == {s \in Sectors : IsDirty(s)}

(* A call that was accepted stays within the volume; its buffer is in the  *)
(* memory and none of the volume's.                                        *)
CallInBounds ==
  /\ call.op \in {"read", "write"} /\ result = "OK" /\ Mounted
  /\ call.offset <= call.position /\ call.position <= call.offset + call.bytes
  /\ call.offset + call.bytes <= volume.bytes
  /\ call.bytes > 0 =>
       /\ call.buf + call.bytes <= Width
       /\ Apart(call.buf, call.bytes, volume.baseline, volume.bytes)
       /\ Apart(call.buf, call.bytes, volume.overlay, volume.bytes)
       /\ Apart(call.buf, call.bytes, volume.map, SectorCount)

(* What it has still to do was checked, and what it has done is right.     *)
CallOnItsWay ==
  /\ \A s \in Touched(call.position, Rest) : Mark(s) \in {0, 1}
  /\ call.op = "write" => volume.dirty + Needed(call.position, Rest) <= volume.max
  /\ call.op = "read" =>
       \A i \in call.offset .. call.position - 1 : mem[At(call.buf, i - call.offset)] = Held(i)

CowInv ==
  /\ Types
  /\ Layout
  /\ DirtyWithinCapacity
  /\ call # NoCall => CallInBounds /\ CallOnItsWay

-----------------------------------------------------------------------------
(* Where things are *)

LEMMA VolumeNumbers ==
  ASSUME Types, Mounted
  PROVE  /\ SectorCount \in Nat \ {0}
         /\ Sectors = {s \in Nat : s < SectorCount}
         /\ Index = {i \in Nat : i < volume.bytes}
         /\ \A i \in Index : i \div volume.sector \in Sectors
<1>1. volume.bytes \in Nat \ {0} /\ volume.sector \in Nat \ {0}
  BY WidthAssumption DEF Types, Mounted, Addr
<1>2. SectorCount \in Nat
  BY <1>1, DivMod DEF SectorCount
<1>3. SectorCount # 0
  BY <1>2 DEF Mounted
<1>4. \A i \in Index : i \div volume.sector \in Nat /\ i \div volume.sector < SectorCount
  <2> TAKE i \in Index
  <2>1. i \in Nat /\ i < volume.bytes
    BY <1>1 DEF Index
  <2>2. volume.bytes % volume.sector = 0
    BY DEF Mounted
  <2> QED
    BY <1>1, <2>1, <2>2, DivMod, WithinSectors DEF SectorCount
<1> QED
  BY <1>1, <1>2, <1>3, <1>4 DEF Sectors, Index

LEMMA Places ==
  ASSUME Types, Mounted
  PROVE  /\ \A i \in Index : /\ At(volume.baseline, i) = volume.baseline + i
                             /\ At(volume.baseline, i) \in Addr
                             /\ InBaseline(At(volume.baseline, i))
         /\ \A i \in Index : /\ At(volume.overlay, i) = volume.overlay + i
                             /\ At(volume.overlay, i) \in Addr
                             /\ InOverlay(At(volume.overlay, i))
         /\ \A s \in Sectors : /\ At(volume.map, s) = volume.map + s
                               /\ At(volume.map, s) \in Addr
                               /\ InMap(At(volume.map, s))
<1>1. /\ volume.baseline \in Addr /\ volume.overlay \in Addr /\ volume.map \in Addr
      /\ volume.bytes \in Nat /\ Addr \subseteq Nat
  BY WidthAssumption DEF Types, Addr
<1>2. /\ SectorCount \in Nat \ {0}
      /\ Sectors = {s \in Nat : s < SectorCount}
      /\ Index = {i \in Nat : i < volume.bytes}
  BY VolumeNumbers
<1>3. /\ volume.baseline + volume.bytes <= Width
      /\ volume.overlay + volume.bytes <= Width
      /\ volume.map + SectorCount <= Width
  BY DEF Mounted
<1>4. ASSUME NEW p \in Addr, NEW n \in Nat, NEW i \in Nat, i < n, p + n <= Width
      PROVE  At(p, i) = p + i /\ At(p, i) \in Addr /\ In(At(p, i), p, n)
  <2>1. p + i < Width
    BY <1>1, <1>4, WidthAssumption
  <2>2. At(p, i) = p + i /\ At(p, i) \in Addr
    BY <2>1, AtIs
  <2> QED
    BY <2>2, <1>1, <1>4 DEF In
<1>5. \A i \in Index : i \in Nat /\ i < volume.bytes
  BY <1>2
<1>6. \A s \in Sectors : s \in Nat /\ s < SectorCount
  BY <1>2
<1> QED
  BY <1>1, <1>2, <1>3, <1>4, <1>5, <1>6 DEF InBaseline, InOverlay, InMap

(* An address is in a part of the volume when its offset there is small.   *)
LEMMA Parts ==
  ASSUME Types, Mounted, NEW a \in Addr
  PROVE  /\ Off(a, volume.baseline) \in Nat /\ Off(a, volume.overlay) \in Nat
         /\ Off(a, volume.map) \in Nat
         /\ Off(a, volume.baseline) < volume.bytes <=> InBaseline(a)
         /\ Off(a, volume.overlay) < volume.bytes <=> InOverlay(a)
         /\ Off(a, volume.map) < SectorCount <=> InMap(a)
         /\ InOverlay(a) => Off(a, volume.overlay) = a - volume.overlay
         /\ InBaseline(a) => ~InOverlay(a) /\ ~InMap(a)
         /\ InOverlay(a) => ~InMap(a)
<1>1. /\ volume.baseline \in Addr /\ volume.overlay \in Addr /\ volume.map \in Addr
      /\ volume.baseline \in Nat /\ volume.overlay \in Nat /\ volume.map \in Nat
      /\ volume.bytes \in Nat /\ a \in Nat
  BY AddrIsNat DEF Types
<1>2. SectorCount \in Nat
  BY VolumeNumbers
<1>3. /\ volume.baseline + volume.bytes <= Width
      /\ volume.overlay + volume.bytes <= Width
      /\ volume.map + SectorCount <= Width
  BY DEF Mounted
<1>4. /\ Off(a, volume.baseline) \in Nat
      /\ Off(a, volume.baseline) < volume.bytes <=> InBaseline(a)
  BY <1>1, <1>3, OffIn DEF InBaseline
<1>5. /\ Off(a, volume.overlay) \in Nat
      /\ Off(a, volume.overlay) < volume.bytes <=> InOverlay(a)
      /\ InOverlay(a) => Off(a, volume.overlay) = a - volume.overlay
  BY <1>1, <1>3, OffIn DEF InOverlay
<1>6. /\ Off(a, volume.map) \in Nat
      /\ Off(a, volume.map) < SectorCount <=> InMap(a)
  BY <1>1, <1>2, <1>3, OffIn DEF InMap
<1>7. /\ InBaseline(a) => ~InOverlay(a) /\ ~InMap(a)
      /\ InOverlay(a) => ~InMap(a)
  BY <1>1, <1>2, ApartIn DEF Mounted, InBaseline, InOverlay, InMap
<1> QED
  BY <1>4, <1>5, <1>6, <1>7

LEMMA Buffer ==
  ASSUME Types, CallInBounds, NEW a \in Addr
  PROVE  /\ Off(a, call.buf) \in Nat
         /\ call.bytes > 0 => (Off(a, call.buf) < call.bytes <=> InBuffer(a))
         /\ InBuffer(a) => /\ ~InBaseline(a) /\ ~InOverlay(a) /\ ~InMap(a)
                           /\ Off(a, call.buf) = a - call.buf
<1>1. /\ volume.baseline \in Addr /\ volume.overlay \in Addr /\ volume.map \in Addr
      /\ volume.baseline \in Nat /\ volume.overlay \in Nat /\ volume.map \in Nat
      /\ volume.bytes \in Nat /\ a \in Nat
      /\ call.buf \in Addr /\ call.buf \in Nat /\ call.bytes \in Nat
  BY AddrIsNat DEF Types
<1>2. SectorCount \in Nat
  BY VolumeNumbers DEF CallInBounds
<1>3. Off(a, call.buf) \in Nat
  <2>1. call.buf + 0 <= Width
    BY <1>1, WidthAssumption DEF Addr
  <2> QED
    BY <2>1, <1>1, OffIn
<1>4. CASE call.bytes > 0
  <2>1. call.buf + call.bytes <= Width
    BY <1>4 DEF CallInBounds
  <2>2. /\ Off(a, call.buf) < call.bytes <=> InBuffer(a)
        /\ InBuffer(a) => Off(a, call.buf) = a - call.buf
    BY <2>1, <1>1, OffIn DEF InBuffer
  <2>3. InBuffer(a) => ~InBaseline(a) /\ ~InOverlay(a) /\ ~InMap(a)
    BY <1>1, <1>2, <1>4, ApartIn DEF CallInBounds, InBuffer, InBaseline, InOverlay, InMap
  <2> QED
    BY <1>3, <2>2, <2>3
<1>5. CASE ~(call.bytes > 0)
  BY <1>1, <1>3, <1>5 DEF InBuffer, In, Off
<1> QED
  BY <1>4, <1>5

(* Byte i of a call is in its buffer. *)
LEMMA BufferAt ==
  ASSUME Types, CallInBounds, NEW i \in Nat, call.offset <= i, i < call.offset + call.bytes
  PROVE  /\ At(call.buf, i - call.offset) = call.buf + (i - call.offset)
         /\ At(call.buf, i - call.offset) \in Addr
         /\ InBuffer(At(call.buf, i - call.offset))
         /\ i \in Index
<1>1. /\ volume.bytes \in Nat /\ Width \in Nat
      /\ call.buf \in Addr /\ call.buf \in Nat /\ call.bytes \in Nat /\ call.offset \in Nat
  BY AddrIsNat DEF Types
<1>2. call.buf + call.bytes <= Width /\ call.offset + call.bytes <= volume.bytes
  <2>1. call.bytes > 0
    BY <1>1
  <2> QED
    BY <2>1 DEF CallInBounds
<1>3. i - call.offset \in Nat /\ call.buf + (i - call.offset) < Width
  BY <1>1, <1>2, WidthAssumption
<1>4. /\ At(call.buf, i - call.offset) = call.buf + (i - call.offset)
      /\ At(call.buf, i - call.offset) \in Addr
  BY <1>1, <1>3, AtIs
<1> QED
  BY <1>1, <1>2, <1>4 DEF InBuffer, In, Index

-----------------------------------------------------------------------------
(* The sector a call is at, and those it has still to come to *)

LEMMA NextChunk ==
  ASSUME Types, CallInBounds, Rest > 0
  PROVE  /\ Rest \in Nat /\ Rest <= call.bytes
         /\ Chunk \in Nat \ {0} /\ Chunk <= Rest
         /\ Sector \in Sectors
         /\ \A i \in Nat : InChunk(i) =>
              /\ i \in Index /\ i \div volume.sector = Sector
              /\ call.offset <= i /\ i < call.offset + call.bytes
<1>1. /\ call.position \in Nat /\ call.offset \in Nat /\ call.bytes \in Nat
      /\ volume.bytes \in Nat /\ volume.sector \in Nat \ {0}
  BY AddrIsNat DEF Types
<1>2. /\ call.offset <= call.position /\ call.position <= call.offset + call.bytes
      /\ call.offset + call.bytes <= volume.bytes
  BY DEF CallInBounds
<1>3. Rest \in Nat /\ Rest <= call.bytes
  BY <1>1, <1>2 DEF Rest
<1>4. call.position % volume.sector \in 0 .. volume.sector - 1
  BY <1>1, DivMod
<1>5. /\ Chunk \in Nat \ {0} /\ Chunk <= Rest
      /\ Chunk <= volume.sector - (call.position % volume.sector)
  BY <1>1, <1>3, <1>4 DEF Chunk
<1>6. call.position \in Index
  BY <1>1, <1>2 DEF Index, Rest
<1>7. Sector \in Sectors
  BY <1>6, VolumeNumbers DEF Sector, CallInBounds
<1>8. ASSUME NEW i \in Nat, InChunk(i)
      PROVE  /\ i \in Index /\ i \div volume.sector = Sector
             /\ call.offset <= i /\ i < call.offset + call.bytes
  <2>1. call.position <= i /\ i < call.position + Chunk
    BY <1>8 DEF InChunk
  <2>2. i < call.position + (volume.sector - (call.position % volume.sector))
    <3> DEFINE room == volume.sector - (call.position % volume.sector)
    <3>1. room \in Nat
      BY <1>1, <1>4
    <3>2. Chunk <= room
      BY <1>5
    <3> HIDE DEF room
    <3>3. i < call.position + room
      BY <1>1, <1>5, <2>1, <3>1, <3>2
    <3> QED
      BY <3>3 DEF room
  <2>3. i \div volume.sector = Sector
    BY <1>1, <2>1, <2>2, SameSector DEF Sector
  <2>4. call.offset <= i /\ i < call.offset + call.bytes
    BY <1>1, <1>2, <1>3, <1>5, <2>1 DEF Rest
  <2>5. i \in Index
    BY <1>1, <1>2, <2>4 DEF Index
  <2> QED
    BY <2>3, <2>4, <2>5
<1> QED
  BY <1>3, <1>5, <1>7, <1>8

LEMMA TouchedIsFinite ==
  ASSUME Types, CallInBounds
  PROVE  /\ Rest \in Nat
         /\ Touched(call.position, Rest) \subseteq Sectors
         /\ IsFiniteSet(Sectors)
         /\ Rest > 0 => Sector \in Touched(call.position, Rest)
<1>1. /\ call.position \in Nat /\ call.offset \in Nat /\ call.bytes \in Nat
      /\ volume.bytes \in Nat /\ volume.sector \in Nat \ {0}
  BY AddrIsNat DEF Types
<1>2. /\ call.offset <= call.position /\ call.position <= call.offset + call.bytes
      /\ call.offset + call.bytes <= volume.bytes
  BY DEF CallInBounds
<1>3. Rest \in Nat
  BY <1>1, <1>2 DEF Rest
<1>4. SectorCount \in Nat /\ Sectors = {s \in Nat : s < SectorCount}
  BY VolumeNumbers DEF CallInBounds
<1>5. IsFiniteSet(Sectors)
  BY <1>4, FS_Interval DEF Sectors
<1>6. CASE Rest = 0
  BY <1>3, <1>5, <1>6 DEF Touched
<1>7. CASE Rest # 0
  <2> DEFINE first == call.position \div volume.sector
             last == (call.position + Rest - 1) \div volume.sector
  <2>1. /\ call.position \in Index
        /\ call.position + Rest - 1 \in Index
        /\ call.position + Rest - 1 \in Nat /\ call.position <= call.position + Rest - 1
    BY <1>1, <1>2, <1>3, <1>7 DEF Index, Rest
  <2>2. first \in Sectors /\ last \in Sectors
    BY <2>1, VolumeNumbers DEF CallInBounds
  <2>3. first <= last
    BY <1>1, <2>1, DivMonotone
  <2>4. Touched(call.position, Rest) = first .. last
    BY <1>7 DEF Touched
  <2>5. Sector = first
    BY DEF Sector
  <2> HIDE DEF first, last
  <2>6. Sector \in Touched(call.position, Rest)
    BY <1>4, <2>2, <2>3, <2>4, <2>5
  <2>7. Touched(call.position, Rest) \subseteq Sectors
    BY <1>4, <2>2, <2>4
  <2> QED
    BY <1>3, <1>5, <2>6, <2>7
<1> QED
  BY <1>6, <1>7

(* A step of a call leaves this sector and comes to the others. *)
LEMMA StillTouched ==
  ASSUME Types, CallInBounds, Rest > 0
  PROVE  Touched(call.position + Chunk, Rest - Chunk)
           \subseteq Touched(call.position, Rest) \ {Sector}
<1>1. /\ call.position \in Nat /\ volume.sector \in Nat \ {0} /\ Rest \in Nat
      /\ Chunk \in Nat \ {0} /\ Chunk <= Rest
  BY NextChunk DEF Types
<1>2. CASE Rest - Chunk = 0
  BY <1>2 DEF Touched
<1>3. CASE Rest - Chunk # 0
  <2> DEFINE last == (call.position + Rest - 1) \div volume.sector
  <2>1. Chunk = volume.sector - (call.position % volume.sector)
    BY <1>1, <1>3 DEF Chunk
  <2>2. (call.position + Chunk) \div volume.sector = Sector + 1
    BY <1>1, <2>1, NextSector DEF Sector
  <2>3. call.position + Chunk + (Rest - Chunk) - 1 = call.position + Rest - 1
    BY <1>1
  <2>4. Touched(call.position + Chunk, Rest - Chunk) = Sector + 1 .. last
    BY <1>3, <2>2, <2>3 DEF Touched
  <2>5. Touched(call.position, Rest) = Sector .. last
    BY <1>1, <1>3 DEF Touched, Sector
  <2>6. Sector \in Nat /\ last \in Nat
    <3>1. call.position + Rest - 1 \in Nat
      BY <1>1
    <3> QED
      BY <1>1, <3>1, DivMod DEF Sector
  <2> HIDE DEF last
  <2> QED
    BY <2>4, <2>5, <2>6
<1> QED
  BY <1>2, <1>3

-----------------------------------------------------------------------------
(* What the steps of a call do to the memory *)

SameVolume ==
  /\ volume'.baseline = volume.baseline /\ volume'.overlay = volume.overlay
  /\ volume'.map = volume.map /\ volume'.bytes = volume.bytes
  /\ volume'.sector = volume.sector /\ volume'.max = volume.max

LEMMA SameLayout ==
  ASSUME SameVolume
  PROVE  /\ Mounted' = Mounted /\ Sectors' = Sectors /\ Index' = Index /\ SectorCount' = SectorCount
         /\ \A s : Mark(s)' = mem'[At(volume.map, s)]
         /\ \A i : Held(i)' = IF mem'[At(volume.map, i \div volume.sector)] % 2 = 1
                              THEN mem'[At(volume.overlay, i)]
                              ELSE mem'[At(volume.baseline, i)]
<1>1. SectorCount' = SectorCount
  BY DEF SameVolume, SectorCount
<1>2. Sectors' = Sectors /\ Index' = Index
  BY <1>1 DEF SameVolume, Sectors, Index
<1>3. Mounted' = Mounted
  BY <1>1 DEF SameVolume, Mounted
<1>4. \A s : Mark(s)' = mem'[At(volume.map, s)]
  BY DEF SameVolume, Mark, At
<1>5. \A i : Held(i)' = IF mem'[At(volume.map, i \div volume.sector)] % 2 = 1
                        THEN mem'[At(volume.overlay, i)]
                        ELSE mem'[At(volume.baseline, i)]
  BY DEF SameVolume, Held, IsDirty, Mark, At
<1> QED
  BY <1>1, <1>2, <1>3, <1>4, <1>5

(* As long as nobody writes to a volume, it holds the same bytes. *)
LEMMA VolumeKept ==
  ASSUME Types, Mounted, SameVolume,
         \A a \in Addr : InBaseline(a) \/ InOverlay(a) \/ InMap(a) => mem'[a] = mem[a]
  PROVE  /\ \A s \in Sectors : Mark(s)' = Mark(s)
         /\ \A i \in Index : Held(i)' = Held(i)
         /\ \A i \in Index : mem'[At(volume.baseline, i)] = mem[At(volume.baseline, i)]
<1>1. \A s \in Sectors : Mark(s)' = Mark(s)
  BY Places, SameLayout DEF Mark
<1>2. \A i \in Index : /\ mem'[At(volume.baseline, i)] = mem[At(volume.baseline, i)]
                       /\ mem'[At(volume.overlay, i)] = mem[At(volume.overlay, i)]
  BY Places
<1>3. \A i \in Index : Held(i)' = Held(i)
  <2> TAKE i \in Index
  <2>1. i \div volume.sector \in Sectors
    BY VolumeNumbers
  <2>2. mem'[At(volume.map, i \div volume.sector)] = mem[At(volume.map, i \div volume.sector)]
    BY <2>1, Places
  <2> QED
    BY <1>2, <2>2, SameLayout DEF Held, IsDirty, Mark
<1> QED
  BY <1>1, <1>2, <1>3

LEMMA ReadEffect ==
  ASSUME Types, CallInBounds, CallOnItsWay, ReadSector
  PROVE  /\ mem' \in [Addr -> Nat]
         /\ \A a \in Addr : ~InBuffer(a) => mem'[a] = mem[a]
         /\ \A i \in call.offset .. call.position + Chunk - 1 :
              mem'[At(call.buf, i - call.offset)] = Held(i)
<1>0. call.op = "read" /\ Rest > 0
  BY DEF ReadSector
<1>1. /\ call.position \in Nat /\ call.offset \in Nat /\ call.bytes \in Nat /\ Rest \in Nat
      /\ call.buf \in Nat /\ Chunk \in Nat \ {0} /\ Chunk <= Rest /\ call.bytes > 0
  BY <1>0, NextChunk, AddrIsNat DEF Types
<1>2. call.offset <= call.position /\ Mounted
  BY DEF CallInBounds
<1>3. /\ Sector \in Sectors
      /\ \A i \in Nat : InChunk(i) =>
              /\ i \in Index /\ i \div volume.sector = Sector
              /\ call.offset <= i /\ i < call.offset + call.bytes
  BY <1>0, NextChunk
<1>4. Mark(Sector) \in {0, 1}
  BY <1>0, TouchedIsFinite DEF CallOnItsWay
<1>5. \A i \in Nat : InChunk(i) =>
        /\ mem[At(Source(Sector), i)] = Held(i)
        /\ At(Source(Sector), i) \in Addr
  <2> SUFFICES ASSUME NEW i \in Nat, InChunk(i)
               PROVE  /\ mem[At(Source(Sector), i)] = Held(i)
                      /\ At(Source(Sector), i) \in Addr
    OBVIOUS
  <2>1. At(volume.baseline, i) \in Addr /\ At(volume.overlay, i) \in Addr
    BY <1>2, <1>3, Places
  <2>2. IsDirty(Sector) <=> Mark(Sector) # 0
    BY <1>4 DEF IsDirty
  <2> QED
    BY <1>3, <2>1, <2>2 DEF Source, Held
<1>6. mem' = [a \in Addr |-> LET i == call.offset + Off(a, call.buf) IN
                 IF InChunk(i) THEN mem[At(Source(Sector), i)] ELSE mem[a]]
  BY DEF ReadSector
<1>7. \A a \in Addr : Off(a, call.buf) \in Nat /\ call.offset + Off(a, call.buf) \in Nat
  BY <1>1, Buffer
<1>8. mem' \in [Addr -> Nat]
  BY <1>5, <1>6, <1>7 DEF Types
<1>9. ASSUME NEW a \in Addr, ~InBuffer(a)
      PROVE  mem'[a] = mem[a]
  <2>1. Off(a, call.buf) \in Nat /\ ~(Off(a, call.buf) < call.bytes)
    BY <1>1, <1>9, Buffer
  <2>2. ~InChunk(call.offset + Off(a, call.buf))
    BY <1>1, <1>3, <1>7, <2>1
  <2> QED
    BY <1>6, <2>2
<1>10. ASSUME NEW i \in call.offset .. call.position + Chunk - 1
       PROVE  mem'[At(call.buf, i - call.offset)] = Held(i)
  <2> DEFINE a == At(call.buf, i - call.offset)
  <2>1. i \in Nat /\ call.offset <= i /\ i < call.offset + call.bytes
    BY <1>1 DEF Rest
  <2>2. a = call.buf + (i - call.offset) /\ a \in Addr /\ InBuffer(a)
    BY <2>1, BufferAt
  <2>3. Off(a, call.buf) = a - call.buf
    BY <2>2, Buffer
  <2>4. call.offset + Off(a, call.buf) = i
    BY <1>1, <2>1, <2>2, <2>3
  <2>5. mem'[a] = IF InChunk(i) THEN mem[At(Source(Sector), i)] ELSE mem[a]
    BY <1>6, <2>2, <2>4
  <2>6. CASE InChunk(i)
    BY <1>5, <2>1, <2>5, <2>6
  <2>7. CASE ~InChunk(i)
    <3>1. i \in call.offset .. call.position - 1
      BY <1>1, <2>1, <2>7 DEF InChunk
    <3> QED
      BY <1>0, <2>5, <2>7, <3>1 DEF CallOnItsWay
  <2> QED
    BY <2>6, <2>7
<1> QED
  BY <1>8, <1>9, <1>10

LEMMA WriteEffect ==
  ASSUME Types, CallInBounds, CallOnItsWay, WriteSector
  PROVE  /\ mem' \in [Addr -> Nat]
         /\ \A a \in Addr : mem'[a] # mem[a] => InOverlay(a) \/ InMap(a)
         /\ \A s \in Sectors :
              mem'[At(volume.map, s)] = IF s = Sector THEN 1 ELSE mem[At(volume.map, s)]
         /\ \A i \in Index :
              mem'[At(volume.overlay, i)] =
                IF InChunk(i) THEN mem[At(call.buf, i - call.offset)]
                ELSE IF Mark(Sector) = 0 /\ i \div volume.sector = Sector
                     THEN mem[At(volume.baseline, i)]
                     ELSE mem[At(volume.overlay, i)]
<1>0. call.op = "write" /\ Rest > 0
  BY DEF WriteSector
<1>1. /\ call.position \in Nat /\ volume.bytes \in Nat /\ volume.overlay \in Nat
      /\ Chunk \in Nat \ {0}
  BY <1>0, NextChunk, AddrIsNat DEF Types
<1>2. Mounted
  BY DEF CallInBounds
<1>3. /\ Sector \in Sectors
      /\ \A i \in Nat : InChunk(i) =>
              /\ i \in Index /\ i \div volume.sector = Sector
              /\ call.offset <= i /\ i < call.offset + call.bytes
  BY <1>0, NextChunk
<1>4. Mark(Sector) \in {0, 1}
  BY <1>0, TouchedIsFinite DEF CallOnItsWay
<1> DEFINE first == Mark(Sector) = 0
           New(a, i) ==
             IF InChunk(i) THEN mem[At(call.buf, i - call.offset)]
             ELSE IF first /\ i < volume.bytes /\ i \div volume.sector = Sector
                  THEN mem[At(volume.baseline, i)]
             ELSE IF first /\ a = At(volume.map, Sector) THEN 1
             ELSE mem[a]
<1>5. mem' = [a \in Addr |-> New(a, Off(a, volume.overlay))]
  BY DEF WriteSector
<1>6. At(volume.map, Sector) \in Addr /\ InMap(At(volume.map, Sector))
  BY <1>2, <1>3, Places
<1>7. ASSUME NEW a \in Addr, ~InOverlay(a)
      PROVE  mem'[a] = IF first /\ a = At(volume.map, Sector) THEN 1 ELSE mem[a]
  <2>1. Off(a, volume.overlay) \in Nat /\ ~(Off(a, volume.overlay) < volume.bytes)
    BY <1>2, <1>7, Parts
  <2>2. ~InChunk(Off(a, volume.overlay))
    BY <1>1, <1>3, <2>1 DEF Index
  <2>3. New(a, Off(a, volume.overlay)) =
          IF first /\ a = At(volume.map, Sector) THEN 1 ELSE mem[a]
    BY <2>1, <2>2
  <2> QED
    BY <1>5, <2>3
<1>8. ASSUME NEW i \in Index
      PROVE  mem'[At(volume.overlay, i)] =
                IF InChunk(i) THEN mem[At(call.buf, i - call.offset)]
                ELSE IF Mark(Sector) = 0 /\ i \div volume.sector = Sector
                     THEN mem[At(volume.baseline, i)]
                     ELSE mem[At(volume.overlay, i)]
  <2> DEFINE a == At(volume.overlay, i)
  <2>1. i \in Nat /\ i < volume.bytes
    BY <1>2, VolumeNumbers
  <2>2. a = volume.overlay + i /\ a \in Addr /\ InOverlay(a)
    BY <1>2, Places
  <2>3. Off(a, volume.overlay) = a - volume.overlay /\ ~InMap(a)
    BY <1>2, <2>2, Parts
  <2>4. Off(a, volume.overlay) = i
    BY <1>1, <2>1, <2>2, <2>3
  <2>5. a # At(volume.map, Sector)
    BY <1>6, <2>3
  <2>6. mem'[a] = New(a, i)
    BY <1>5, <2>2, <2>4
  <2> HIDE DEF a
  <2>7. New(a, i) = IF InChunk(i) THEN mem[At(call.buf, i - call.offset)]
                    ELSE IF first /\ i \div volume.sector = Sector
                         THEN mem[At(volume.baseline, i)]
                         ELSE mem[a]
    BY <2>1, <2>5
  <2> QED
    BY <2>6, <2>7 DEF a
<1>9. ASSUME NEW s \in Sectors
      PROVE  mem'[At(volume.map, s)] = IF s = Sector THEN 1 ELSE mem[At(volume.map, s)]
  <2>1. /\ At(volume.map, s) = volume.map + s /\ At(volume.map, Sector) = volume.map + Sector
        /\ At(volume.map, s) \in Addr /\ InMap(At(volume.map, s))
    BY <1>2, <1>3, Places
  <2>2. At(volume.map, s) = At(volume.map, Sector) <=> s = Sector
    <3>1. s \in Nat /\ Sector \in Nat /\ volume.map \in Nat
      BY <1>2, <1>3, VolumeNumbers, AddrIsNat DEF Types
    <3> QED
      BY <2>1, <3>1
  <2>3. ~InOverlay(At(volume.map, s))
    BY <1>2, <2>1, Parts
  <2>4. ~first => mem[At(volume.map, Sector)] = 1
    BY <1>4 DEF Mark
  <2> QED
    BY <1>7, <2>1, <2>2, <2>3, <2>4
<1>10. ASSUME NEW a \in Addr, mem'[a] # mem[a]
       PROVE  InOverlay(a) \/ InMap(a)
  BY <1>6, <1>7, <1>10
<1>11. mem' \in [Addr -> Nat]
  <2> SUFFICES ASSUME NEW a \in Addr PROVE New(a, Off(a, volume.overlay)) \in Nat
    BY <1>5
  <2> DEFINE i == Off(a, volume.overlay)
  <2>1. i \in Nat
    BY <1>2, Parts
  <2>2. InChunk(i) => At(call.buf, i - call.offset) \in Addr
    BY <1>3, <2>1, BufferAt
  <2>3. i < volume.bytes => At(volume.baseline, i) \in Addr
    BY <1>2, <2>1, VolumeNumbers, Places
  <2>4. \A b \in Addr : mem[b] \in Nat
    BY DEF Types
  <2> HIDE DEF i
  <2>5. New(a, i) \in Nat
    BY <2>1, <2>2, <2>3, <2>4
  <2> QED
    BY <2>5 DEF i
<1> QED
  BY <1>8, <1>9, <1>10, <1>11

-----------------------------------------------------------------------------
(* The count of dirty sectors *)

LEMMA SectorsDirtied ==
  /\ DirtyWithinCapacity <=> volume.dirty = Cardinality(DirtySectors) /\ volume.dirty <= volume.max
  /\ DirtyWithinCapacity' <=>
       volume'.dirty = Cardinality(DirtySectors') /\ volume'.dirty <= volume'.max
  BY DEF DirtyWithinCapacity, DirtySectors

LEMMA SameSectorsDirty ==
  ASSUME SameVolume, volume'.dirty = volume.dirty,
         \A s \in Sectors : Mark(s)' % 2 = Mark(s) % 2
  PROVE  DirtyWithinCapacity => DirtyWithinCapacity'
<1>1. DirtySectors' = DirtySectors
  <2>1. Sectors' = Sectors
    BY SameLayout
  <2> QED
    BY <2>1 DEF DirtySectors, IsDirty
<1> QED
  BY <1>1, SectorsDirtied DEF SameVolume

(* Overlay and marks are zero after a mount and after a discard. *)
LEMMA Blank ==
  Types /\ Mounted /\ volume.dirty = 0 /\ (\A a \in Addr : InOverlay(a) \/ InMap(a) => mem[a] = 0)
  => /\ \A s \in Sectors : Mark(s) = 0
     /\ \A i \in Index : Held(i) = mem[At(volume.baseline, i)]
     /\ DirtyWithinCapacity
<1> SUFFICES ASSUME Types, Mounted, volume.dirty = 0,
                    \A a \in Addr : InOverlay(a) \/ InMap(a) => mem[a] = 0
             PROVE  /\ \A s \in Sectors : Mark(s) = 0
                    /\ \A i \in Index : Held(i) = mem[At(volume.baseline, i)]
                    /\ DirtyWithinCapacity
  OBVIOUS
<1>1. \A s \in Sectors : Mark(s) = 0
  BY Places DEF Mark
<1>2. \A s \in Sectors : ~IsDirty(s)
  BY <1>1 DEF IsDirty
<1>3. \A i \in Index : Held(i) = mem[At(volume.baseline, i)]
  BY <1>2, VolumeNumbers DEF Held
<1>4. Cardinality(DirtySectors) = 0
  <2>1. DirtySectors = {}
    BY <1>2 DEF DirtySectors
  <2> QED
    BY <2>1, FS_EmptySet
<1>5. volume.max \in 1 .. SectorCount /\ SectorCount \in Nat
  BY VolumeNumbers DEF Mounted
<1>6. DirtyWithinCapacity
  BY <1>4, <1>5, SectorsDirtied
<1> QED
  BY <1>1, <1>3, <1>6

LEMMA BlankNext ==
  ASSUME Types', Mounted', volume'.dirty = 0,
         (\A a \in Addr : InOverlay(a) \/ InMap(a) => mem[a] = 0)'
  PROVE  /\ (\A i \in Index : Held(i) = mem[At(volume.baseline, i)])'
         /\ DirtyWithinCapacity'
<1>1. (Types /\ Mounted /\ volume.dirty = 0 /\ (\A a \in Addr : InOverlay(a) \/ InMap(a) => mem[a] = 0)
       => /\ \A s \in Sectors : Mark(s) = 0
          /\ \A i \in Index : Held(i) = mem[At(volume.baseline, i)]
          /\ DirtyWithinCapacity)'
  BY Blank, PTL
<1> QED
  BY <1>1

LEMMA OneMoreDirty ==
  ASSUME Types, DirtyWithinCapacity, CallInBounds, CallOnItsWay, WriteSector
  PROVE  /\ DirtyWithinCapacity'
         /\ \A s \in Sectors : Mark(s)' = IF s = Sector THEN 1 ELSE Mark(s)
         /\ volume'.dirty + Cardinality({s \in Touched(call.position, Rest) \ {Sector} : Mark(s)' = 0})
              <= volume.max
<1>0. call.op = "write" /\ Rest > 0
  BY DEF WriteSector
<1>1. SameVolume /\ volume'.dirty = IF Mark(Sector) = 0 THEN volume.dirty + 1 ELSE volume.dirty
  BY DEF WriteSector, SameVolume, Types
<1>2. \A s \in Sectors : Mark(s)' = IF s = Sector THEN 1 ELSE Mark(s)
  BY <1>1, WriteEffect, SameLayout DEF Mark
<1>3. /\ Sector \in Sectors /\ Sectors' = Sectors
      /\ IsFiniteSet(Sectors)
      /\ Touched(call.position, Rest) \subseteq Sectors
      /\ Sector \in Touched(call.position, Rest)
  BY <1>0, <1>1, NextChunk, TouchedIsFinite, SameLayout
<1>4. Mark(Sector) \in {0, 1}
  BY <1>3 DEF CallOnItsWay
<1>5. /\ IsFiniteSet(DirtySectors) /\ Cardinality(DirtySectors) \in Nat
      /\ volume.dirty = Cardinality(DirtySectors) /\ volume.dirty <= volume.max
      /\ volume.max \in Nat
  <2>1. IsFiniteSet(DirtySectors)
    BY <1>3, FS_Subset DEF DirtySectors
  <2> QED
    BY <2>1, FS_CardinalityType, SectorsDirtied DEF Types
<1>6. DirtySectors' = DirtySectors \cup {Sector}
  BY <1>2, <1>3 DEF DirtySectors, IsDirty
<1>7. Sector \in DirtySectors <=> Mark(Sector) # 0
  BY <1>3, <1>4 DEF DirtySectors, IsDirty
<1>8. volume'.dirty = Cardinality(DirtySectors')
  BY <1>1, <1>5, <1>6, <1>7, FS_AddElement
<1> DEFINE clean == {s \in Touched(call.position, Rest) : Mark(s) = 0}
           left == {s \in Touched(call.position, Rest) \ {Sector} : Mark(s)' = 0}
<1>9. IsFiniteSet(clean) /\ Cardinality(clean) \in Nat
      /\ volume.dirty + Cardinality(clean) <= volume.max
  <2>1. IsFiniteSet(clean)
    BY <1>3, FS_Subset
  <2>2. volume.dirty + Needed(call.position, Rest) <= volume.max
    BY <1>0 DEF CallOnItsWay
  <2> QED
    BY <2>1, <2>2, FS_CardinalityType DEF Needed
<1>10. left = clean \ {Sector}
  BY <1>2, <1>3
<1>11. Sector \in clean <=> Mark(Sector) = 0
  BY <1>3
<1> HIDE DEF clean
<1>12. Cardinality(left) = IF Mark(Sector) = 0 THEN Cardinality(clean) - 1 ELSE Cardinality(clean)
  BY <1>9, <1>10, <1>11, FS_RemoveElement
<1>13. volume'.dirty + Cardinality(left) <= volume.max
  BY <1>1, <1>5, <1>9, <1>12
<1>14. volume'.dirty <= volume.max
  <2>1. IsFiniteSet(left)
    BY <1>9, <1>10, FS_RemoveElement
  <2>2. Cardinality(left) \in Nat /\ volume'.dirty \in Nat
    BY <1>1, <1>5, <2>1, FS_CardinalityType
  <2> QED
    BY <1>5, <1>13, <2>2
<1>15. DirtyWithinCapacity'
  BY <1>1, <1>8, <1>14, SectorsDirtied DEF SameVolume
<1> QED
  BY <1>2, <1>13, <1>15

-----------------------------------------------------------------------------
(* Every step keeps the invariant *)

LEMMA InitInv == Init => CowInv
<1> SUFFICES ASSUME Init PROVE CowInv
  OBVIOUS
<1>1. 0 \in Addr
  BY WidthAssumption DEF Addr
<1>2. Types
  BY <1>1, BytesAssumption DEF Init, Types, NoVolume, NoCall, NULL
<1>3. Layout /\ call = NoCall
  BY DEF Init, Layout
<1>4. volume.bytes = 0 /\ volume.sector = 1 /\ volume.max = 0 /\ volume.dirty = 0
  BY DEF Init, NoVolume
<1>5. Cardinality(DirtySectors) = 0
  <2>1. Sectors = {}
    BY <1>4 DEF Sectors, SectorCount
  <2>2. DirtySectors = {}
    BY <2>1 DEF DirtySectors
  <2> QED
    BY <2>2, FS_EmptySet
<1>6. DirtyWithinCapacity
  BY <1>4, <1>5, SectorsDirtied
<1> QED
  BY <1>2, <1>3, <1>6 DEF CowInv

(* What is mounted is in the memory and apart. *)
LEMMA MountLayout ==
  ASSUME CowInv, NEW m \in Mounts, Mount(m)
  PROVE  Types' /\ Mounted' /\ volume'.dirty = 0 /\ call' = NoCall
<1>1. m \in [baseline : Addr, bytes : Addr, sector : Addr, overlay : Addr,
             overlayBytes : Addr, map : Addr, mapBytes : Addr, max : Addr]
  BY MountsAssumption
<1>2. /\ m.baseline \in Addr /\ m.bytes \in Addr /\ m.overlay \in Addr
      /\ m.map \in Addr /\ m.max \in Addr
      /\ m.baseline \in Nat /\ m.bytes \in Nat /\ m.overlay \in Nat /\ m.overlayBytes \in Nat
      /\ m.map \in Nat /\ m.mapBytes \in Nat /\ m.max \in Nat
  BY <1>1, AddrIsNat
<1>3. GoodLayout(m)
  BY DEF Mount
<1>4. m.sector \in Nat \ {0}
  BY <1>3, SizesAssumption, AddrIsNat DEF GoodLayout
<1>5. /\ volume'.baseline = m.baseline /\ volume'.overlay = m.overlay /\ volume'.map = m.map
      /\ volume'.bytes = m.bytes /\ volume'.sector = m.sector /\ volume'.max = m.max
      /\ volume'.dirty = 0 /\ call' = NoCall
  BY DEF Mount, Idle
<1>6. mem' \in [Addr -> Nat]
  BY DEF Mount, CowInv, Types
<1>7. Types'
  BY <1>2, <1>4, <1>6 DEF Mount, CowInv, Types
<1> DEFINE sectors == m.bytes \div m.sector
<1>8. sectors \in Nat /\ SectorCount' = sectors
  BY <1>2, <1>4, <1>5, DivMod DEF SectorCount
<1>9. /\ m.baseline # NULL /\ m.overlay # NULL /\ m.map # NULL
      /\ m.bytes # 0 /\ m.bytes % m.sector = 0 /\ m.max \in 1 .. sectors
      /\ m.overlayBytes >= m.bytes /\ m.mapBytes >= sectors
      /\ ~RangesOverlap(m.baseline, m.bytes, m.overlay, m.bytes)
      /\ ~RangesOverlap(m.baseline, m.bytes, m.map, sectors)
      /\ ~RangesOverlap(m.overlay, m.bytes, m.map, sectors)
  BY <1>3 DEF GoodLayout
<1> HIDE DEF sectors
<1>10. sectors # 0
  BY <1>2, <1>8, <1>9
<1>11. /\ m.baseline + m.bytes <= Width /\ m.overlay + m.overlayBytes <= Width
       /\ m.map + m.mapBytes <= Width
  BY DEF Mount, IsObject
<1>12. m.overlay + m.bytes <= Width /\ m.map + sectors <= Width
  BY <1>2, <1>8, <1>9, <1>11, AddrIsNat
<1>13. /\ Apart(m.baseline, m.bytes, m.overlay, m.bytes)
       /\ Apart(m.baseline, m.bytes, m.map, sectors)
       /\ Apart(m.overlay, m.bytes, m.map, sectors)
  BY <1>2, <1>8, <1>9, <1>10, NoOverlapIsApart
<1>14. Mounted'
  BY <1>5, <1>8, <1>9, <1>11, <1>12, <1>13 DEF Mounted
<1> QED
  BY <1>5, <1>7, <1>14

LEMMA PartsOf ==
  Types /\ Mounted => \A a \in Addr :
    /\ Off(a, volume.overlay) < volume.bytes <=> InOverlay(a)
    /\ Off(a, volume.map) < SectorCount <=> InMap(a)
    /\ InBaseline(a) => ~InOverlay(a) /\ ~InMap(a)
  BY Parts

(* After a mount and after a discard the overlay and the marks are zero.   *)
LEMMA Zeroed ==
  ASSUME Types', Mounted',
         mem' = [a \in Addr |-> IF \/ Off(a, volume'.overlay) < volume'.bytes
                                   \/ Off(a, volume'.map) < SectorCount'
                                THEN 0 ELSE mem[a]]
  PROVE  /\ (\A a \in Addr : InOverlay(a) \/ InMap(a) => mem[a] = 0)'
         /\ \A a \in Addr : InBaseline(a)' => mem'[a] = mem[a]
<1>1. (Types /\ Mounted => \A a \in Addr :
         /\ Off(a, volume.overlay) < volume.bytes <=> InOverlay(a)
         /\ Off(a, volume.map) < SectorCount <=> InMap(a)
         /\ InBaseline(a) => ~InOverlay(a) /\ ~InMap(a))'
  BY PartsOf, PTL
<1>2. \A a \in Addr :
        /\ Off(a, volume'.overlay) < volume'.bytes <=> InOverlay(a)'
        /\ Off(a, volume'.map) < SectorCount' <=> InMap(a)'
        /\ InBaseline(a)' => ~InOverlay(a)' /\ ~InMap(a)'
  BY <1>1 DEF Off
<1> QED
  BY <1>2

LEMMA MountKeeps ==
  ASSUME CowInv, NEW m \in Mounts, Mount(m)
  PROVE  CowInv'
<1>1. Types' /\ Mounted' /\ volume'.dirty = 0 /\ call' = NoCall
  BY MountLayout
<1>2. mem' = [a \in Addr |-> IF \/ Off(a, volume'.overlay) < volume'.bytes
                                \/ Off(a, volume'.map) < SectorCount'
                             THEN 0 ELSE mem[a]]
  BY DEF Mount, SectorCount
<1>3. DirtyWithinCapacity'
  BY <1>1, <1>2, Zeroed, BlankNext
<1> QED
  BY <1>1, <1>3 DEF CowInv, Layout, NoCall

LEMMA DiscardKeeps ==
  ASSUME CowInv, Discard
  PROVE  CowInv' /\ Mounted /\ SameVolume
<1>1. Types /\ Layout
  BY DEF CowInv
<1>2. Mounted
  BY <1>1 DEF Discard, ValidVolume, Layout, NoVolume
<1>3. SameVolume /\ volume'.dirty = 0 /\ call' = NoCall
  BY <1>1 DEF Discard, SameVolume, Types, Idle
<1>4. Mounted' /\ SectorCount' = SectorCount
  BY <1>2, <1>3, SameLayout
<1>5. mem' \in [Addr -> Nat]
  BY <1>1 DEF Discard, Types
<1>6. Types'
  BY <1>1, <1>5 DEF Discard, Types
<1>7. mem' = [a \in Addr |-> IF \/ Off(a, volume'.overlay) < volume'.bytes
                                \/ Off(a, volume'.map) < SectorCount'
                             THEN 0 ELSE mem[a]]
  BY <1>3, <1>4 DEF Discard, SameVolume
<1>8. DirtyWithinCapacity'
  BY <1>3, <1>4, <1>6, <1>7, Zeroed, BlankNext
<1> QED
  BY <1>2, <1>3, <1>4, <1>6, <1>8 DEF CowInv, Layout, NoCall

LEMMA NeededIsCount ==
  Types /\ CallInBounds =>
    /\ Touched(call.position, Rest) \subseteq Sectors
    /\ Needed(call.position, Rest) \in Nat
<1> SUFFICES ASSUME Types, CallInBounds
             PROVE  /\ Touched(call.position, Rest) \subseteq Sectors
                    /\ Needed(call.position, Rest) \in Nat
  OBVIOUS
<1>1. Touched(call.position, Rest) \subseteq Sectors /\ IsFiniteSet(Sectors)
  BY TouchedIsFinite
<1>2. IsFiniteSet({s \in Touched(call.position, Rest) : Mark(s) = 0})
  BY <1>1, FS_Subset
<1> QED
  BY <1>1, <1>2, FS_CardinalityType DEF Needed

LEMMA TouchedNext ==
  ASSUME Types', CallInBounds'
  PROVE  /\ (Touched(call.position, Rest) \subseteq Sectors)'
         /\ Needed(call.position, Rest)' \in Nat
<1>1. (Types /\ CallInBounds =>
         /\ Touched(call.position, Rest) \subseteq Sectors
         /\ Needed(call.position, Rest) \in Nat)'
  BY NeededIsCount, PTL
<1> QED
  BY <1>1

LEMMA BeginKeeps ==
  ASSUME CowInv, NEW c \in Calls, Begin(c)
  PROVE  CowInv'
<1>1. /\ Types /\ Layout /\ DirtyWithinCapacity
      /\ mem' = mem /\ volume' = volume /\ result' = Verdict(c)
  BY DEF CowInv, Begin
<1>2. SameVolume
  BY <1>1 DEF SameVolume
<1>3. /\ c.op \in {"read", "write"} /\ c.offset \in Addr /\ c.bytes \in Addr /\ c.buf \in Addr
      /\ c.offset \in Nat /\ c.bytes \in Nat /\ c.buf \in Nat
  BY CallsAssumption, AddrIsNat
<1>4. Types'
  <2>1. Verdict(c) \in {"OK", "INVALID", "RANGE", "STATE", "CAPACITY"}
    BY DEF Verdict
  <2>2. 0 \in Addr
    BY WidthAssumption DEF Addr
  <2>3. call' \in [op : {"none", "read", "write"}, offset : Addr, bytes : Addr, buf : Addr,
                   position : Nat]
    BY <1>3, <2>2 DEF Begin, NoCall, NULL
  <2> QED
    BY <1>1, <2>1, <2>3 DEF Types
<1>5. Layout' /\ DirtyWithinCapacity'
  BY <1>1, <1>2, SameLayout DEF Layout, DirtyWithinCapacity, Sectors, SectorCount, IsDirty, Mark
<1>6. ASSUME Verdict(c) = "OK"
      PROVE  CallInBounds' /\ CallOnItsWay'
  <2>1. /\ ValidVolume
        /\ AllowedRange(c.offset, c.bytes)
        /\ ExternalBytes(c.buf, c.bytes)
        /\ \A s \in Touched(c.offset, c.bytes) : ~Corrupt(s)
        /\ c.op = "write" => ~(Needed(c.offset, c.bytes) > volume.max - volume.dirty)
    BY <1>6 DEF Verdict
  <2>2. Mounted
    BY <1>1, <2>1 DEF ValidVolume, Layout, NoVolume
  <2>3. /\ volume.bytes \in Nat /\ volume.baseline \in Nat /\ volume.overlay \in Nat
        /\ volume.map \in Nat /\ volume.max \in Nat /\ volume.dirty \in Nat
        /\ SectorCount \in Nat \ {0} /\ volume.bytes # 0
    BY <1>1, <2>2, VolumeNumbers, AddrIsNat DEF Types, Mounted
  <2>4. /\ call'.op = c.op /\ call'.offset = c.offset /\ call'.bytes = c.bytes
        /\ call'.buf = c.buf /\ call'.position = c.offset
    BY <1>1, <1>6 DEF Begin
  <2>5. Rest' = c.bytes
    BY <1>3, <2>4 DEF Rest
  <2>6. c.offset + c.bytes <= volume.bytes
    BY <1>3, <2>1, <2>3 DEF AllowedRange
  <2>7. ASSUME c.bytes > 0
        PROVE  /\ c.buf + c.bytes <= Width
               /\ Apart(c.buf, c.bytes, volume.baseline, volume.bytes)
               /\ Apart(c.buf, c.bytes, volume.overlay, volume.bytes)
               /\ Apart(c.buf, c.bytes, volume.map, SectorCount)
    <3>1. /\ c.buf # NULL
          /\ ~RangesOverlap(c.buf, c.bytes, volume.baseline, volume.bytes)
          /\ ~RangesOverlap(c.buf, c.bytes, volume.overlay, volume.bytes)
          /\ ~RangesOverlap(c.buf, c.bytes, volume.map, SectorCount)
      BY <1>3, <2>1, <2>7 DEF ExternalBytes
    <3>2. c.buf + c.bytes <= Width
      BY <1>3, <2>7, <3>1 DEF Begin, IsObject
    <3> QED
      BY <1>3, <2>3, <2>7, <3>1, <3>2, NoOverlapIsApart
  <2>8. CallInBounds'
    <3>1. result' = "OK" /\ Mounted' /\ SectorCount' = SectorCount
      BY <1>1, <1>2, <1>6, <2>2, SameLayout
    <3> QED
      BY <1>1, <1>3, <2>4, <2>6, <2>7, <3>1 DEF CallInBounds
  <2>9. Touched(call.position, Rest)' = Touched(c.offset, c.bytes)
    BY <1>1, <2>4, <2>5 DEF Touched
  <2>10. \A s : Mark(s)' = Mark(s)
    BY <1>1 DEF Mark
  <2>11. \A s \in Touched(c.offset, c.bytes) : Mark(s) \in {0, 1}
    <3>1. Touched(c.offset, c.bytes) \subseteq Sectors
      BY <1>2, <1>4, <2>8, <2>9, TouchedNext, SameLayout
    <3>2. \A s \in Sectors : Mark(s) \in Nat
      BY <1>1, <2>2, Places DEF Mark, Types
    <3> QED
      BY <2>1, <3>1, <3>2 DEF Corrupt
  <2>12. c.op = "write" => volume.dirty + Needed(c.offset, c.bytes) <= volume.max
    <3>1. Needed(c.offset, c.bytes) \in Nat
      BY <1>4, <2>8, <2>9, <2>10, TouchedNext DEF Needed
    <3> QED
      BY <2>1, <2>3, <3>1
  <2>13. Needed(call.position, Rest)' = Needed(c.offset, c.bytes)
    BY <2>9, <2>10 DEF Needed
  <2>14. CallOnItsWay'
    <3>1. call'.offset .. call'.position - 1 = {}
      BY <1>3, <2>4
    <3> QED
      BY <1>1, <2>4, <2>9, <2>10, <2>11, <2>12, <2>13, <3>1 DEF CallOnItsWay
  <2> QED
    BY <2>8, <2>14
<1>7. CASE Verdict(c) = "OK"
  BY <1>4, <1>5, <1>6, <1>7 DEF CowInv
<1>8. CASE Verdict(c) # "OK"
  BY <1>1, <1>4, <1>5, <1>8 DEF CowInv, Begin
<1> QED
  BY <1>7, <1>8

LEMMA ReadSectorKeeps ==
  ASSUME CowInv, ReadSector
  PROVE  CowInv' /\ SameVolume /\ CallInBounds
<1>1. /\ Types /\ Layout /\ DirtyWithinCapacity
      /\ call.op = "read" /\ Rest > 0 /\ volume' = volume /\ result' = result
      /\ call' = [call EXCEPT !.position = @ + Chunk]
  BY DEF CowInv, ReadSector, Advance
<1>2. CallInBounds /\ CallOnItsWay /\ Mounted /\ SameVolume
  BY <1>1 DEF CowInv, NoCall, CallInBounds, SameVolume
<1>3. /\ call.position \in Nat /\ call.offset \in Nat /\ call.bytes \in Nat
      /\ Rest \in Nat /\ Chunk \in Nat \ {0} /\ Chunk <= Rest
  BY <1>1, <1>2, NextChunk, AddrIsNat DEF Types
<1>4. /\ call'.op = "read" /\ call'.offset = call.offset /\ call'.bytes = call.bytes
      /\ call'.buf = call.buf /\ call'.position = call.position + Chunk
      /\ Rest' = Rest - Chunk
  BY <1>1, <1>3 DEF Types, Rest
<1>5. Types'
  BY <1>1, <1>2, <1>3, ReadEffect DEF Types
<1>6. /\ \A s \in Sectors : Mark(s)' = Mark(s)
      /\ \A i \in Index : Held(i)' = Held(i)
      /\ Sectors' = Sectors /\ Index' = Index /\ Mounted' /\ SectorCount' = SectorCount
  <2>1. \A a \in Addr : InBaseline(a) \/ InOverlay(a) \/ InMap(a) => mem'[a] = mem[a]
    BY <1>1, <1>2, ReadEffect, Buffer
  <2> QED
    BY <1>1, <1>2, <2>1, VolumeKept, SameLayout
<1>7. DirtyWithinCapacity'
  BY <1>1, <1>2, <1>6, SameSectorsDirty
<1>8. CallInBounds'
  <2>1. call'.offset <= call'.position /\ call'.position <= call'.offset + call'.bytes
    BY <1>2, <1>3, <1>4 DEF CallInBounds, Rest
  <2> QED
    BY <1>1, <1>2, <1>4, <1>6, <2>1 DEF CallInBounds
<1>9. \A s \in Touched(call.position, Rest)' : Mark(s)' \in {0, 1}
  <2>1. Touched(call.position, Rest)' \subseteq Touched(call.position, Rest)
    BY <1>1, <1>2, <1>4, StillTouched DEF Touched
  <2>2. Touched(call.position, Rest) \subseteq Sectors
    BY <1>1, <1>2, TouchedIsFinite
  <2> QED
    BY <1>2, <1>6, <2>1, <2>2 DEF CallOnItsWay
<1>10. \A i \in call'.offset .. call'.position - 1 : mem'[At(call'.buf, i - call'.offset)] = Held(i)'
  <2> TAKE i \in call'.offset .. call'.position - 1
  <2>0. i \in call.offset .. call.position + Chunk - 1
    BY <1>3, <1>4
  <2>1. i \in Nat /\ call.offset <= i /\ i < call.offset + call.bytes
    BY <1>3, <2>0 DEF Rest
  <2>2. i \in Index
    BY <1>1, <1>2, <2>1, BufferAt
  <2>3. mem'[At(call.buf, i - call.offset)] = Held(i)
    BY <1>1, <1>2, <2>0, ReadEffect
  <2>4. Held(i)' = Held(i)
    BY <1>6, <2>2
  <2> QED
    BY <1>4, <2>3, <2>4
<1>11. CallOnItsWay'
  BY <1>4, <1>9, <1>10 DEF CallOnItsWay
<1>12. Layout'
  BY <1>6 DEF Layout
<1> QED
  BY <1>2, <1>5, <1>7, <1>8, <1>11, <1>12 DEF CowInv

LEMMA WriteSectorKeeps ==
  ASSUME CowInv, WriteSector
  PROVE  CowInv' /\ SameVolume /\ CallInBounds
<1>1. /\ Types /\ Layout /\ DirtyWithinCapacity
      /\ call.op = "write" /\ Rest > 0 /\ result' = result
      /\ call' = [call EXCEPT !.position = @ + Chunk]
      /\ volume' = [volume EXCEPT !.dirty = IF Mark(Sector) = 0 THEN @ + 1 ELSE @]
  BY DEF CowInv, WriteSector, Advance
<1>2. CallInBounds /\ CallOnItsWay /\ Mounted /\ SameVolume
  BY <1>1 DEF CowInv, NoCall, CallInBounds, SameVolume, Types
<1>3. /\ call.position \in Nat /\ call.offset \in Nat /\ call.bytes \in Nat
      /\ Rest \in Nat /\ Chunk \in Nat \ {0} /\ Chunk <= Rest
  BY <1>1, <1>2, NextChunk, AddrIsNat DEF Types
<1>4. /\ call'.op = "write" /\ call'.offset = call.offset /\ call'.bytes = call.bytes
      /\ call'.buf = call.buf /\ call'.position = call.position + Chunk
      /\ Rest' = Rest - Chunk
  BY <1>1, <1>3 DEF Types, Rest
<1>5. Types'
  BY <1>1, <1>2, <1>3, WriteEffect DEF Types
<1>6. Sectors' = Sectors /\ Mounted' /\ SectorCount' = SectorCount
  BY <1>2, SameLayout
<1>7. /\ DirtyWithinCapacity'
      /\ \A s \in Sectors : Mark(s)' = IF s = Sector THEN 1 ELSE Mark(s)
      /\ volume'.dirty + Cardinality({s \in Touched(call.position, Rest) \ {Sector} : Mark(s)' = 0})
              <= volume.max
  BY <1>1, <1>2, OneMoreDirty
<1>8. CallInBounds'
  <2>1. call'.offset <= call'.position /\ call'.position <= call'.offset + call'.bytes
    BY <1>2, <1>3, <1>4 DEF CallInBounds, Rest
  <2> QED
    BY <1>1, <1>2, <1>4, <1>6, <2>1 DEF CallInBounds, SameVolume
<1>9. /\ Touched(call.position, Rest)' \subseteq Touched(call.position, Rest) \ {Sector}
      /\ Touched(call.position, Rest) \subseteq Sectors
      /\ IsFiniteSet(Sectors)
  BY <1>1, <1>2, <1>4, StillTouched, TouchedIsFinite DEF Touched, SameVolume
<1>10. \A s \in Touched(call.position, Rest)' : Mark(s)' \in {0, 1}
  BY <1>2, <1>7, <1>9 DEF CallOnItsWay
<1>11. volume'.dirty + Needed(call.position, Rest)' <= volume'.max
  <2> DEFINE left == {s \in Touched(call.position, Rest) \ {Sector} : Mark(s)' = 0}
             later == {s \in Touched(call.position, Rest)' : Mark(s)' = 0}
  <2>1. later \subseteq left /\ IsFiniteSet(left)
    BY <1>9, FS_Subset
  <2>2. /\ Cardinality(later) <= Cardinality(left)
        /\ Cardinality(later) \in Nat /\ Cardinality(left) \in Nat
    BY <2>1, FS_Subset, FS_CardinalityType
  <2>3. volume'.dirty + Cardinality(left) <= volume.max
    BY <1>7
  <2>4. Needed(call.position, Rest)' = Cardinality(later)
    BY DEF Needed
  <2>5. volume'.dirty \in Nat /\ volume.max \in Nat /\ volume'.max = volume.max
    BY <1>1, <1>2, <1>5 DEF Types, SameVolume
  <2> HIDE DEF left, later
  <2> QED
    BY <2>2, <2>3, <2>4, <2>5
<1>12. CallOnItsWay'
  BY <1>4, <1>10, <1>11 DEF CallOnItsWay
<1>13. Layout'
  BY <1>6 DEF Layout
<1> QED
  BY <1>2, <1>5, <1>7, <1>8, <1>12, <1>13 DEF CowInv

LEMMA FillKeeps ==
  ASSUME CowInv, NEW a \in Addr \ {NULL}, NEW b \in Poke, Fill(a, b)
  PROVE  /\ CowInv' /\ Mounted /\ SameVolume
         /\ \A x \in Addr : InBaseline(x) \/ InOverlay(x) \/ InMap(x) => mem'[x] = mem[x]
<1>1. /\ Types /\ Mounted /\ DirtyWithinCapacity
      /\ call = NoCall /\ Own(a) /\ mem' = [mem EXCEPT ![a] = b]
      /\ volume' = volume /\ call' = call /\ result' = result
  BY DEF CowInv, Fill, Idle, Layout
<1>2. SameVolume
  BY <1>1 DEF SameVolume
<1>3. ~InBaseline(a) /\ ~InOverlay(a) /\ ~InMap(a)
  <2>1. /\ Off(a, volume.baseline) \in Nat /\ Off(a, volume.overlay) \in Nat
        /\ Off(a, volume.map) \in Nat /\ volume.bytes \in Nat /\ SectorCount \in Nat
    BY <1>1, Parts, VolumeNumbers, AddrIsNat DEF Types
  <2>2. /\ ~(Off(a, volume.baseline) < volume.bytes)
        /\ ~(Off(a, volume.overlay) < volume.bytes)
        /\ ~(Off(a, volume.map) < SectorCount)
    BY <1>1, <2>1 DEF Own
  <2> QED
    BY <1>1, <2>2, Parts
<1>4. \A x \in Addr : InBaseline(x) \/ InOverlay(x) \/ InMap(x) => mem'[x] = mem[x]
  BY <1>1, <1>3 DEF Types
<1>5. Types'
  BY <1>1, BytesAssumption DEF Types
<1>6. Mounted' /\ DirtyWithinCapacity'
  BY <1>1, <1>2, <1>4, VolumeKept, SameLayout, SameSectorsDirty
<1> QED
  BY <1>1, <1>2, <1>4, <1>5, <1>6 DEF CowInv, Layout

LEMMA DamageKeeps ==
  ASSUME CowInv, NEW s \in Sectors, Damage(s)
  PROVE  /\ CowInv' /\ Mounted /\ SameVolume
         /\ \A i \in Index : Held(i)' = Held(i)
         /\ \A i \in Index : mem'[At(volume.baseline, i)] = mem[At(volume.baseline, i)]
<1>1. /\ Types /\ Layout /\ DirtyWithinCapacity
      /\ call = NoCall /\ volume' = volume /\ call' = call /\ result' = result
      /\ mem' = [mem EXCEPT ![At(volume.map, s)] = @ + 2]
  BY DEF CowInv, Damage, Idle
<1>2. Mounted
  <2>1. volume = NoVolume => Sectors = {}
    BY DEF NoVolume, Sectors, SectorCount
  <2> QED
    BY <1>1, <2>1 DEF Layout
<1>3. SameVolume
  BY <1>1 DEF SameVolume
<1>4. At(volume.map, s) \in Addr /\ InMap(At(volume.map, s))
  BY <1>1, <1>2, Places
<1>5. Types'
  BY <1>1, <1>4 DEF Types
<1>6. \A t \in Sectors : Mark(t) \in Nat /\ Mark(t)' % 2 = Mark(t) % 2
  <2> TAKE t \in Sectors
  <2>1. mem[At(volume.map, t)] \in Nat /\ At(volume.map, t) \in Addr
    BY <1>1, <1>2, Places DEF Types
  <2>2. \/ mem'[At(volume.map, t)] = mem[At(volume.map, t)]
        \/ mem'[At(volume.map, t)] = mem[At(volume.map, t)] + 2
    BY <1>1, <2>1 DEF Types
  <2>3. Mark(t)' = mem'[At(volume.map, t)] /\ Mark(t) = mem[At(volume.map, t)]
    BY <1>3, SameLayout DEF Mark
  <2> QED
    BY <2>1, <2>2, <2>3
<1>7. Mounted' /\ DirtyWithinCapacity'
  BY <1>1, <1>2, <1>3, <1>6, SameLayout, SameSectorsDirty
<1>8. ASSUME NEW i \in Index
      PROVE  /\ mem'[At(volume.baseline, i)] = mem[At(volume.baseline, i)]
             /\ mem'[At(volume.overlay, i)] = mem[At(volume.overlay, i)]
  <2>1. /\ At(volume.baseline, i) \in Addr /\ InBaseline(At(volume.baseline, i))
        /\ At(volume.overlay, i) \in Addr /\ InOverlay(At(volume.overlay, i))
    BY <1>1, <1>2, Places
  <2>2. ~InMap(At(volume.baseline, i)) /\ ~InMap(At(volume.overlay, i))
    BY <1>1, <1>2, <2>1, Parts
  <2> QED
    BY <1>1, <1>4, <2>1, <2>2 DEF Types
<1>9. \A i \in Index : Held(i)' = Held(i)
  <2> TAKE i \in Index
  <2>1. i \div volume.sector \in Sectors
    BY <1>1, <1>2, VolumeNumbers
  <2>2. Mark(i \div volume.sector)' % 2 = Mark(i \div volume.sector) % 2
    <3> DEFINE t == i \div volume.sector
    <3>1. mem'[At(volume.map, t)] % 2 = mem[At(volume.map, t)] % 2
      BY <1>3, <1>6, <2>1, SameLayout DEF Mark
    <3>2. volume'.map = volume.map /\ volume'.sector = volume.sector
      BY <1>3 DEF SameVolume
    <3> QED
      BY <3>1, <3>2 DEF Mark
  <2>3. mem'[At(volume.map, i \div volume.sector)] % 2 = Mark(i \div volume.sector) % 2
    BY <1>3, <2>2 DEF Mark, SameVolume
  <2> QED
    BY <1>3, <1>8, <2>3, SameLayout DEF Held, IsDirty
<1> QED
  BY <1>1, <1>2, <1>3, <1>5, <1>7, <1>8, <1>9 DEF CowInv, Layout

LEMMA OtherStepsKeep ==
  ASSUME CowInv
  PROVE  /\ \A m \in Mounts : MountRefused(m) => CowInv'
         /\ Return => CowInv'
         /\ UNCHANGED vars => CowInv'
<1>1. /\ Types /\ Layout /\ DirtyWithinCapacity
      /\ call # NoCall => CallInBounds /\ CallOnItsWay
  BY DEF CowInv
<1>2. ASSUME mem' = mem, volume' = volume, call' = NoCall,
             result' \in {"OK", "INVALID", "RANGE", "STATE", "CAPACITY"}
      PROVE  CowInv'
  <2>1. 0 \in Addr
    BY WidthAssumption DEF Addr
  <2>2. Types'
    BY <1>1, <1>2, <2>1 DEF Types, NoCall, NULL
  <2>3. SameVolume /\ Layout' /\ DirtyWithinCapacity'
    BY <1>1, <1>2 DEF SameVolume, Layout, Mounted, SectorCount, DirtyWithinCapacity, Sectors,
                      IsDirty, Mark
  <2> QED
    BY <1>2, <2>2, <2>3 DEF CowInv
<1>3. ASSUME NEW m \in Mounts, MountRefused(m) PROVE CowInv'
  BY <1>2, <1>3 DEF MountRefused, Idle
<1>4. ASSUME Return PROVE CowInv'
  BY <1>2, <1>4 DEF Return
<1>5. ASSUME UNCHANGED vars PROVE CowInv'
  BY <1>1, <1>5 DEF vars, CowInv, Types, Layout, Mounted, SectorCount, DirtyWithinCapacity,
       Sectors, IsDirty, Mark, CallInBounds, CallOnItsWay, Touched, Needed, Rest, Held
<1> QED
  BY <1>3, <1>4, <1>5

LEMMA NextInv == CowInv /\ [Next]_vars => CowInv'
<1> SUFFICES ASSUME CowInv, [Next]_vars PROVE CowInv'
  OBVIOUS
<1>1. CASE \E m \in Mounts : Mount(m) \/ MountRefused(m)
  BY <1>1, MountKeeps, OtherStepsKeep
<1>2. CASE \E c \in Calls : Begin(c)
  BY <1>2, BeginKeeps
<1>3. CASE ReadSector
  BY <1>3, ReadSectorKeeps
<1>4. CASE WriteSector
  BY <1>4, WriteSectorKeeps
<1>5. CASE Return
  BY <1>5, OtherStepsKeep
<1>6. CASE Discard
  BY <1>6, DiscardKeeps
<1>7. CASE \E a \in Addr \ {NULL}, b \in Poke : Fill(a, b)
  BY <1>7, FillKeeps
<1>8. CASE \E s \in Sectors : Damage(s)
  BY <1>8, DamageKeeps
<1>9. CASE UNCHANGED vars
  BY <1>9, OtherStepsKeep
<1> QED
  BY <1>1, <1>2, <1>3, <1>4, <1>5, <1>6, <1>7, <1>8, <1>9 DEF Next

(* The invariant holds whatever the width, the memory, what is mounted and *)
(* what is called.                                                         *)
THEOREM InvHolds == Spec => []CowInv
  BY InitInv, NextInv, PTL DEF Spec

(* The sectors that count as dirty are those whose mark is odd, and never  *)
(* more than max_dirty_sectors.                                            *)
THEOREM CapacityIsKept == Spec => []DirtyWithinCapacity
<1>1. CowInv => DirtyWithinCapacity
  BY DEF CowInv
<1> QED
  BY <1>1, InvHolds, PTL

(* A read that has gone through all its sectors has put the bytes of the   *)
(* volume into the buffer, those of the overlay for sectors written to and *)
(* those of the baseline for the others.                                   *)
THEOREM ReadsReturnTheVolume == Spec => []ReadsAreRight
<1>1. CowInv => ReadsAreRight
  <2> SUFFICES ASSUME CowInv, call.op = "read", Rest = 0, NEW k \in 0 .. call.bytes - 1
               PROVE  mem[At(call.buf, k)] = Content[call.offset + k]
    BY DEF ReadsAreRight
  <2>1. Types /\ CallInBounds /\ CallOnItsWay
    BY DEF CowInv, NoCall
  <2>2. /\ call.position \in Nat /\ call.offset \in Nat /\ call.bytes \in Nat /\ call.buf \in Nat
    BY <2>1, AddrIsNat DEF Types
  <2>3. call.position = call.offset + call.bytes
    BY <2>2 DEF Rest
  <2> DEFINE i == call.offset + k
  <2>4. i \in Nat /\ call.offset <= i /\ i < call.offset + call.bytes /\ i - call.offset = k
    BY <2>2
  <2>5. i \in Index
    BY <2>1, <2>4, BufferAt
  <2>6. i \in call.offset .. call.position - 1
    BY <2>2, <2>3, <2>4
  <2> HIDE DEF i
  <2>7. mem[At(call.buf, k)] = Held(i)
    BY <2>1, <2>4, <2>6 DEF CallOnItsWay
  <2>8. Content[i] = Held(i)
    BY <2>5 DEF Content
  <2> QED
    BY <2>7, <2>8 DEF i
<1> QED
  BY <1>1, InvHolds, PTL

(* No call ever changes the baseline: a read changes its buffer, a write   *)
(* the overlay and the marks.                                              *)
THEOREM CallsWriteOnlyTheirs == Spec => NothingElseWritten
<1> DEFINE Keeps(a) ==
      /\ Off(a, volume.baseline) >= volume.bytes
      /\ IF call.op = "read" THEN Off(a, call.buf) < call.bytes
         ELSE Off(a, volume.overlay) < volume.bytes \/ Off(a, volume.map) < SectorCount
<1>1. CowInv /\ [Next]_vars => [~Idle => \A a \in Addr : mem'[a] # mem[a] => Keeps(a)]_vars
  <2> SUFFICES ASSUME CowInv, Next, ~Idle, NEW a \in Addr, mem'[a] # mem[a]
               PROVE  Keeps(a)
    OBVIOUS
  <2>1. Types
    BY DEF CowInv
  <2>2. ReadSector \/ WriteSector
    BY DEF Next, Mount, MountRefused, Begin, Return, Discard, Fill, Damage
  <2>3. CallInBounds /\ CallOnItsWay /\ Mounted /\ Rest > 0
    BY <2>2, ReadSectorKeeps, WriteSectorKeeps DEF CowInv, CallInBounds, NoCall, ReadSector,
       WriteSector
  <2>4. /\ volume.bytes \in Nat /\ Off(a, volume.baseline) \in Nat
        /\ Off(a, volume.overlay) \in Nat /\ Off(a, volume.map) \in Nat
    BY <2>1, <2>3, Parts, AddrIsNat DEF Types
  <2>5. ~InBaseline(a) => Off(a, volume.baseline) >= volume.bytes
    BY <2>1, <2>3, <2>4, Parts
  <2>6. CASE ReadSector
    <3>1. InBuffer(a)
      BY <2>1, <2>3, <2>6, ReadEffect
    <3>2. call.bytes > 0 /\ call.op = "read"
      BY <2>1, <2>3, <2>6, NextChunk, AddrIsNat DEF ReadSector, Types
    <3>3. ~InBaseline(a) /\ Off(a, call.buf) < call.bytes
      BY <2>1, <2>3, <3>1, <3>2, Buffer
    <3> QED
      BY <2>5, <3>2, <3>3
  <2>7. CASE WriteSector
    <3>1. InOverlay(a) \/ InMap(a)
      BY <2>1, <2>3, <2>7, WriteEffect
    <3>2. ~InBaseline(a)
      BY <2>1, <2>3, <3>1, Parts
    <3>3. Off(a, volume.overlay) < volume.bytes \/ Off(a, volume.map) < SectorCount
      BY <2>1, <2>3, <3>1, Parts
    <3>4. call.op # "read"
      BY <2>7 DEF WriteSector
    <3> QED
      BY <2>5, <3>2, <3>3, <3>4
  <2> QED
    BY <2>2, <2>6, <2>7
<1> QED
  BY <1>1, InvHolds, PTL DEF Spec, NothingElseWritten

-----------------------------------------------------------------------------
(* The copy-on-write volume is a flat one *)

LEMMA FlatInit == Init => Flat!Init
<1> SUFFICES ASSUME Init PROVE Flat!Init
  OBVIOUS
<1>1. Index = {}
  BY DEF Init, NoVolume, Index
<1>2. Frozen = <<>> /\ Content = <<>>
  BY <1>1 DEF Frozen, Content
<1>3. Request = [op |-> "none"]
  BY DEF Init, Request
<1> QED
  BY <1>2, <1>3 DEF Flat!Init, Flat!NoRequest

(* What the volume holds when no write is going on *)
LEMMA ContentAtRest ==
  /\ call.op # "write" => Content = [i \in Index |-> Held(i)]
  /\ call'.op # "write" => Content' = [i \in Index' |-> Held(i)']
  BY DEF Content

LEMMA FrozenKept ==
  ASSUME SameVolume, \A i \in Index : mem'[At(volume.baseline, i)] = mem[At(volume.baseline, i)]
  PROVE  Frozen' = Frozen
<1>1. Index' = Index
  BY SameLayout
<1> QED
  BY <1>1 DEF Frozen, SameVolume, At

LEMMA ReadIsSilent ==
  ASSUME CowInv, ReadSector
  PROVE  UNCHANGED <<Frozen, Content, Request>>
<1>1. /\ Types /\ CallInBounds /\ CallOnItsWay /\ Mounted /\ SameVolume
      /\ call.op = "read" /\ call' = [call EXCEPT !.position = @ + Chunk]
  BY ReadSectorKeeps DEF CowInv, CallInBounds, NoCall, ReadSector, Advance
<1>2. \A a \in Addr : InBaseline(a) \/ InOverlay(a) \/ InMap(a) => mem'[a] = mem[a]
  BY <1>1, ReadEffect, Buffer
<1>3. /\ \A i \in Index : Held(i)' = Held(i)
      /\ \A i \in Index : mem'[At(volume.baseline, i)] = mem[At(volume.baseline, i)]
      /\ Index' = Index
  BY <1>1, <1>2, VolumeKept, SameLayout
<1>4. call'.op = "read" /\ call'.offset = call.offset
  BY <1>1 DEF Types
<1>5. Frozen' = Frozen
  BY <1>1, <1>3, FrozenKept
<1>6. Content' = Content
  BY <1>1, <1>3, <1>4, ContentAtRest
<1>7. Request' = Request
  BY <1>1, <1>4 DEF Request, NoCall
<1> QED
  BY <1>5, <1>6, <1>7

LEMMA WriteIsSilent ==
  ASSUME CowInv, WriteSector
  PROVE  UNCHANGED <<Frozen, Content, Request>>
<1>1. /\ Types /\ CallInBounds /\ CallOnItsWay /\ Mounted /\ SameVolume
      /\ call.op = "write" /\ Rest > 0 /\ call' = [call EXCEPT !.position = @ + Chunk]
  BY WriteSectorKeeps DEF CowInv, CallInBounds, NoCall, WriteSector, Advance
<1>2. /\ call'.op = "write" /\ call'.offset = call.offset /\ call'.bytes = call.bytes
      /\ call'.buf = call.buf /\ call'.position = call.position + Chunk
      /\ Index' = Index /\ Sectors' = Sectors
  BY <1>1, SameLayout DEF Types
<1>3. /\ call.position \in Nat /\ call.offset \in Nat /\ call.bytes \in Nat
      /\ Rest \in Nat /\ Chunk \in Nat \ {0} /\ Chunk <= Rest
      /\ call.offset <= call.position
  BY <1>1, NextChunk, AddrIsNat DEF Types, CallInBounds
<1>4. \A i \in Nat : InChunk(i) => i \div volume.sector = Sector
  BY <1>1, NextChunk
<1>5. Sector \in Sectors /\ Mark(Sector) \in {0, 1}
  BY <1>1, NextChunk, TouchedIsFinite DEF CallOnItsWay
<1>6. \A a \in Addr : mem'[a] # mem[a] => InOverlay(a) \/ InMap(a)
  BY <1>1, WriteEffect
<1>7. \A i \in Index : mem'[At(volume.baseline, i)] = mem[At(volume.baseline, i)]
  BY <1>1, <1>6, Places, Parts
<1>8. Frozen' = Frozen
  BY <1>1, <1>7, FrozenKept
(* The buffer is not the volume's, so its bytes are what they were.        *)
<1>9. \A i \in Nat : call.offset <= i /\ i < call.offset + call.bytes =>
        mem'[At(call.buf, i - call.offset)] = mem[At(call.buf, i - call.offset)]
  BY <1>1, <1>6, BufferAt, Buffer
<1>10. Data' = Data
  <2>1. ASSUME NEW k \in 0 .. call.bytes - 1
        PROVE  mem'[At(call.buf, k)] = mem[At(call.buf, k)]
    <3> DEFINE i == call.offset + k
    <3>1. i \in Nat /\ call.offset <= i /\ i < call.offset + call.bytes /\ i - call.offset = k
      BY <1>3
    <3> HIDE DEF i
    <3> QED
      BY <1>9, <3>1
  <2> QED
    BY <1>2, <2>1 DEF Data
<1>11. Request' = Request
  BY <1>1, <1>2, <1>10 DEF Request, NoCall
<1>12. ASSUME NEW i \in Index
       PROVE  Content'[i] = Content[i]
  <2>1. i \in Nat
    BY <1>1, VolumeNumbers
  <2>2. i \div volume.sector \in Sectors
    BY <1>1, VolumeNumbers
  <2>3. Content[i] = IF call.position <= i /\ i < call.offset + call.bytes
                     THEN mem[At(call.buf, i - call.offset)] ELSE Held(i)
    BY <1>1 DEF Content
  <2>4. Content'[i] = IF call.position + Chunk <= i /\ i < call.offset + call.bytes
                      THEN mem'[At(call.buf, i - call.offset)] ELSE Held(i)'
    BY <1>2 DEF Content
  <2>5. Held(i)' = IF mem'[At(volume.map, i \div volume.sector)] % 2 = 1
                   THEN mem'[At(volume.overlay, i)] ELSE mem'[At(volume.baseline, i)]
    BY <1>1, SameLayout
  <2>6. mem'[At(volume.map, i \div volume.sector)] =
          IF i \div volume.sector = Sector THEN 1 ELSE Mark(i \div volume.sector)
    BY <1>1, <2>2, WriteEffect DEF Mark
  <2>7. mem'[At(volume.overlay, i)] =
          IF InChunk(i) THEN mem[At(call.buf, i - call.offset)]
          ELSE IF Mark(Sector) = 0 /\ i \div volume.sector = Sector
               THEN mem[At(volume.baseline, i)]
               ELSE mem[At(volume.overlay, i)]
    BY <1>1, WriteEffect
  <2>8. CASE InChunk(i)
    <3>1. /\ call.position <= i /\ i < call.offset + call.bytes /\ call.offset <= i
          /\ ~(call.position + Chunk <= i)
      BY <1>3, <2>1, <2>8 DEF InChunk, Rest
    <3>2. Held(i)' = mem[At(call.buf, i - call.offset)]
      BY <1>4, <2>1, <2>5, <2>6, <2>7, <2>8
    <3> QED
      BY <2>3, <2>4, <3>1, <3>2
  <2>9. CASE ~InChunk(i) /\ call.position <= i /\ i < call.offset + call.bytes
    <3>1. call.position + Chunk <= i /\ call.offset <= i
      BY <1>3, <2>1, <2>9 DEF InChunk
    <3> QED
      BY <1>9, <2>1, <2>3, <2>4, <2>9, <3>1
  <2>10. CASE ~InChunk(i) /\ ~(call.position <= i /\ i < call.offset + call.bytes)
    <3>1. ~(call.position + Chunk <= i /\ i < call.offset + call.bytes)
      BY <1>3, <2>1, <2>10
    <3>2. Held(i) = IF Mark(i \div volume.sector) % 2 = 1
                    THEN mem[At(volume.overlay, i)] ELSE mem[At(volume.baseline, i)]
      BY DEF Held, IsDirty
    <3>3. Held(i)' = Held(i)
      <4>1. CASE i \div volume.sector = Sector
        BY <1>5, <1>7, <2>5, <2>6, <2>7, <2>10, <3>2, <4>1
      <4>2. CASE i \div volume.sector # Sector
        BY <1>7, <2>5, <2>6, <2>7, <2>10, <3>2, <4>2
      <4> QED
        BY <4>1, <4>2
    <3> QED
      BY <2>3, <2>4, <2>10, <3>1, <3>3
  <2> QED
    BY <2>8, <2>9, <2>10
<1>13. Content' = Content
  BY <1>2, <1>12 DEF Content
<1> QED
  BY <1>8, <1>11, <1>13

FlatStep == Flat!Next \/ UNCHANGED <<Frozen, Content, Request>>

LEMMA MountIsFlat ==
  ASSUME CowInv, NEW m \in Mounts, Mount(m)
  PROVE  Flat!Mount
<1>1. Types' /\ Mounted' /\ volume'.dirty = 0 /\ call' = NoCall /\ call = NoCall
  BY MountLayout DEF Mount, Idle
<1>2. mem' = [a \in Addr |-> IF \/ Off(a, volume'.overlay) < volume'.bytes
                                \/ Off(a, volume'.map) < SectorCount'
                             THEN 0 ELSE mem[a]]
  BY DEF Mount, SectorCount
<1>3. (\A i \in Index : Held(i) = mem[At(volume.baseline, i)])'
  BY <1>1, <1>2, Zeroed, BlankNext
<1>4. Content' = Frozen'
  BY <1>1, <1>3, ContentAtRest DEF Frozen, NoCall
<1>5. Request' = Request
  BY <1>1 DEF Request
<1> QED
  BY <1>4, <1>5 DEF Flat!Mount

LEMMA DiscardIsFlat ==
  ASSUME CowInv, Discard
  PROVE  Flat!Discard
<1>1. /\ Types /\ CowInv' /\ Mounted /\ SameVolume
      /\ call = NoCall /\ call' = NoCall /\ volume'.dirty = 0
  BY DiscardKeeps DEF Discard, Idle, CowInv, Types
<1>2. Types' /\ Mounted' /\ SectorCount' = SectorCount /\ Index' = Index
  BY <1>1, SameLayout DEF CowInv
<1>3. mem' = [a \in Addr |-> IF \/ Off(a, volume'.overlay) < volume'.bytes
                                \/ Off(a, volume'.map) < SectorCount'
                             THEN 0 ELSE mem[a]]
  BY <1>1, <1>2 DEF Discard, SameVolume
<1>4. (\A i \in Index : Held(i) = mem[At(volume.baseline, i)])'
  BY <1>1, <1>2, <1>3, Zeroed, BlankNext
<1>5. \A i \in Index : mem'[At(volume.baseline, i)] = mem[At(volume.baseline, i)]
  <2> TAKE i \in Index
  <2>1. At(volume.baseline, i) \in Addr /\ InBaseline(At(volume.baseline, i))
    BY <1>1, Places
  <2>2. InBaseline(At(volume.baseline, i)) => ~InOverlay(At(volume.baseline, i))
                                              /\ ~InMap(At(volume.baseline, i))
    BY <1>1, <2>1, Parts
  <2>3. \A a \in Addr : InBaseline(a)' => mem'[a] = mem[a]
    BY <1>2, <1>3, Zeroed
  <2>4. \A a \in Addr : InBaseline(a)' <=> InBaseline(a)
    BY <1>1 DEF InBaseline, SameVolume
  <2> QED
    BY <2>1, <2>3, <2>4
<1>6. Frozen' = Frozen
  BY <1>1, <1>5, FrozenKept
<1>7. Content' = Frozen'
  BY <1>1, <1>4, ContentAtRest DEF Frozen, NoCall
<1>8. Request' = Request
  BY <1>1 DEF Request
<1> QED
  BY <1>6, <1>7, <1>8 DEF Flat!Discard

LEMMA BeginIsFlat ==
  ASSUME CowInv, NEW c \in Calls, Begin(c)
  PROVE  FlatStep
<1>1. /\ mem' = mem /\ volume' = volume /\ call = NoCall /\ call.op = "none"
      /\ result' = Verdict(c) /\ CowInv' /\ Types
  BY BeginKeeps DEF Begin, Idle, NoCall, CowInv
<1>2. /\ c.op \in {"read", "write"} /\ c.offset \in Nat /\ c.bytes \in Nat
  BY CallsAssumption, AddrIsNat
<1>3. /\ Index' = Index /\ Frozen' = Frozen /\ \A i : Held(i)' = Held(i)
      /\ Content = [i \in Index |-> Held(i)]
  BY <1>1, ContentAtRest DEF Frozen, Held, IsDirty, Mark, Index
<1>4. Request = [op |-> "none"]
  BY <1>1 DEF Request
<1>5. CASE result' # "OK"
  <2>1. call' = call
    BY <1>1, <1>5 DEF Begin
  <2>2. Content' = Content /\ Request' = Request
    BY <1>1, <1>3, <2>1, ContentAtRest DEF Request
  <2> QED
    BY <1>3, <2>2 DEF FlatStep
<1>6. CASE result' = "OK" /\ c.op = "read"
  <2>1. call'.op = "read" /\ call' # NoCall
    BY <1>6 DEF Begin, NoCall
  <2>2. Content' = Content
    BY <1>3, <2>1, ContentAtRest
  <2>3. Request'.op = "read"
    BY <2>1 DEF Request
  <2>4. Flat!Read
    BY <1>3, <1>4, <2>2, <2>3 DEF Flat!Read, Flat!NoRequest
  <2> QED
    BY <2>4 DEF FlatStep, Flat!Next
<1>7. CASE result' = "OK" /\ c.op = "write"
  <2>1. /\ call'.op = "write" /\ call'.offset = c.offset /\ call'.bytes = c.bytes
        /\ call'.buf = c.buf /\ call'.position = c.offset /\ call' # NoCall
    BY <1>7 DEF Begin, NoCall
  <2> DEFINE data == [k \in 0 .. c.bytes - 1 |-> mem[At(c.buf, k)]]
  <2>2. /\ Request'.op = "write" /\ Request'.first = c.offset /\ Request'.data = data
    BY <1>1, <2>1 DEF Request, Data
  <2>3. Content' = [i \in Index |-> IF c.offset <= i /\ i < c.offset + c.bytes
                                    THEN mem[At(c.buf, i - c.offset)] ELSE Held(i)]
    BY <1>1, <1>3, <2>1 DEF Content
  <2>4. DOMAIN Content = Index
    BY <1>3
  <2>5. ASSUME NEW i \in Index
        PROVE  Content'[i] = IF i >= c.offset /\ i - c.offset \in DOMAIN data
                             THEN data[i - c.offset] ELSE Content[i]
    <3>1. i \in Int
      BY DEF Index
    <3>2. i >= c.offset /\ i - c.offset \in DOMAIN data <=>
            c.offset <= i /\ i < c.offset + c.bytes
      BY <1>2, <3>1
    <3>3. CASE c.offset <= i /\ i < c.offset + c.bytes
      <4>1. data[i - c.offset] = mem[At(c.buf, i - c.offset)]
        BY <3>2, <3>3
      <4> HIDE DEF data
      <4> QED
        BY <2>3, <3>2, <3>3, <4>1
    <3>4. CASE ~(c.offset <= i /\ i < c.offset + c.bytes)
      BY <1>3, <2>3, <3>2, <3>4
    <3> QED
      BY <3>3, <3>4
  <2> HIDE DEF data
  <2>6. Content' = Flat!Overwritten(Content, Request'.first, Request'.data)
    BY <2>2, <2>3, <2>4, <2>5 DEF Flat!Overwritten
  <2>7. Flat!Write
    BY <1>3, <1>4, <2>2, <2>6 DEF Flat!Write, Flat!NoRequest
  <2> QED
    BY <2>7 DEF FlatStep, Flat!Next
<1> QED
  BY <1>2, <1>5, <1>6, <1>7

LEMMA ReturnIsFlat ==
  ASSUME CowInv, Return
  PROVE  Flat!Finish
<1>1. /\ mem' = mem /\ volume' = volume /\ call' = NoCall /\ call'.op = "none" /\ Rest = 0 /\ Types
  BY DEF Return, NoCall, CowInv
<1>2. /\ Index' = Index /\ Frozen' = Frozen /\ \A i : Held(i)' = Held(i)
      /\ Content' = [i \in Index' |-> Held(i)']
  BY <1>1, ContentAtRest DEF Frozen, Held, IsDirty, Mark, Index
<1>3. Content = [i \in Index |-> Held(i)]
  <2>1. call.position = call.offset + call.bytes
    BY <1>1, AddrIsNat DEF Rest, Types
  <2>2. \A i \in Index : ~(call.position <= i /\ i < call.offset + call.bytes)
    <3>1. \A i \in Index : i \in Int
      BY DEF Index
    <3> QED
      BY <1>1, <2>1, <3>1, AddrIsNat DEF Types
  <2> QED
    BY <2>2 DEF Content
<1>4. Request' = [op |-> "none"]
  BY <1>1 DEF Request
<1> QED
  BY <1>2, <1>3, <1>4 DEF Flat!Finish, Flat!NoRequest

LEMMA CallerIsSilent ==
  ASSUME CowInv, call = NoCall, call' = call, SameVolume,
         \A i \in Index : Held(i)' = Held(i),
         \A i \in Index : mem'[At(volume.baseline, i)] = mem[At(volume.baseline, i)]
  PROVE  UNCHANGED <<Frozen, Content, Request>>
<1>1. Frozen' = Frozen
  BY FrozenKept
<1>2. Content' = Content
  BY SameLayout, ContentAtRest DEF NoCall
<1>3. Request' = Request
  BY DEF Request
<1> QED
  BY <1>1, <1>2, <1>3

(* Reads and writes that go sector by sector, through the overlay, the     *)
(* baseline and the marks, are to the caller reads and writes of a volume  *)
(* of bytes that take effect as a whole; those refused take none; and a    *)
(* discard brings back every byte of the day it was mounted.               *)
THEOREM CowIsFlat == Spec => ImplementsFlatVolume
<1>1. CowInv /\ [Next]_vars => [Flat!Next]_<<Frozen, Content, Request>>
  <2> SUFFICES ASSUME CowInv, [Next]_vars PROVE FlatStep
    BY DEF FlatStep
  <2>1. CASE \E m \in Mounts : Mount(m) \/ MountRefused(m)
    <3>1. ASSUME NEW m \in Mounts, Mount(m) PROVE FlatStep
      BY <3>1, MountIsFlat DEF FlatStep, Flat!Next
    <3>2. ASSUME NEW m \in Mounts, MountRefused(m) PROVE FlatStep
      BY <3>2 DEF MountRefused, FlatStep, Frozen, Content, Request, Index, Held, IsDirty, Mark, Data
    <3> QED
      BY <2>1, <3>1, <3>2
  <2>2. CASE \E c \in Calls : Begin(c)
    BY <2>2, BeginIsFlat
  <2>3. CASE ReadSector
    BY <2>3, ReadIsSilent DEF FlatStep
  <2>4. CASE WriteSector
    BY <2>4, WriteIsSilent DEF FlatStep
  <2>5. CASE Return
    BY <2>5, ReturnIsFlat DEF FlatStep, Flat!Next
  <2>6. CASE Discard
    BY <2>6, DiscardIsFlat DEF FlatStep, Flat!Next
  <2>7. CASE \E a \in Addr \ {NULL}, b \in Poke : Fill(a, b)
    <3>1. PICK a \in Addr \ {NULL}, b \in Poke : Fill(a, b)
      BY <2>7
    <3>2. /\ Types /\ Mounted /\ SameVolume /\ call = NoCall /\ call' = call
          /\ \A x \in Addr : InBaseline(x) \/ InOverlay(x) \/ InMap(x) => mem'[x] = mem[x]
      BY <3>1, FillKeeps DEF CowInv, Fill, Idle
    <3> QED
      BY <3>2, VolumeKept, CallerIsSilent DEF FlatStep
  <2>8. CASE \E s \in Sectors : Damage(s)
    <3>1. PICK s \in Sectors : Damage(s)
      BY <2>8
    <3>2. call = NoCall /\ call' = call
      BY <3>1 DEF Damage, Idle
    <3> QED
      BY <3>1, <3>2, DamageKeeps, CallerIsSilent DEF FlatStep
  <2>9. CASE UNCHANGED vars
    BY <2>9 DEF vars, FlatStep, Frozen, Content, Request, Index, Held, IsDirty, Mark, Data
  <2> QED
    BY <2>1, <2>2, <2>3, <2>4, <2>5, <2>6, <2>7, <2>8, <2>9 DEF Next
<1> QED
  BY <1>1, FlatInit, InvHolds, PTL DEF Spec, ImplementsFlatVolume, Flat!Spec
=============================================================================
