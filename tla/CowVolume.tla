----------------------------- MODULE CowVolume -----------------------------
(***************************************************************************)
(* The sector copy-on-write core (native/common/uf_cow_core.c): a volume   *)
(* in the memory of its caller, made of a baseline that never changes, an  *)
(* overlay of the same size and one mark per sector that says which of the *)
(* two holds it.  A call checks everything before it changes anything and  *)
(* then goes sector by sector, one step each.                              *)
(*                                                                         *)
(* Pointers and sizes are numbers below Width (size_t); 0 is NULL, and an  *)
(* object never goes beyond the last address.                              *)
(***************************************************************************)
EXTENDS Integers, FiniteSets

CONSTANTS Width,        \* 2^w of a w-bit size_t
          SectorSizes,  \* the sizes accepted: powers of two from 512 to 4096
          Memory,       \* the bytes of the memory at the beginning
          Mounts,       \* bound: arguments given to uf_cow_init
          Calls,        \* bound: arguments given to uf_cow_read and uf_cow_write
          Poke          \* bound: bytes the caller puts into its buffers

Addr == 0 .. Width - 1
NULL == 0

ASSUME WidthAssumption == Width \in Nat \ {0}
ASSUME BytesAssumption == Poke \subseteq Nat /\ Memory \in [Addr -> Nat]
ASSUME SizesAssumption == SectorSizes \subseteq Addr \ {0}
ASSUME MountsAssumption ==
  Mounts \subseteq [baseline : Addr, bytes : Addr, sector : Addr, overlay : Addr,
                    overlayBytes : Addr, map : Addr, mapBytes : Addr, max : Addr]
ASSUME CallsAssumption ==
  Calls \subseteq [op : {"read", "write"}, offset : Addr, bytes : Addr, buf : Addr]

VARIABLES
  mem,        \* the memory
  volume,     \* struct uf_cow_volume
  call,       \* the read or write that is going on, and how far it got
  result      \* "OK", or the error the call is about to return

vars == <<mem, volume, call, result>>

NoVolume == [baseline |-> NULL, overlay |-> NULL, map |-> NULL, bytes |-> 0,
             sector |-> 1, max |-> 0, dirty |-> 0]
NoCall == [op |-> "none", offset |-> 0, bytes |-> 0, buf |-> NULL, position |-> 0]

Init ==
  /\ mem = Memory
  /\ volume = NoVolume
  /\ call = NoCall
  /\ result = "OK"

-----------------------------------------------------------------------------
(* Addresses *)

At(p, i) == (p + i) % Width

(* How far address a lies beyond p: a belongs to the n bytes at p when it  *)
(* is less than n.                                                         *)
Off(a, p) == (a - p) % Width

IsObject(p, n) == p # NULL /\ p + n <= Width

RangesOverlapNone(p, n, q, k) == FALSE

RangesOverlap(p, n, q, k) ==
  /\ n # 0 /\ k # 0
  /\ IF p <= q THEN q - p < n ELSE p - q < k

-----------------------------------------------------------------------------
(* The volume *)

SectorCount == volume.bytes \div volume.sector
Mark(s) == mem[At(volume.map, s)]
Sectors == 0 .. SectorCount - 1

(* A caller that overwrites a mark is modelled by adding 2 to it, so that  *)
(* it can still be told what the sector held.                              *)
IsDirty(s) == Mark(s) % 2 = 1
Corrupt(s) == Mark(s) > 1

ValidVolume ==
  /\ volume.baseline # NULL /\ volume.overlay # NULL /\ volume.map # NULL
  /\ volume.bytes # 0 /\ volume.bytes % volume.sector = 0
  /\ volume.max \in 1 .. SectorCount
  /\ volume.dirty <= volume.max

AllowedRange(offset, n) ==
  /\ offset <= volume.bytes
  /\ n <= volume.bytes - offset

ExternalBytes(buf, n) ==
  \/ n = 0
  \/ /\ buf # NULL
     /\ ~RangesOverlap(buf, n, volume.baseline, volume.bytes)
     /\ ~RangesOverlap(buf, n, volume.overlay, volume.bytes)
     /\ ~RangesOverlap(buf, n, volume.map, SectorCount)

GoodLayout(m) ==
  /\ m.baseline # NULL /\ m.overlay # NULL /\ m.map # NULL
  /\ m.sector \in SectorSizes
  /\ m.bytes # 0 /\ m.bytes % m.sector = 0 /\ m.overlayBytes >= m.bytes
  /\ LET sectors == m.bytes \div m.sector IN
     /\ m.mapBytes >= sectors /\ m.max \in 1 .. sectors
     /\ ~RangesOverlap(m.baseline, m.bytes, m.overlay, m.bytes)
     /\ ~RangesOverlap(m.baseline, m.bytes, m.map, sectors)
     /\ ~RangesOverlap(m.overlay, m.bytes, m.map, sectors)

Idle == call = NoCall /\ result = "OK"

(* bound: one volume per behaviour *)
Mount(m) ==
  /\ Idle /\ volume = NoVolume
  /\ IsObject(m.baseline, m.bytes) /\ IsObject(m.overlay, m.overlayBytes) /\ IsObject(m.map, m.mapBytes)
  /\ GoodLayout(m)
  /\ volume' = [baseline |-> m.baseline, overlay |-> m.overlay, map |-> m.map, bytes |-> m.bytes,
                sector |-> m.sector, max |-> m.max, dirty |-> 0]
  /\ mem' = [a \in Addr |->
               IF Off(a, m.overlay) < m.bytes \/ Off(a, m.map) < m.bytes \div m.sector
               THEN 0 ELSE mem[a]]
  /\ UNCHANGED <<call, result>>

MountRefused(m) ==
  /\ Idle /\ volume = NoVolume
  /\ ~GoodLayout(m)
  /\ result' = "INVALID"
  /\ UNCHANGED <<mem, volume, call>>

-----------------------------------------------------------------------------
(* Reads and writes: the checks, in their order *)

Touched(offset, n) ==
  IF n = 0 THEN {}
  ELSE offset \div volume.sector .. (offset + n - 1) \div volume.sector

NeededAtAll(offset, n) == IF Touched(offset, n) = {} THEN 0 ELSE 1

(* The sectors that a write makes dirty. *)
Needed(offset, n) == Cardinality({s \in Touched(offset, n) : Mark(s) = 0})

Verdict(c) ==
  IF ~ValidVolume THEN "INVALID"
  ELSE IF ~AllowedRange(c.offset, c.bytes) THEN "RANGE"
  ELSE IF ~ExternalBytes(c.buf, c.bytes) THEN "INVALID"
  ELSE IF \E s \in Touched(c.offset, c.bytes) : Corrupt(s) THEN "STATE"
  ELSE IF c.op = "write" /\ Needed(c.offset, c.bytes) > volume.max - volume.dirty THEN "CAPACITY"
  ELSE "OK"

Begin(c) ==
  /\ Idle
  /\ c.bytes = 0 \/ c.buf = NULL \/ IsObject(c.buf, c.bytes)
  /\ result' = Verdict(c)
  /\ call' = IF result' = "OK"
             THEN [op |-> c.op, offset |-> c.offset, bytes |-> c.bytes, buf |-> c.buf,
                   position |-> c.offset]
             ELSE NoCall
  /\ UNCHANGED <<mem, volume>>

-----------------------------------------------------------------------------
(* One sector of a call.  Its chunk is what the call has left, up to the   *)
(* end of the sector.                                                      *)

Rest == call.offset + call.bytes - call.position
Sector == call.position \div volume.sector
Chunk == LET room == volume.sector - (call.position % volume.sector)
         IN  IF room > Rest THEN Rest ELSE room

SourceOverlay(s) == volume.overlay

Source(s) == IF Mark(s) # 0 THEN volume.overlay ELSE volume.baseline

(* The offsets of the volume that are in this chunk. *)
InChunk(i) == call.position <= i /\ i < call.position + Chunk

Advance == call' = [call EXCEPT !.position = @ + Chunk]

ReadSector ==
  /\ call.op = "read" /\ Rest > 0
  /\ mem' = [a \in Addr |->
               LET i == call.offset + Off(a, call.buf) IN
               IF InChunk(i) THEN mem[At(Source(Sector), i)] ELSE mem[a]]
  /\ Advance
  /\ UNCHANGED <<volume, result>>

WriteSectorBare ==
  /\ call.op = "write" /\ Rest > 0
  /\ mem' = [a \in Addr |->
               LET i == Off(a, volume.overlay) IN
               IF InChunk(i) THEN mem[At(call.buf, i - call.offset)]
               ELSE IF a = At(volume.map, Sector) THEN 1
               ELSE mem[a]]
  /\ volume' = [volume EXCEPT !.dirty = IF Mark(Sector) = 0 THEN @ + 1 ELSE @]
  /\ Advance
  /\ UNCHANGED result

(* The first write to a sector brings its baseline to the overlay.         *)
WriteSector ==
  /\ call.op = "write" /\ Rest > 0
  /\ LET first == Mark(Sector) = 0 IN
     /\ mem' = [a \in Addr |->
                  LET i == Off(a, volume.overlay) IN
                  IF InChunk(i) THEN mem[At(call.buf, i - call.offset)]
                  ELSE IF first /\ i < volume.bytes /\ i \div volume.sector = Sector
                       THEN mem[At(volume.baseline, i)]
                  ELSE IF first /\ a = At(volume.map, Sector) THEN 1
                  ELSE mem[a]]
     /\ volume' = [volume EXCEPT !.dirty = IF first THEN @ + 1 ELSE @]
  /\ Advance
  /\ UNCHANGED result

Return ==
  /\ ~Idle /\ Rest = 0
  /\ call' = NoCall
  /\ result' = "OK"
  /\ UNCHANGED <<mem, volume>>

Discard ==
  /\ Idle /\ ValidVolume
  /\ mem' = [a \in Addr |->
               IF \/ Off(a, volume.overlay) < volume.bytes
                  \/ Off(a, volume.map) < SectorCount
               THEN 0 ELSE mem[a]]
  /\ volume' = [volume EXCEPT !.dirty = 0]
  /\ UNCHANGED <<call, result>>

-----------------------------------------------------------------------------
(* The caller, between two calls: it fills its own memory, or damages a    *)
(* mark.                                                                   *)

Own(a) ==
  /\ Off(a, volume.baseline) >= volume.bytes
  /\ Off(a, volume.overlay) >= volume.bytes
  /\ Off(a, volume.map) >= SectorCount

Fill(a, b) ==
  /\ Idle /\ volume # NoVolume /\ Own(a)
  /\ mem' = [mem EXCEPT ![a] = b]
  /\ UNCHANGED <<volume, call, result>>

Damage(s) ==
  /\ Idle /\ ~Corrupt(s)
  /\ mem' = [mem EXCEPT ![At(volume.map, s)] = @ + 2]
  /\ UNCHANGED <<volume, call, result>>

Next ==
  \/ \E m \in Mounts : Mount(m) \/ MountRefused(m)
  \/ \E c \in Calls : Begin(c)
  \/ ReadSector \/ WriteSector \/ Return \/ Discard
  \/ \E a \in Addr \ {NULL}, b \in Poke : Fill(a, b)
  \/ \E s \in Sectors : Damage(s)

Spec == Init /\ [][Next]_vars
-----------------------------------------------------------------------------
(* The flat volume behind it *)

Index == 0 .. volume.bytes - 1

Data == [k \in 0 .. call.bytes - 1 |-> mem[At(call.buf, k)]]

Held(i) == IF IsDirty(i \div volume.sector) THEN mem[At(volume.overlay, i)]
           ELSE mem[At(volume.baseline, i)]

(* What a write that was accepted has not copied yet counts as written. *)
Content ==
  [i \in Index |->
     IF call.op = "write" /\ call.position <= i /\ i < call.offset + call.bytes
     THEN mem[At(call.buf, i - call.offset)]
     ELSE Held(i)]

Frozen == [i \in Index |-> mem[At(volume.baseline, i)]]

Request ==
  IF call = NoCall THEN [op |-> "none"]
  ELSE [op |-> call.op, first |-> call.offset,
        data |-> IF call.op = "write" THEN Data ELSE <<>>]

Flat == INSTANCE FlatVolume WITH frozen <- Frozen, content <- Content, request <- Request

-----------------------------------------------------------------------------
(* Properties *)

(* The copy-on-write volume is a flat one: writes that cross sectors, and  *)
(* begin or end inside of one, change their bytes and no others; refused   *)
(* ones change none; a discard brings the baseline back, which nothing     *)
(* ever changed.                                                           *)
ImplementsFlatVolume == Flat!Spec

(* A read that ends has put the bytes of the volume into the buffer. *)
ReadsAreRight ==
  call.op = "read" /\ Rest = 0 =>
    \A k \in 0 .. call.bytes - 1 : mem[At(call.buf, k)] = Content[call.offset + k]

(* The sectors that count as dirty are those that are, also in the middle  *)
(* of a write, and there are never more of them than was allowed.          *)
DirtyWithinCapacity ==
  /\ volume.dirty = Cardinality({s \in Sectors : IsDirty(s)})
  /\ volume.dirty <= volume.max

(* A write changes the overlay and the marks, a read the buffer it was     *)
(* given: never the baseline or anything else in the caller's memory,      *)
(* whatever pointers and sizes a call is given.                            *)
NothingElseWritten ==
  [][~Idle => \A a \in Addr : mem'[a] # mem[a] =>
       /\ Off(a, volume.baseline) >= volume.bytes
       /\ IF call.op = "read" THEN Off(a, call.buf) < call.bytes
          ELSE Off(a, volume.overlay) < volume.bytes \/ Off(a, volume.map) < SectorCount]_vars
=============================================================================
