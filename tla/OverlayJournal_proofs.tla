----------------------- MODULE OverlayJournal_proofs -----------------------
(***************************************************************************)
(* Proofs about the journal of an overlay, for every set of paths and      *)
(* contents and every sequence of failures and crashes: the payload of a   *)
(* confirmed write never changes, a session reads what it promised, and    *)
(* until something is appended to a damaged tail a reopen recovers it.     *)
(* Then about the preparation of an NT commit, for every number of calls:  *)
(* a session with such calls is a session of OverlayJournal, and a plan    *)
(* that passes is right.                                                   *)
(***************************************************************************)
EXTENDS NtPreview, TLAPS

Held == Value \cup {Removed}

Types ==
  /\ payload \in [Id -> Value \cup {None}]
  /\ lines \subseteq Line
  /\ seq \in Nat
  /\ pc \in {"down", "idle", "append", "appended"}
  /\ pending \in [key : Key, src : Nat, val : Held]
  /\ table \in [Key -> Line]
  /\ acked \in [Key -> Held \cup {None}]
  /\ maybe \in [Key -> SUBSET Held]

(* Any lines have a newest one: what makes the maximum _load_journal       *)
(* computes exist, also after the last line was spoiled.                   *)
NewestExists == \A ls \in SUBSET lines : ls # {} => Newest(ls) # {}

(* Sequence numbers of a running session are ahead of the journal and of   *)
(* its tables, and a record refers to a payload no newer than itself.      *)
RefersBack(l) == l.src <= l.seq /\ (l.src # 0 => l.src \in Id)

Fresh ==
  /\ pc # "down" => /\ \A l \in lines : l.seq <= seq
                    /\ \A k \in Key : table[k].seq <= seq
  /\ \A l \in lines : RefersBack(l)
  /\ \A k \in Key : RefersBack(table[k]) /\ table[k].key = k
  /\ pc = "append" => seq + 1 \in Id /\ pending.src \in {0, seq + 1}
  /\ pc = "appended" => seq \in Id /\ pending.src \in {0, seq}

(* The operation under way has its marker or its payload. *)
InPlace ==
  pc \in {"append", "appended"} =>
    IF pending.src = 0 THEN pending.key \in marker /\ pending.val = Removed
                       ELSE payload[pending.src] = pending.val /\ pending.val \in Value

AllBacked == \A l \in lines : Backed(l)

(* A line that was written is what a reopen finds for its key. *)
AppendedIsNewest ==
  pc = "appended" /\ tail # "broken" => Recovered(pending.key) = pending.val

IInv ==
  /\ Types /\ NewestExists /\ Fresh /\ InPlace /\ AllBacked
  /\ AppendedIsNewest /\ SessionReadsWhatItPromised /\ AcknowledgedRecovered

-----------------------------------------------------------------------------
(* The loader *)

(* Every line is backed, so the newest record of a key is loaded. *)
LEMMA LoadedIsNewest ==
  ASSUME IInv, NEW k \in Key
  PROVE  IF OfKey(k) = {} THEN LoadedLine(k) = NoLine(k)
                          ELSE LoadedLine(k) \in Newest(OfKey(k))
<1>1. CASE OfKey(k) = {}
  BY <1>1 DEF LoadedLine, Newest
<1>2. CASE OfKey(k) # {}
  <2>1. OfKey(k) \in SUBSET lines
    BY DEF OfKey
  <2>2. PICK l \in Newest(OfKey(k)) : TRUE
    BY <1>2, <2>1 DEF IInv, NewestExists
  <2>3. Backed(l)
    BY <2>1, <2>2 DEF IInv, AllBacked, Newest
  <2> QED BY <1>2, <2>2, <2>3 DEF LoadedLine
<1> QED BY <1>1, <1>2

LEMMA LoadedType ==
  ASSUME IInv, NEW k \in Key
  PROVE  /\ LoadedLine(k) \in Line
         /\ LoadedLine(k).key = k
         /\ RefersBack(LoadedLine(k))
         /\ Recovered(k) \in Held \cup {None}
<1>1. CASE OfKey(k) = {}
  BY <1>1, LoadedIsNewest DEF NoLine, Line, RefersBack, Recovered, Content
<1>2. CASE OfKey(k) # {}
  <2>1. LoadedLine(k) \in lines /\ LoadedLine(k).key = k
    BY <1>2, LoadedIsNewest DEF Newest, OfKey
  <2>2. LoadedLine(k) \in Line /\ RefersBack(LoadedLine(k))
    BY <2>1 DEF IInv, Types, Fresh
  <2>3. Recovered(k) \in Held \cup {None}
    BY <2>2 DEF Recovered, Content, Held, RefersBack, Line, IInv, Types
  <2> QED BY <2>1, <2>2, <2>3
<1> QED BY <1>1, <1>2

(* The sequence number a reopen starts from is at least that of any line. *)
LEMMA LoadedSeqIsMaximal ==
  ASSUME IInv
  PROVE  LoadedSeq \in Nat /\ \A l \in lines : l.seq <= LoadedSeq
<1>1. CASE lines = {}
  BY <1>1 DEF LoadedSeq
<1>2. CASE lines # {}
  <2>1. lines \in SUBSET lines
    OBVIOUS
  <2>2. Newest(lines) # {}
    BY <1>2, <2>1 DEF IInv, NewestExists
  <2> QED BY <2>2, <1>2 DEF LoadedSeq, Newest, IInv, Types, Line
<1> QED BY <1>1, <1>2

(* Of keys whose lines, payloads and marker are what they were, the same   *)
(* is recovered.                                                           *)
LEMMA RecoveredUnchanged ==
  ASSUME IInv, NEW k \in Key, OfKey(k)' = OfKey(k),
         \A l \in OfKey(k) : Backed(l)',
         \A l \in lines : l.src # 0 => payload'[l.src] = payload[l.src]
  PROVE  Recovered(k)' = Recovered(k)
<1>1. Newest(OfKey(k)') = Newest(OfKey(k))
  OBVIOUS
<1>2. \A l \in Newest(OfKey(k)) : Backed(l) /\ Backed(l)'
  BY DEF Newest, OfKey, IInv, AllBacked
<1>3. LoadedLine(k)' = IF \E l \in Newest(OfKey(k)) : Backed(l)'
                         THEN CHOOSE l \in Newest(OfKey(k)) : Backed(l)'
                         ELSE NoLine(k)
  BY <1>1 DEF LoadedLine
<1>4. LoadedLine(k)' = LoadedLine(k)
  BY <1>2, <1>3 DEF LoadedLine
<1>5. CASE OfKey(k) = {}
  BY <1>4, <1>5, LoadedIsNewest DEF Recovered, Content, NoLine
<1>6. CASE OfKey(k) # {}
  <2>1. LoadedLine(k) \in lines
    BY <1>6, LoadedIsNewest DEF Newest, OfKey
  <2> QED BY <1>4, <2>1 DEF Recovered, Content
<1> QED BY <1>5, <1>6

-----------------------------------------------------------------------------
(* Appending a line *)

LEMMA RecIsNew ==
  ASSUME IInv, pc = "append"
  PROVE  /\ Rec \in Line /\ Rec.seq = seq + 1 /\ Rec.key = pending.key
         /\ RefersBack(Rec) /\ Backed(Rec) /\ Content(Rec) = pending.val
         /\ \A l \in lines : l.seq \in Nat /\ l.seq < Rec.seq
<1> USE DEF IInv, Types, Fresh
<1>1. Rec \in Line /\ Rec.seq = seq + 1 /\ Rec.key = pending.key /\ Rec.src = pending.src
  BY DEF Rec, Line
<1>2. RefersBack(Rec)
  BY <1>1 DEF RefersBack
<1>3. Backed(Rec) /\ Content(Rec) = pending.val
  BY <1>1, ValueAssumption DEF Backed, Content, InPlace
<1>4. \A l \in lines : l.seq \in Nat /\ l.seq < Rec.seq
  BY <1>1 DEF Line
<1> QED BY <1>1, <1>2, <1>3, <1>4

(* Whole or not, the line leaves readable ones in order. *)
LEMMA AppendKeepsOrder ==
  ASSUME IInv, pc = "append", NEW t \in {"clean", "whole", "torn"}, Append(t)
  PROVE  /\ lines' \subseteq Line
         /\ \A l \in lines' : l.seq <= seq + 1 /\ RefersBack(l) /\ Backed(l)
         /\ NewestExists'
         /\ tail' # "broken" => tail # "broken" /\ lines' \in {lines, lines \cup {Rec}}
         /\ t = "clean" /\ tail' # "broken" => lines' = lines \cup {Rec}
<1>1. lines' \subseteq lines \cup {Rec}
  BY DEF Append
<1>2. /\ lines' \subseteq Line
      /\ \A l \in lines' : l.seq <= seq + 1 /\ RefersBack(l) /\ Backed(l)
  <2>1. \A l \in lines : l \in Line /\ l.seq <= seq + 1 /\ RefersBack(l) /\ Backed(l)
    BY RecIsNew DEF IInv, Types, Fresh, AllBacked
  <2> QED BY <1>1, <2>1, RecIsNew DEF IInv, Types
<1>3. ASSUME NEW ls \in SUBSET lines', ls # {} PROVE Newest(ls) # {}
  <2>1. CASE Rec \in ls
    <3>1. \A l \in ls : l.seq <= Rec.seq
      BY <1>1, RecIsNew DEF Line
    <3> QED BY <2>1, <3>1 DEF Newest
  <2>2. CASE Rec \notin ls
    <3>1. ls \in SUBSET lines
      BY <1>1, <2>2
    <3> QED BY <3>1, <1>3 DEF IInv, NewestExists
  <2> QED BY <2>1, <2>2
<1>4. NewestExists'
  BY <1>3 DEF NewestExists, Newest
<1>5. /\ tail' # "broken" => tail # "broken" /\ lines' \in {lines, lines \cup {Rec}}
      /\ t = "clean" /\ tail' # "broken" => lines' = lines \cup {Rec}
  BY DEF Append
<1> QED BY <1>2, <1>4, <1>5

(* A line that is readable is what its key recovers, and only that key. *)
LEMMA AppendRecovers ==
  ASSUME IInv, pc = "append", lines' = lines \cup {Rec}, UNCHANGED <<payload, marker>>,
         NEW k \in Key
  PROVE  Recovered(k)' = IF k = pending.key THEN pending.val ELSE Recovered(k)
<1>0. PICK r : r = Rec
  OBVIOUS
<1>1. CASE k = pending.key
  <2>1. OfKey(k)' = OfKey(k) \cup {r}
    BY <1>0, <1>1, RecIsNew DEF OfKey
  <2>2. \A l \in OfKey(k) : l.seq \in Nat /\ l.seq < r.seq
    BY <1>0, RecIsNew DEF OfKey
  <2>3. Newest(OfKey(k)') = {r}
    BY <1>0, <2>1, <2>2, RecIsNew DEF Newest, Line
  <2>4. Backed(r) /\ Content(r) = pending.val
    BY <1>0, RecIsNew
  <2>5. Backed(r)'
    BY <2>4 DEF Backed
  <2>6. LoadedLine(k)' = r
    BY <2>3, <2>5 DEF LoadedLine
  <2>7. Recovered(k)' = Content(r)
    BY <2>6 DEF Recovered, Content
  <2> QED BY <1>1, <2>4, <2>7
<1>2. CASE k # pending.key
  <2>1. OfKey(k)' = OfKey(k)
    BY <1>2, RecIsNew DEF OfKey
  <2>2. \A l \in OfKey(k) : Backed(l)'
    BY DEF OfKey, Backed, IInv, AllBacked
  <2> QED BY <1>2, <2>1, <2>2, RecoveredUnchanged
<1> QED BY <1>1, <1>2

-----------------------------------------------------------------------------
(* The invariant *)

LEMMA IInvInit == Init => IInv
<1> SUFFICES ASSUME Init PROVE IInv
  OBVIOUS
<1>1. PICK k \in Key : pending = Removal(k)
  BY DEF Init
<1>2. Types
  BY <1>1, ValueAssumption DEF Init, Types, Removal, NoLine, Line, Held
<1>3. \A j \in Key : Recovered(j) = None
  BY DEF Init, Recovered, LoadedLine, Content, OfKey, Newest, NoLine
<1>4. \A j \in Key : Content(table[j]) = None
  BY DEF Init, Content, NoLine
<1> QED BY <1>2, <1>3, <1>4 DEF Init, IInv, NewestExists, Fresh, RefersBack, NoLine, InPlace,
           AllBacked, AppendedIsNewest, SessionReadsWhatItPromised, AcknowledgedRecovered,
           MayRecover

LEMMA PutWriteKeepsIInv ==
  ASSUME IInv, NEW k \in Key, NEW v \in Value, PutWrite(k, v)
  PROVE  IInv'
<1> USE DEF PutWrite, memory
<1>1. seq + 1 \in Id
  BY MaxSeqAssumption DEF Id, IInv, Types
<1>2. Types' /\ NewestExists' /\ Fresh'
  BY <1>1 DEF IInv, Types, Held, NewestExists, Newest, Fresh, RefersBack
<1>3. InPlace'
  BY <1>1 DEF IInv, Types, InPlace
<1>4. ASSUME NEW l \in Line, RefersBack(l), l.seq <= seq, l.src # 0
      PROVE  payload'[l.src] = payload[l.src]
  BY <1>1, <1>4 DEF IInv, Types, RefersBack, Line
<1>5. \A l \in lines : l.src # 0 => payload'[l.src] = payload[l.src]
  BY <1>4 DEF IInv, Types, Fresh
<1>6. AllBacked'
  BY <1>5 DEF IInv, AllBacked, Backed
<1>7. \A j \in Key : Recovered(j)' = Recovered(j)
  BY <1>5, <1>6, RecoveredUnchanged DEF OfKey, AllBacked
<1>8. SessionReadsWhatItPromised'
  <2>1. \A j \in Key : table[j].src # 0 => payload'[table[j].src] = payload[table[j].src]
    BY <1>4 DEF IInv, Types, Fresh
  <2> QED BY <2>1 DEF IInv, SessionReadsWhatItPromised, Content
<1>9. AcknowledgedRecovered'
  BY <1>7 DEF IInv, AcknowledgedRecovered, MayRecover
<1> QED BY <1>2, <1>3, <1>6, <1>8, <1>9 DEF IInv, AppendedIsNewest

LEMMA PutRemoveKeepsIInv ==
  ASSUME IInv, NEW k \in Key, PutRemove(k)
  PROVE  IInv'
<1> USE DEF PutRemove, memory
<1>1. Types' /\ NewestExists' /\ Fresh'
  BY MaxSeqAssumption DEF Removal, IInv, Types, Held, NewestExists, Newest, Fresh, RefersBack, Id
<1>2. InPlace'
  BY DEF Removal, IInv, InPlace
<1>3. AllBacked'
  BY DEF IInv, AllBacked, Backed
<1>4. \A j \in Key : Recovered(j)' = Recovered(j)
  BY <1>3, RecoveredUnchanged DEF OfKey, AllBacked
<1>5. SessionReadsWhatItPromised' /\ AcknowledgedRecovered'
  BY <1>4 DEF IInv, SessionReadsWhatItPromised, Content, AcknowledgedRecovered, MayRecover
<1> QED BY <1>1, <1>2, <1>3, <1>5 DEF IInv, AppendedIsNewest

(* What an append may do to what is recovered. *)
LEMMA AppendOutcome ==
  ASSUME IInv, pc = "append", UNCHANGED <<payload, marker>>,
         (\E t \in {"clean", "whole", "torn"} : Append(t)) \/ UNCHANGED <<lines, tail>>
  PROVE  /\ lines' \subseteq Line
         /\ \A l \in lines' : l.seq <= seq + 1 /\ RefersBack(l)
         /\ NewestExists' /\ AllBacked'
         /\ tail' # "broken" =>
              /\ tail # "broken"
              /\ \A k \in Key :
                   Recovered(k)' = Recovered(k) \/ (k = pending.key /\ Recovered(k)' = pending.val)
<1>1. CASE UNCHANGED <<lines, tail>>
  <2>1. AllBacked'
    BY <1>1 DEF IInv, AllBacked, Backed
  <2>2. \A k \in Key : Recovered(k)' = Recovered(k)
    BY <1>1, <2>1, RecoveredUnchanged DEF OfKey, AllBacked
  <2>3. NewestExists'
    BY <1>1 DEF IInv, NewestExists, Newest
  <2> QED BY <1>1, <2>1, <2>2, <2>3 DEF IInv, Types, Fresh, Line
<1>2. CASE \E t \in {"clean", "whole", "torn"} : Append(t)
  <2>1. PICK t \in {"clean", "whole", "torn"} : Append(t)
    BY <1>2
  <2>2. /\ lines' \subseteq Line
        /\ \A l \in lines' : l.seq <= seq + 1 /\ RefersBack(l) /\ Backed(l)
        /\ NewestExists'
        /\ tail' # "broken" => tail # "broken" /\ lines' \in {lines, lines \cup {Rec}}
    BY <2>1, AppendKeepsOrder
  <2>3. AllBacked'
    BY <2>2 DEF AllBacked, Backed
  <2>4. ASSUME lines' = lines, NEW k \in Key PROVE Recovered(k)' = Recovered(k)
    BY <2>3, <2>4, RecoveredUnchanged DEF OfKey, AllBacked
  <2>5. ASSUME lines' = lines \cup {Rec}, NEW k \in Key
        PROVE  Recovered(k)' = IF k = pending.key THEN pending.val ELSE Recovered(k)
    BY <2>5, AppendRecovers
  <2> QED BY <2>2, <2>3, <2>4, <2>5
<1> QED BY <1>1, <1>2

LEMMA AppendLineKeepsIInv ==
  ASSUME IInv, AppendLine
  PROVE  IInv'
<1> USE DEF AppendLine
<1>1. /\ lines' \subseteq Line
      /\ \A l \in lines' : l.seq <= seq + 1 /\ RefersBack(l)
      /\ NewestExists' /\ AllBacked'
      /\ tail' # "broken" =>
           /\ tail # "broken"
           /\ \A k \in Key :
                Recovered(k)' = Recovered(k) \/ (k = pending.key /\ Recovered(k)' = pending.val)
  BY AppendOutcome
<1>2. Types' /\ Fresh' /\ InPlace'
  BY <1>1 DEF IInv, Types, Fresh, RefersBack, InPlace, Line
<1>3. ASSUME tail' # "broken" PROVE Recovered(pending.key)' = pending.val
  <2>1. lines' = lines \cup {Rec}
    BY <1>3, AppendKeepsOrder
  <2>2. pending.key \in Key
    BY DEF IInv, Types
  <2> QED BY <2>1, <2>2, AppendRecovers
<1>4. AppendedIsNewest'
  BY <1>3 DEF AppendedIsNewest, Recovered, LoadedLine, OfKey
<1>5. AcknowledgedRecovered'
  BY <1>1 DEF IInv, AcknowledgedRecovered, MayRecover
<1>6. SessionReadsWhatItPromised'
  BY DEF IInv, SessionReadsWhatItPromised, Content
<1> QED BY <1>1, <1>2, <1>4, <1>5, <1>6 DEF IInv

LEMMA AppendFailsKeepsIInv ==
  ASSUME IInv, AppendFails
  PROVE  IInv'
<1> USE DEF AppendFails, Failed
<1>1. /\ lines' \subseteq Line
      /\ \A l \in lines' : l.seq <= seq + 1 /\ RefersBack(l)
      /\ NewestExists' /\ AllBacked'
      /\ tail' # "broken" =>
           /\ tail # "broken"
           /\ \A k \in Key :
                Recovered(k)' = Recovered(k) \/ (k = pending.key /\ Recovered(k)' = pending.val)
  BY AppendOutcome
<1>2. Types' /\ Fresh' /\ InPlace'
  BY <1>1 DEF IInv, Types, Fresh, RefersBack, InPlace, Line
<1>3. AcknowledgedRecovered'
  BY <1>1 DEF IInv, Types, AcknowledgedRecovered, MayRecover
<1>4. SessionReadsWhatItPromised'
  BY DEF IInv, SessionReadsWhatItPromised, Content
<1> QED BY <1>1, <1>2, <1>3, <1>4 DEF IInv, AppendedIsNewest

(* Steps that leave the files alone leave alone what a reopen recovers. *)
LEMMA SameFilesSameRecovery ==
  ASSUME IInv, UNCHANGED disk
  PROVE  /\ NewestExists' /\ AllBacked'
         /\ \A k \in Key : Recovered(k)' = Recovered(k)
<1>1. NewestExists' /\ AllBacked'
  BY DEF disk, IInv, NewestExists, Newest, AllBacked, Backed
<1>2. \A k \in Key : Recovered(k)' = Recovered(k)
  BY <1>1, RecoveredUnchanged DEF disk, OfKey, AllBacked
<1> QED BY <1>1, <1>2

LEMMA ConfirmKeepsIInv ==
  ASSUME IInv, Confirm
  PROVE  IInv'
<1> USE DEF Confirm, disk
<1>1. NewestExists' /\ AllBacked' /\ \A k \in Key : Recovered(k)' = Recovered(k)
  BY SameFilesSameRecovery
<1>2. Types' /\ Fresh' /\ InPlace'
  BY DEF IInv, Types, Fresh, RefersBack, InPlace, Line, Id
<1>3. AcknowledgedRecovered'
  BY <1>1 DEF IInv, Types, AcknowledgedRecovered, AppendedIsNewest, MayRecover
<1>4. SessionReadsWhatItPromised'
  BY DEF IInv, Types, Fresh, InPlace, SessionReadsWhatItPromised, Content, Id
<1> QED BY <1>1, <1>2, <1>3, <1>4 DEF IInv, AppendedIsNewest

LEMMA CrashKeepsIInv ==
  ASSUME IInv, Crash
  PROVE  IInv'
<1> USE DEF Crash, Failed, memory
<1>1. CASE pc = "append"
  <2>1. /\ lines' \subseteq Line
        /\ \A l \in lines' : l.seq <= seq + 1 /\ RefersBack(l)
        /\ NewestExists' /\ AllBacked'
        /\ tail' # "broken" =>
             /\ tail # "broken"
             /\ \A k \in Key :
                  Recovered(k)' = Recovered(k) \/ (k = pending.key /\ Recovered(k)' = pending.val)
    BY <1>1, AppendOutcome
  <2>2. Types' /\ Fresh' /\ InPlace'
    BY <1>1, <2>1 DEF IInv, Types, Fresh, RefersBack, InPlace, Line
  <2>3. AcknowledgedRecovered'
    BY <1>1, <2>1 DEF IInv, Types, AcknowledgedRecovered, MayRecover
  <2> QED BY <2>1, <2>2, <2>3 DEF IInv, AppendedIsNewest, SessionReadsWhatItPromised
<1>2. CASE pc # "append"
  <2>1. UNCHANGED disk
    BY <1>2 DEF disk
  <2>2. NewestExists' /\ AllBacked' /\ \A k \in Key : Recovered(k)' = Recovered(k)
    BY <2>1, SameFilesSameRecovery
  <2>3. Types' /\ Fresh' /\ InPlace'
    BY <1>2 DEF IInv, Types, Fresh, RefersBack, InPlace
  <2>4. AcknowledgedRecovered'
    BY <1>2, <2>2 DEF IInv, Types, AcknowledgedRecovered, MayRecover
  <2> QED BY <2>2, <2>3, <2>4 DEF IInv, AppendedIsNewest, SessionReadsWhatItPromised
<1> QED BY <1>1, <1>2

LEMMA ReopenKeepsIInv ==
  ASSUME IInv, Reopen
  PROVE  IInv'
<1> USE DEF Reopen, disk
<1>1. NewestExists' /\ AllBacked' /\ \A k \in Key : Recovered(k)' = Recovered(k)
  BY SameFilesSameRecovery
<1>2. \A k \in Key : /\ LoadedLine(k) \in Line
                     /\ LoadedLine(k).key = k
                     /\ RefersBack(LoadedLine(k))
                     /\ Recovered(k) \in Held \cup {None}
  BY LoadedType
<1>3. \A k \in Key : LoadedLine(k).seq <= LoadedSeq
  <2> SUFFICES ASSUME NEW k \in Key PROVE LoadedLine(k).seq <= LoadedSeq
    OBVIOUS
  <2>1. CASE OfKey(k) = {}
    BY <2>1, LoadedIsNewest, LoadedSeqIsMaximal DEF NoLine
  <2>2. CASE OfKey(k) # {}
    BY <2>2, LoadedIsNewest, LoadedSeqIsMaximal DEF Newest, OfKey
  <2> QED BY <2>1, <2>2
<1>4. Types' /\ Fresh' /\ InPlace'
  BY <1>2, <1>3, LoadedSeqIsMaximal DEF IInv, Types, Fresh, RefersBack, InPlace
<1>5. SessionReadsWhatItPromised' /\ AcknowledgedRecovered'
  BY <1>1 DEF SessionReadsWhatItPromised, Recovered, Content, AcknowledgedRecovered, MayRecover
<1> QED BY <1>1, <1>4, <1>5 DEF IInv, AppendedIsNewest

LEMMA IInvStep == IInv /\ [Next]_vars => IInv'
<1> SUFFICES ASSUME IInv, [Next]_vars PROVE IInv'
  OBVIOUS
<1>1. CASE Next
  BY <1>1, PutRemoveKeepsIInv, PutWriteKeepsIInv, AppendLineKeepsIInv, AppendFailsKeepsIInv,
     ConfirmKeepsIInv, CrashKeepsIInv, ReopenKeepsIInv DEF Next
<1>2. CASE UNCHANGED vars
  <2>1. NewestExists' /\ AllBacked' /\ \A k \in Key : Recovered(k)' = Recovered(k)
    BY <1>2, SameFilesSameRecovery DEF vars
  <2>2. Types' /\ Fresh' /\ InPlace'
    BY <1>2 DEF vars, disk, memory, IInv, Types, Fresh, RefersBack, InPlace
  <2>3. AppendedIsNewest'
    BY <1>2, <2>1 DEF vars, disk, IInv, Types, AppendedIsNewest
  <2>4. SessionReadsWhatItPromised' /\ AcknowledgedRecovered'
    BY <1>2, <2>1 DEF vars, disk, memory, IInv, SessionReadsWhatItPromised, Content,
       AcknowledgedRecovered, MayRecover
  <2> QED BY <2>1, <2>2, <2>3, <2>4 DEF IInv
<1> QED BY <1>1, <1>2

LEMMA Invariance == Spec => []IInv
BY IInvInit, IInvStep, PTL DEF Spec

-----------------------------------------------------------------------------
(* The payload a readable line refers to never changes: _seq is ahead of   *)
(* the journal whenever an operation takes an identifier, so a write never *)
(* gets the identifier of a confirmed one.                                 *)
THEOREM PayloadsImmutable == Spec => ConfirmedPayloadsImmutable
<1>1. IInv /\ [Next]_vars
        => [\A l \in lines : l.src # 0 => payload'[l.src] = payload[l.src]]_vars
  <2> SUFFICES ASSUME IInv, Next, NEW l \in lines, l.src # 0
               PROVE  payload'[l.src] = payload[l.src]
    OBVIOUS
  <2>1. ASSUME NEW k \in Key, NEW v \in Value, PutWrite(k, v)
        PROVE  payload'[l.src] = payload[l.src]
    <3>1. l.src # seq + 1
      BY <2>1 DEF PutWrite, IInv, Types, Fresh, RefersBack, Line
    <3> QED BY <2>1, <3>1 DEF PutWrite, IInv, Types, Fresh, RefersBack
  <2>2. ASSUME UNCHANGED payload
        PROVE  payload'[l.src] = payload[l.src]
    BY <2>2
  <2> QED BY <2>1, <2>2 DEF Next, PutRemove, AppendLine, AppendFails, Confirm, Crash, Reopen, disk
<1> QED BY <1>1, Invariance, PTL DEF Spec, ConfirmedPayloadsImmutable

(* A running session reads exactly what it promised: the identifiers of    *)
(* its tables are not above _seq, so no write replaces their payloads.     *)
THEOREM SessionReads == Spec => []SessionReadsWhatItPromised
<1>1. IInv => SessionReadsWhatItPromised
  BY DEF IInv
<1> QED BY <1>1, Invariance, PTL

(* Until something was appended to a damaged tail, what an operation       *)
(* promised is recovered by a reopen: its marker or payload is there       *)
(* before its line, and no line before it is read as a newer one.          *)
THEOREM AcknowledgedIsRecovered == Spec => []AcknowledgedRecovered
<1>1. IInv => AcknowledgedRecovered
  BY DEF IInv
<1> QED BY <1>1, Invariance, PTL

-----------------------------------------------------------------------------
(* The preparation of an NT commit *)

(* The calls change nothing of the session: every property of the journal  *)
(* holds with them as it does without.                                     *)
THEOREM CallsAreReadOnly == PSpec => Spec
<1>1. PInit => Init
  BY DEF PInit
<1>2. [PNext]_pvars => [Next]_vars
  BY DEF PNext, pvars, Operates, Confirms, Dies, Reopens, Calls, Goes, Refuse, ScanForOrphans,
         InspectBefore, ReadJournal, LoadNext, PlanIsComplete, InspectAfter, Return,
         CommitCreatesIntent, CommitWritesIntent, CommitGoesOn, IntentRemoved, Next
<1> QED BY <1>1, <1>2, PTL DEF PSpec, Spec

-----------------------------------------------------------------------------
PTypes ==
  /\ ids \in [Key -> Nat]
  /\ step \in {"none", "scan", "before", "journal", "payloads", "after", "passed"}
  /\ gated \in BOOLEAN
  /\ prepared \in [Key -> Held \cup {None}]
  /\ sight \in {"nothing", "commit", "removed"}

(* The session waits for the call. *)
SessionWaits == step # "none" => pc = "idle"

(* _write_payloads is right about the writes that are in ops. *)
IdsKept == pc # "down" => \A k \in Key : table[k].src # 0 => ids[k] = table[k].src

(* How far the plan is. *)
PlanFollows ==
  /\ step \in {"none", "scan", "before", "journal"} => prepared = NothingPlanned
  /\ step = "payloads" =>
       /\ Agrees
       /\ todo \subseteq {l \in {StrictLine(k) : k \in Key} : l.seq # 0}
       /\ \A k \in Key : prepared[k] = IF StrictLine(k) \in todo THEN None
                                       ELSE Content(StrictLine(k))
  /\ step \in {"after", "passed"} =>
       \/ Agrees /\ \A k \in Key : prepared[k] = Content(StrictLine(k))
       \/ prepared = NothingPlanned /\ \A k \in Key : table[k].seq = 0

(* A commit that was in sight during the call still is, or its INTENT was  *)
(* taken away.                                                             *)
CommitInSight == (Reading /\ sight = "commit" => intent # "no") /\ NoCommitUnnoticed

PInv == PTypes /\ SessionWaits /\ IdsKept /\ PlanFollows /\ CommitInSight

-----------------------------------------------------------------------------
(* The two readers of the journal *)

LEMMA StrictIsNewest ==
  ASSUME IInv, NEW k \in Key
  PROVE  IF OfKey(k) = {} THEN StrictLine(k) = NoLine(k)
                          ELSE StrictLine(k) \in Newest(OfKey(k))
<1>1. CASE OfKey(k) = {}
  BY <1>1 DEF StrictLine
<1>2. CASE OfKey(k) # {}
  <2>1. OfKey(k) \in SUBSET lines
    BY DEF OfKey
  <2>2. PICK l \in Newest(OfKey(k)) : l \in OfKey(k)
    BY <1>2, <2>1 DEF IInv, NewestExists, Newest
  <2> QED BY <1>2, <2>2 DEF StrictLine
<1> QED BY <1>1, <1>2

LEMMA StrictType ==
  ASSUME IInv, NEW k \in Key
  PROVE  StrictLine(k) \in Line /\ StrictLine(k).key = k /\ Content(StrictLine(k)) \in Held \cup {None}
<1>1. CASE OfKey(k) = {}
  BY <1>1, StrictIsNewest DEF NoLine, Line, Content
<1>2. CASE OfKey(k) # {}
  <2>1. StrictLine(k) \in lines /\ StrictLine(k).key = k
    BY <1>2, StrictIsNewest DEF Newest, OfKey
  <2>2. StrictLine(k) \in Line /\ RefersBack(StrictLine(k))
    BY <2>1 DEF IInv, Types, Fresh
  <2> QED BY <2>1, <2>2 DEF Content, Held, RefersBack, Line, IInv, Types
<1> QED BY <1>1, <1>2

(* In a well-formed journal they find the same. *)
LEMMA ReadersAgree ==
  ASSUME IInv, WellFormed, NEW k \in Key
  PROVE  Content(StrictLine(k)) = Recovered(k)
<1>1. CASE OfKey(k) = {}
  BY <1>1, StrictIsNewest, LoadedIsNewest DEF Recovered
<1>2. CASE OfKey(k) # {}
  <2>1. StrictLine(k) \in Newest(OfKey(k)) /\ LoadedLine(k) \in Newest(OfKey(k))
    BY <1>2, StrictIsNewest, LoadedIsNewest
  <2>2. StrictLine(k) \in lines /\ LoadedLine(k) \in lines
    BY <2>1 DEF Newest, OfKey
  <2>3. StrictLine(k).seq \in Nat /\ LoadedLine(k).seq \in Nat
    BY <2>2 DEF IInv, Types, Line
  <2>4. StrictLine(k).seq <= LoadedLine(k).seq /\ LoadedLine(k).seq <= StrictLine(k).seq
    BY <2>1 DEF Newest
  <2>5. StrictLine(k).seq = LoadedLine(k).seq
    BY <2>3, <2>4
  <2>6. StrictLine(k) = LoadedLine(k)
    BY <2>2, <2>5 DEF WellFormed
  <2> QED BY <2>6 DEF Recovered
<1> QED BY <1>1, <1>2

(* A journal that agrees with the tables shows what the session reads. *)
LEMMA AgreementIsPromise ==
  ASSUME IInv, IdsKept, Agrees, pc = "idle", NEW k \in Key
  PROVE  Content(StrictLine(k)) = acked[k]
<1>1. Content(StrictLine(k)) = Content(table[k])
  BY DEF Agrees, IdsKept, Content
<1>2. Content(table[k]) = acked[k]
  BY DEF IInv, SessionReadsWhatItPromised
<1> QED BY <1>1, <1>2

(* What a step that leaves the session alone keeps. *)
LEMMA SessionSame ==
  ASSUME UNCHANGED <<vars, ids>>
  PROVE  /\ Agrees' = Agrees
         /\ \A k \in Key : StrictLine(k)' = StrictLine(k)
         /\ \A k \in Key : Content(StrictLine(k))' = Content(StrictLine(k))
         /\ IdsKept => IdsKept'
BY DEF vars, disk, memory, Agrees, WellFormed, LoadedSeq, StrictLine, OfKey, Newest, NoLine,
       Content, IdsKept

-----------------------------------------------------------------------------
LEMMA PInvInit == PInit => PInv
<1> SUFFICES ASSUME PInit PROVE PInv
  OBVIOUS
<1> USE DEF PInit, Init
<1>1. PTypes
  BY DEF PTypes, NothingPlanned
<1>2. SessionWaits /\ PlanFollows /\ CommitInSight
  BY DEF SessionWaits, PlanFollows, CommitInSight, NoCommitUnnoticed, Reading
<1>3. IdsKept
  BY DEF IdsKept, NoLine
<1> QED BY <1>1, <1>2, <1>3 DEF PInv

LEMMA SessionKeepsPInv ==
  ASSUME IInv, PInv, Operates \/ Confirms \/ Dies \/ Reopens
  PROVE  PInv'
<1>1. CASE Operates
  BY <1>1 DEF Operates, PutRemove, PutWrite, AppendLine, AppendFails, memory, call, store,
     PInv, PTypes, SessionWaits, IdsKept, PlanFollows, CommitInSight, NoCommitUnnoticed, NothingPlanned, Reading
<1>2. CASE Confirms
  <2>1. PTypes'
    BY <1>2 DEF Confirms, call, store, PInv, PTypes, IInv, Types
  <2>2. IdsKept'
    BY <1>2 DEF Confirms, Confirm, disk, IInv, Types, Fresh, PInv, PTypes, IdsKept, Line
  <2> QED BY <1>2, <2>1, <2>2 DEF Confirms, call, store, PInv, SessionWaits,
             PlanFollows, CommitInSight, NoCommitUnnoticed, NothingPlanned, Reading
<1>3. CASE Dies
  BY <1>3 DEF Dies, Crash, EndsCall, store, PInv, PTypes, SessionWaits, IdsKept,
     PlanFollows, CommitInSight, NoCommitUnnoticed, NothingPlanned, Reading
<1>4. CASE Reopens
  <2>1. \A k \in Key : LoadedLine(k).src \in Nat
    BY LoadedType DEF Line
  <2> QED BY <1>4, <2>1 DEF Reopens, Reopen, call, store, PInv, PTypes, SessionWaits,
             IdsKept, PlanFollows, CommitInSight, NoCommitUnnoticed, NothingPlanned, Reading
<1> QED BY <1>1, <1>2, <1>3, <1>4

LEMMA LoadKeepsPInv ==
  ASSUME IInv, PInv, LoadNext
  PROVE  PInv'
<1> USE DEF LoadNext, Goes
<1>1. PICK l \in todo :
        /\ todo' = todo \ {l}
        /\ prepared' = [prepared EXCEPT ![l.key] = Content(l)]
  OBVIOUS
<1>2. PICK k \in Key : l = StrictLine(k)
  BY <1>1 DEF PInv, PlanFollows
<1>3. l.key = k /\ Content(l) \in Held \cup {None}
  BY <1>2, StrictType
<1>4. \A j \in Key : StrictLine(j) = l => j = k
  BY <1>3, StrictType
<1>5. \A j \in Key : prepared'[j] = IF StrictLine(j) \in todo' THEN None ELSE Content(StrictLine(j))
  BY <1>1, <1>2, <1>3, <1>4 DEF PInv, PTypes, PlanFollows
<1>6. PlanFollows'
  BY <1>1, <1>5, SessionSame DEF PInv, PlanFollows
<1>7. PTypes' /\ SessionWaits' /\ IdsKept' /\ CommitInSight'
  BY <1>1, <1>3, SessionSame DEF PInv, PTypes, SessionWaits, CommitInSight, NoCommitUnnoticed, Reading, vars, store
<1> QED BY <1>6, <1>7 DEF PInv

LEMMA CallKeepsPInv ==
  ASSUME IInv, PInv,
         \/ \E inspects \in BOOLEAN : Calls(inspects)
         \/ Refuse \/ ScanForOrphans \/ InspectBefore \/ ReadJournal
         \/ PlanIsComplete \/ InspectAfter \/ Return
  PROVE  PInv'
<1>1. UNCHANGED <<vars, ids>>
  BY DEF Calls, Goes, Refuse, ScanForOrphans, InspectBefore, ReadJournal, PlanIsComplete,
         InspectAfter, Return
<1>2. /\ Agrees' = Agrees
      /\ \A k \in Key : StrictLine(k)' = StrictLine(k)
      /\ \A k \in Key : Content(StrictLine(k))' = Content(StrictLine(k))
      /\ IdsKept'
  BY <1>1, SessionSame DEF PInv
<1>3. PTypes' /\ SessionWaits'
  BY <1>1 DEF Calls, Goes, EndsCall, Refuse, ScanForOrphans, InspectBefore, ReadJournal,
     PlanIsComplete, InspectAfter, Return, PInv, PTypes, SessionWaits, Reading, NothingPlanned, vars
<1>5. CommitInSight'
  <2>1. CASE \E inspects \in BOOLEAN : Calls(inspects)
    BY <2>1 DEF Calls, CommitInSight, NoCommitUnnoticed, Reading, store
  <2>2. CASE Refuse \/ Return
    BY <2>2 DEF Refuse, Return, EndsCall, CommitInSight, NoCommitUnnoticed, Reading
  <2>3. CASE ScanForOrphans \/ InspectBefore \/ ReadJournal
    BY <2>3 DEF ScanForOrphans, InspectBefore, ReadJournal, Goes, PInv, CommitInSight,
       NoCommitUnnoticed, Reading, store
  <2>4. CASE PlanIsComplete \/ InspectAfter
    BY <2>4 DEF PlanIsComplete, InspectAfter, InspectsAsAbsent, Goes, PInv, CommitInSight,
       NoCommitUnnoticed, Reading, store
  <2> QED BY <2>1, <2>2, <2>3, <2>4
<1>4. PlanFollows'
  <2>1. CASE ReadJournal
    <3>1. \A k \in Key : Content(StrictLine(k)) = IF StrictLine(k).seq # 0 THEN Content(StrictLine(k)) ELSE None
      BY DEF Content
    <3> QED BY <1>2, <2>1, <3>1 DEF ReadJournal, Goes, PInv, PlanFollows, NothingPlanned
  <2>2. CASE InspectBefore
    BY <1>1, <1>2, <2>2 DEF InspectBefore, Goes, PInv, PlanFollows, NothingPlanned, vars, memory
  <2>3. CASE PlanIsComplete \/ InspectAfter
    BY <1>1, <1>2, <2>3 DEF PlanIsComplete, InspectAfter, Goes, PInv, PlanFollows, NothingPlanned,
       vars, memory
  <2>4. CASE \/ \E inspects \in BOOLEAN : Calls(inspects)
             \/ Refuse \/ ScanForOrphans \/ Return
    BY <2>4 DEF Calls, Goes, EndsCall, Refuse, ScanForOrphans, Return, PInv, PlanFollows,
       NothingPlanned
  <2> QED BY <2>1, <2>2, <2>3, <2>4
<1> QED BY <1>2, <1>3, <1>4, <1>5 DEF PInv

LEMMA CommitKeepsPInv ==
  ASSUME PInv, CommitCreatesIntent \/ CommitWritesIntent \/ CommitGoesOn \/ IntentRemoved
  PROVE  PInv'
<1> USE DEF CommitCreatesIntent, CommitWritesIntent, CommitGoesOn, IntentRemoved, call
<1>1. IdsKept' /\ PlanFollows'
  BY SessionSame DEF PInv, PlanFollows, NothingPlanned, vars, memory
<1>2. PTypes' /\ SessionWaits' /\ CommitInSight'
  BY DEF PInv, PTypes, SessionWaits, CommitInSight, NoCommitUnnoticed, Reading, vars
<1> QED BY <1>1, <1>2 DEF PInv

LEMMA PInvStep == IInv /\ PInv /\ [PNext]_pvars => PInv'
<1> SUFFICES ASSUME IInv, PInv, [PNext]_pvars PROVE PInv'
  OBVIOUS
<1>1. CASE PNext
  BY <1>1, SessionKeepsPInv, LoadKeepsPInv, CallKeepsPInv, CommitKeepsPInv DEF PNext
<1>2. CASE UNCHANGED pvars
  BY <1>2, SessionSame DEF pvars, vars, memory, call, store, PInv, PTypes, SessionWaits,
     PlanFollows, CommitInSight, NoCommitUnnoticed, Reading, NothingPlanned
<1> QED BY <1>1, <1>2

(* A plan that passes is what the session promised and what a reopen would *)
(* show, and no commit was under way unnoticed: the journal the strict     *)
(* reader accepts has one newest record for a path, which is the one the   *)
(* loader takes and the one in memory.                                     *)
THEOREM PreflightRight == PSpec => []PreflightIsRight
<1>1. IInv /\ PInv => PreflightIsRight
  <2> SUFFICES ASSUME IInv, PInv, step = "passed" PROVE PreflightIsRight
    BY DEF PreflightIsRight, PlanIsTheSession, PlanIsWhatReopens, NoCommitUnnoticed
  <2>1. pc = "idle"
    BY DEF PInv, SessionWaits
  <2>2. CASE Agrees /\ \A k \in Key : prepared[k] = Content(StrictLine(k))
    <3>1. \A k \in Key : prepared[k] = acked[k]
      BY <2>1, <2>2, AgreementIsPromise DEF PInv
    <3>2. \A k \in Key : prepared[k] = Recovered(k)
      BY <2>2, ReadersAgree DEF Agrees
    <3> QED BY <3>1, <3>2 DEF PreflightIsRight, PlanIsTheSession, PlanIsWhatReopens,
               NoCommitUnnoticed, PInv, CommitInSight
  <2>3. CASE prepared = NothingPlanned /\ \A k \in Key : table[k].seq = 0
    <3>1. \A k \in Key : acked[k] = None
      BY <2>1, <2>3 DEF IInv, SessionReadsWhatItPromised, Content
    <3> QED BY <2>3, <3>1 DEF NothingPlanned, PreflightIsRight, PlanIsTheSession,
               PlanIsWhatReopens, NoCommitUnnoticed, PInv, CommitInSight
  <2> QED BY <2>2, <2>3 DEF PInv, PlanFollows
<1> QED BY <1>1, PInvInit, PInvStep, CallsAreReadOnly, Invariance, PTL DEF PSpec
=============================================================================
