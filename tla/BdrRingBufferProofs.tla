------------------------- MODULE BdrRingBufferProofs -------------------------
(***************************************************************************)
(* For any number of writers, any buffer size and any bios: the invariants *)
(* of BdrRingBuffer, by one inductive invariant.                           *)
(*                                                                         *)
(* The reserved part of the buffer is the batch handed out last followed   *)
(* by the fresh writes.  Its i-th slot, counted from info.last, belongs to *)
(* write Base + i.  Everything else follows from keeping track of that.    *)
(***************************************************************************)
EXTENDS BdrRingBuffer, SequenceTheorems, TLAPS

Reserved == HeldCount + FreshCount
Base == accepted - Reserved
SlotOf(n) == (info.last + (n - Base - 1)) % MaxWrites

(* The reserved slots fill the buffer exactly when it is overflown: the    *)
(* slot that would have completed it was refused.                          *)
Bounded ==
  /\ HeldCount + info.length <= MaxWrites
  /\ info.overflown <=> HeldCount + info.length = MaxWrites
  /\ info.overflown => info.length > 0
  /\ Reserved <= accepted

(* A writer in the middle of a bio has a segment to handle.                *)
HasSegment == \A w \in Writers : pc[w] \in {"mark", "put", "header", "data"} => bio[w] # <<>>

(* A put in flight whose slot is reserved copies a reserved write into the *)
(* slot that belongs to it.                                                *)
TargetsOwned ==
  \A w \in Writers : InFlight(w) /\ ~target[w].stale =>
    /\ target[w].write \in (Base + 1)..accepted
    /\ target[w].slot = SlotOf(target[w].write)

TargetWritesDistinct ==
  \A v, w \in Writers :
    v # w /\ InFlight(v) /\ InFlight(w) /\ ~target[v].stale /\ ~target[w].stale
    => target[v].write # target[w].write

(* Between the two halves of a copy the slot has the write's header.       *)
HeaderCopied ==
  \A w \in Writers : pc[w] = "data" /\ ~target[w].stale =>
    \/ slot[target[w].slot].header = target[w].write
    \/ target[w].slot \in stained

(* Every reserved slot holds, or is about to hold, its write.              *)
Contents == \A n \in (Base + 1)..accepted : HoldsOrWillHold(SlotOf(n), n)

(* What the reader has still to read is the end of the batch handed out.   *)
ReaderInBatch ==
  /\ rd.write + rd.left <= MaxAccepted + 1
  /\ rd.live /\ rd.left > 0 =>
       /\ rd.left <= HeldCount
       /\ rd.write = Base + HeldCount - rd.left + 1
       /\ rd.next = SlotOf(rd.write)

IInv ==
  /\ TypeOK
  /\ Bounded
  /\ HasSegment
  /\ TargetsOwned
  /\ TargetWritesDistinct
  /\ HeaderCopied
  /\ Contents
  /\ ReaderInBatch
  /\ NoSilentRefusal
-----------------------------------------------------------------------------
(* Indices wrap around at most once.                                       *)
LEMMA ModAdd ==
  ASSUME NEW a \in Slots, NEW b \in 0..MaxWrites
  PROVE  /\ (a + b) % MaxWrites = IF a + b < MaxWrites THEN a + b ELSE a + b - MaxWrites
         /\ (a + b) % MaxWrites \in Slots
BY WriterAssumption, SMT DEF Slots

(* The same for differences: HeldCount is the distance from "last" to      *)
(* "offset".                                                               *)
LEMMA ModSub ==
  ASSUME NEW a \in Slots, NEW b \in Slots
  PROVE  /\ (a - b) % MaxWrites = IF a >= b THEN a - b ELSE a - b + MaxWrites
         /\ (a - b) % MaxWrites \in Slots
BY WriterAssumption, SMT DEF Slots

(* The counts of the reserved part, without the modulus.                   *)
LEMMA Counts ==
  ASSUME TypeOK, Bounded
  PROVE  /\ HeldCount = IF info.offset >= info.last THEN info.offset - info.last
                         ELSE info.offset - info.last + MaxWrites
         /\ HeldCount \in Slots
         /\ FreshCount \in 0..MaxWrites
         /\ Reserved \in 0..(MaxWrites - 1)
         /\ Base \in 0..accepted
         /\ accepted = Base + Reserved
<1>1. /\ info.offset \in Slots /\ info.last \in Slots /\ info.length \in 0..MaxWrites
      /\ info.overflown \in BOOLEAN /\ accepted \in Nat
  BY WriterAssumption DEF TypeOK
<1>2. /\ HeldCount = IF info.offset >= info.last THEN info.offset - info.last
                      ELSE info.offset - info.last + MaxWrites
      /\ HeldCount \in Slots
  BY <1>1, ModSub DEF HeldCount
<1>3. FreshCount \in 0..MaxWrites
  BY <1>1, WriterAssumption DEF FreshCount, Bounded
<1>4. Reserved \in 0..(MaxWrites - 1)
  BY <1>1, <1>2, <1>3, WriterAssumption DEF Reserved, Bounded, FreshCount, Slots
<1>. QED
  BY <1>1, <1>2, <1>3, <1>4 DEF Base, Bounded

(* The slots of the reserved writes are distinct, and distinct from the    *)
(* slot of the write that comes next.                                      *)
LEMMA SlotOfDistinct ==
  ASSUME TypeOK, Bounded,
         NEW m \in (Base + 1)..(accepted + 1), NEW n \in (Base + 1)..(accepted + 1),
         Reserved + 1 <= MaxWrites
  PROVE  /\ SlotOf(m) \in Slots
         /\ SlotOf(m) = SlotOf(n) => m = n
<1>1. info.last \in Slots /\ accepted \in Nat
  BY WriterAssumption DEF TypeOK
<1>2. m - Base - 1 \in 0..(MaxWrites - 1) /\ n - Base - 1 \in 0..(MaxWrites - 1)
  BY <1>1, Counts, WriterAssumption
<1>3. /\ SlotOf(m) \in Slots
      /\ SlotOf(m) = IF info.last + (m - Base - 1) < MaxWrites
                      THEN info.last + (m - Base - 1)
                      ELSE info.last + (m - Base - 1) - MaxWrites
  BY <1>1, <1>2, ModAdd, WriterAssumption DEF SlotOf
<1>4. SlotOf(n) = IF info.last + (n - Base - 1) < MaxWrites
                    THEN info.last + (n - Base - 1)
                    ELSE info.last + (n - Base - 1) - MaxWrites
  BY <1>1, <1>2, ModAdd, WriterAssumption DEF SlotOf
<1>5. m \in Nat /\ n \in Nat /\ Base \in Nat
  BY <1>1, Counts
<1>. QED
  BY <1>1, <1>2, <1>3, <1>4, <1>5, WriterAssumption DEF Slots

(* The writes still reserved have slots of the buffer (bdr_ring_buffer_put *)
(* computes them modulo max_writes).                                       *)
LEMMA ReservedSlots ==
  ASSUME TypeOK, Bounded, NEW m \in (Base + 1)..accepted, NEW n \in (Base + 1)..accepted
  PROVE  /\ SlotOf(m) \in Slots
         /\ SlotOf(m) = SlotOf(n) => m = n
<1>0. accepted \in Nat
  BY WriterAssumption DEF TypeOK
<1>1. Base \in Nat /\ Reserved + 1 <= MaxWrites
  BY <1>0, Counts, WriterAssumption
<1>2. m \in (Base + 1)..(accepted + 1) /\ n \in (Base + 1)..(accepted + 1)
  BY <1>0, <1>1
<1>. QED
  BY <1>1, <1>2, SlotOfDistinct

(* bdr_ring_buffer_init establishes the inductive invariant.               *)
LEMMA InitIInv == Init => IInv
<1>. SUFFICES ASSUME Init PROVE IInv
  OBVIOUS
<1>. USE WriterAssumption DEF Init
<1>1. HeldCount = 0 /\ FreshCount = 0
  <2>1. 0 \in Slots
    BY DEF Slots
  <2>. QED
    BY <2>1, ModSub DEF HeldCount, FreshCount
<1>2. TypeOK
  BY DEF TypeOK, NoTarget, Slots
<1>3. Reserved = 0 /\ Base = 0
  BY <1>1 DEF Reserved, Base
<1>4. Bounded /\ ReaderInBatch /\ NoSilentRefusal
  BY <1>1, <1>3 DEF Bounded, ReaderInBatch, NoSilentRefusal, TypeOK
<1>5. HasSegment /\ TargetsOwned /\ TargetWritesDistinct /\ HeaderCopied
  BY DEF HasSegment, TargetsOwned, TargetWritesDistinct, HeaderCopied, InFlight
<1>6. Contents
  BY <1>3 DEF Contents
<1>. QED
  BY <1>2, <1>4, <1>5, <1>6 DEF IInv

(* A step that leaves buffer_info alone leaves the layout alone.           *)
LEMMA LayoutFrame ==
  ASSUME UNCHANGED <<info, accepted>>
  PROVE  /\ HeldCount' = HeldCount /\ FreshCount' = FreshCount
         /\ Reserved' = Reserved /\ Base' = Base
         /\ \A n : SlotOf(n)' = SlotOf(n)
         /\ Bounded' = Bounded
BY DEF HeldCount, FreshCount, Reserved, Base, SlotOf, Bounded

(* The next segment, or the end of the bio, for a writer that has one.     *)
LEMMA SegmentStep ==
  ASSUME TypeOK, NEW w \in Writers, bio[w] # <<>>, NEW again \in {"mark", "put"},
         NextSegment(w, again)
  PROVE  /\ bio' \in [Writers -> Seq(Blocks)]
         /\ pc' \in [Writers -> {"idle", "mark", "put", "header", "data", "submit"}]
         /\ pc'[w] \in {"submit", again}
         /\ pc'[w] = again => bio'[w] # <<>>
         /\ \A v \in Writers \ {w} : pc'[v] = pc[v] /\ bio'[v] = bio[v]
         /\ Head(bio[w]) \in Blocks
<1>1. bio[w] \in Seq(Blocks)
  BY DEF TypeOK
<1>2. Tail(bio[w]) \in Seq(Blocks) /\ Len(Tail(bio[w])) = Len(bio[w]) - 1 /\ Len(bio[w]) \in Nat \ {0}
      /\ Head(bio[w]) \in Blocks
  BY <1>1
<1>3. Len(bio[w]) # 1 => Tail(bio[w]) # <<>>
  <2>1. Tail(bio[w]) = <<>> => Len(Tail(bio[w])) = 0
    BY EmptySeq, Zenon
  <2>. QED
    BY <1>2, <2>1
<1>. QED
  BY <1>2, <1>3, Zenon DEF TypeOK, NextSegment

(* Writes into a slot, seen from the conjuncts about contents: only the    *)
(* put that owns the slot, or a stale one that stains it.                  *)
LEMMA CopyKeepsContents ==
  ASSUME IInv, NEW w \in Writers, CopyHeader(w) \/ CopyData(w)
  PROVE  Contents' /\ HeaderCopied'
<1>0. TypeOK /\ Bounded /\ HasSegment /\ TargetsOwned /\ TargetWritesDistinct
      /\ HeaderCopied /\ Contents
  BY DEF IInv
<1>1. UNCHANGED <<info, accepted>>
  BY DEF CopyHeader, CopyData
<1>2. Base' = Base /\ \A n : SlotOf(n)' = SlotOf(n)
  BY <1>1, LayoutFrame
<1>3. target[w].slot \in Slots /\ target[w].write \in Nat
  <2>1. target[w] \in [slot : Slots, write : 0..MaxAccepted, stale : BOOLEAN]
    BY <1>0 DEF TypeOK
  <2>. QED
    BY <2>1, WriterAssumption
<1>4. InFlight(w) /\ bio[w] # <<>>
  BY <1>0 DEF CopyHeader, CopyData, InFlight, HasSegment
<1>5. \A v \in Writers : v # w =>
        pc'[v] = pc[v] /\ target'[v] = target[v] /\ InFlight(v)' = InFlight(v)
  BY <1>0, Zenon DEF CopyHeader, CopyData, NextSegment, TypeOK, InFlight
<1>6. \A s \in Slots : s # target[w].slot => slot'[s] = slot[s]
  BY <1>0 DEF CopyHeader, CopyData, TypeOK
<1>7. stained \subseteq stained' /\ (target[w].stale => target[w].slot \in stained')
  BY DEF CopyHeader, CopyData
<1>8. Contents'
  <2>. SUFFICES ASSUME NEW n \in (Base + 1)..accepted
                PROVE  HoldsOrWillHold(SlotOf(n), n)'
    BY <1>1, <1>2 DEF Contents
  <2>0. SlotOf(n)' = SlotOf(n) /\ SlotOf(n) \in Slots
    BY <1>0, <1>2, ReservedSlots
  <2>1. HoldsOrWillHold(SlotOf(n), n)
    BY <1>0 DEF Contents
  <2>2. CASE SlotOf(n) \in stained
    BY <2>0, <2>2, <1>7 DEF HoldsOrWillHold
  <2>3. CASE SlotOf(n) # target[w].slot /\ slot[SlotOf(n)] = [header |-> n, data |-> n]
    BY <2>0, <2>3, <1>6 DEF HoldsOrWillHold
  <2>4. CASE target[w].stale /\ SlotOf(n) = target[w].slot
    BY <2>0, <2>4, <1>7 DEF HoldsOrWillHold
  <2>5. CASE \E v \in Writers \ {w} :
               InFlight(v) /\ target[v] = [slot |-> SlotOf(n), write |-> n, stale |-> FALSE]
    BY <2>0, <2>5, <1>5 DEF HoldsOrWillHold
  <2>6. CASE ~target[w].stale /\ SlotOf(n) = target[w].slot /\ SlotOf(n) \notin stained
    <3>1. target[w].write = n
      <4>1. /\ target[w].write \in (Base + 1)..accepted
            /\ SlotOf(target[w].write) = SlotOf(n)
        BY <1>0, <1>4, <2>6 DEF TargetsOwned
      <4>. QED
        BY <1>0, <4>1, ReservedSlots
    <3>2. target[w] = [slot |-> SlotOf(n), write |-> n, stale |-> FALSE]
      BY <1>0, <3>1, <2>6 DEF TypeOK
    <3>3. CASE CopyHeader(w)
      BY <1>0, <3>2, <3>3, <2>0, Zenon DEF HoldsOrWillHold, CopyHeader, InFlight, TypeOK
    <3>4. CASE CopyData(w)
      <4>1. slot[SlotOf(n)].header = n
        BY <1>0, <3>1, <3>4, <2>6 DEF HeaderCopied, CopyData
      <4>2. slot'[SlotOf(n)] = [slot[SlotOf(n)] EXCEPT !.data = n]
        BY <1>0, <3>1, <3>4, <2>6, <2>0, Zenon DEF CopyData, TypeOK
      <4>3. slot[SlotOf(n)] \in [header : 0..MaxAccepted, data : 0..MaxAccepted]
        BY <1>0, <2>0 DEF TypeOK
      <4>. QED
        BY <4>1, <4>2, <4>3, <2>0 DEF HoldsOrWillHold
    <3>. QED
      BY <3>3, <3>4
  <2>7. CASE InFlight(w) /\ target[w] = [slot |-> SlotOf(n), write |-> n, stale |-> FALSE]
    BY <2>2, <2>6, <2>7
  <2>. QED
    <3>1. target[w].stale \in BOOLEAN
      BY <1>0 DEF TypeOK
    <3>2. CASE slot[SlotOf(n)] = [header |-> n, data |-> n]
      BY <3>1, <3>2, <2>2, <2>3, <2>4, <2>6
    <3>3. CASE \E v \in Writers : InFlight(v) /\ target[v] = [slot |-> SlotOf(n), write |-> n, stale |-> FALSE]
      BY <3>3, <2>5, <2>7, Zenon
    <3>. QED
      BY <2>1, <2>2, <3>2, <3>3, Zenon DEF HoldsOrWillHold
<1>9. HeaderCopied'
  <2>. SUFFICES ASSUME NEW v \in Writers, pc'[v] = "data", ~target'[v].stale,
                       target'[v].slot \notin stained'
                PROVE  slot'[target'[v].slot].header = target'[v].write
    BY DEF HeaderCopied
  <2>1. CASE v = w
    <3>1. CopyHeader(w)
      <4>1. CASE CopyData(w)
        BY <4>1, <1>0, <1>4, <2>1, SegmentStep DEF CopyData
      <4>. QED
        BY <4>1
    <3>. QED
      BY <1>0, <2>1, <3>1, <1>3 DEF CopyHeader, TypeOK
  <2>2. CASE v # w
    <3>1. pc[v] = "data" /\ target'[v] = target[v] /\ target[v].slot \notin stained
      BY <2>2, <1>5, <1>7
    <3>2. slot[target[v].slot].header = target[v].write
      BY <1>0, <3>1 DEF HeaderCopied
    <3>3. target[v].slot # target[w].slot
      <4>1. CASE target[w].stale
        BY <4>1, <3>1, <1>7
      <4>2. CASE ~target[w].stale
        <5>1. InFlight(v) /\ ~target[v].stale
          BY <3>1 DEF InFlight
        <5>2. target[v].write # target[w].write
          BY <1>0, <5>1, <1>4, <4>2, <2>2 DEF TargetWritesDistinct
        <5>3. /\ target[v].write \in (Base + 1)..accepted /\ target[w].write \in (Base + 1)..accepted
              /\ target[v].slot = SlotOf(target[v].write) /\ target[w].slot = SlotOf(target[w].write)
          BY <1>0, <5>1, <1>4, <4>2 DEF TargetsOwned
        <5>. QED
          BY <1>0, <5>2, <5>3, ReservedSlots
      <4>. QED
        BY <4>1, <4>2
    <3>4. target[v].slot \in Slots
      BY <1>0 DEF TypeOK
    <3>. QED
      BY <3>1, <3>2, <3>3, <3>4, <1>6
  <2>. QED
    BY <2>1, <2>2
<1>. QED
  BY <1>8, <1>9

(* The steps of bdr_target_map outside bdr_ring_buffer_put preserve it.    *)
LEMMA MarkStep ==
  ASSUME IInv, NEW w \in Writers, bdr_target_map(w) \/ bdr_bitmap_set_sector(w) \/ submit_bio(w)
  PROVE  IInv'
<1>0. /\ TypeOK /\ Bounded /\ HasSegment /\ TargetsOwned /\ TargetWritesDistinct
      /\ HeaderCopied /\ Contents /\ ReaderInBatch /\ NoSilentRefusal
  BY DEF IInv
<1>1. /\ UNCHANGED <<info, slot, target, rd, accepted, refused, stained>>
      /\ ~InFlight(w) /\ ~InFlight(w)'
      /\ pc'[w] \in {"mark", "put"} => bio'[w] # <<>>
      /\ \A v \in Writers \ {w} : pc'[v] = pc[v] /\ bio'[v] = bio[v]
      /\ pc' \in [Writers -> {"idle", "mark", "put", "header", "data", "submit"}]
      /\ bio' \in [Writers -> Seq(Blocks)]
      /\ bitmap' \in SUBSET Blocks
  <2>1. CASE bdr_target_map(w)
    BY <1>0, <2>1, BioAssumption DEF bdr_target_map, TypeOK, InFlight
  <2>2. CASE bdr_bitmap_set_sector(w)
    <3>1. bio[w] # <<>> /\ NextSegment(w, "mark")
      BY <1>0, <2>2 DEF bdr_bitmap_set_sector, HasSegment
    <3>2. /\ bio' \in [Writers -> Seq(Blocks)]
          /\ pc' \in [Writers -> {"idle", "mark", "put", "header", "data", "submit"}]
          /\ pc'[w] \in {"submit", "mark"}
          /\ pc'[w] = "mark" => bio'[w] # <<>>
          /\ \A v \in Writers \ {w} : pc'[v] = pc[v] /\ bio'[v] = bio[v]
          /\ Head(bio[w]) \in Blocks
      BY <1>0, <3>1, SegmentStep
    <3>3. UNCHANGED <<info, slot, target, rd, accepted, refused, stained>>
      BY <2>2 DEF bdr_bitmap_set_sector
    <3>4. pc[w] = "mark" /\ bitmap' = bitmap \union {Head(bio[w])}
      BY <2>2 DEF bdr_bitmap_set_sector
    <3>5. bitmap' \in SUBSET Blocks
      <4>1. bitmap \in SUBSET Blocks
        BY <1>0 DEF TypeOK
      <4>. QED
        BY <3>2, <3>4, <4>1
    <3>6. ~InFlight(w) /\ ~InFlight(w)'
      BY <3>2, <3>4 DEF InFlight
    <3>7. pc'[w] \in {"mark", "put"} => bio'[w] # <<>>
      BY <3>2
    <3>. QED
      BY <3>2, <3>3, <3>5, <3>6, <3>7
  <2>3. CASE submit_bio(w)
    BY <1>0, <2>3 DEF submit_bio, TypeOK, InFlight
  <2>. QED
    BY <2>1, <2>2, <2>3
<1>2. TypeOK'
  BY <1>0, <1>1, Zenon DEF TypeOK
<1>3. Base' = Base /\ HeldCount' = HeldCount /\ Bounded' /\ \A n : SlotOf(n)' = SlotOf(n)
  BY <1>0, <1>1, LayoutFrame
<1>4. HasSegment'
  BY <1>0, <1>1 DEF HasSegment, InFlight
<1>5. \A v \in Writers : InFlight(v)' = InFlight(v) /\ (pc'[v] = "data" <=> pc[v] = "data")
  BY <1>1 DEF InFlight
<1>6. TargetsOwned' /\ TargetWritesDistinct' /\ HeaderCopied'
  BY <1>0, <1>1, <1>3, <1>5 DEF TargetsOwned, TargetWritesDistinct, HeaderCopied
<1>7. Contents'
  BY <1>0, <1>1, <1>3, <1>5, Zenon DEF Contents, HoldsOrWillHold
<1>8. ReaderInBatch' /\ NoSilentRefusal'
  BY <1>0, <1>1, <1>3 DEF ReaderInBatch, NoSilentRefusal
<1>. QED
  BY <1>2, <1>3, <1>4, <1>6, <1>7, <1>8 DEF IInv

(* The copy after the spinlock is released preserves it.                   *)
LEMMA CopyStep ==
  ASSUME IInv, NEW w \in Writers, CopyHeader(w) \/ CopyData(w)
  PROVE  IInv'
<1>0. /\ TypeOK /\ Bounded /\ HasSegment /\ TargetsOwned /\ TargetWritesDistinct
      /\ ReaderInBatch /\ NoSilentRefusal
  BY DEF IInv
<1>1. UNCHANGED <<info, bitmap, rd, accepted, refused>> /\ InFlight(w) /\ bio[w] # <<>>
  BY <1>0 DEF CopyHeader, CopyData, InFlight, HasSegment
<1>2. /\ \A v \in Writers \ {w} : pc'[v] = pc[v] /\ bio'[v] = bio[v] /\ target'[v] = target[v]
      /\ InFlight(w)' => target'[w] = target[w]
      /\ pc'[w] \in {"put", "data"} => bio'[w] # <<>>
      /\ pc'[w] \in {"put", "data", "submit"}
      /\ pc' \in [Writers -> {"idle", "mark", "put", "header", "data", "submit"}]
      /\ bio' \in [Writers -> Seq(Blocks)]
      /\ target' \in [Writers -> [slot : Slots, write : 0..MaxAccepted, stale : BOOLEAN]]
      /\ slot' \in [Slots -> [header : 0..MaxAccepted, data : 0..MaxAccepted]]
      /\ stained' \in SUBSET Slots
  <2>0. /\ slot' \in [Slots -> [header : 0..MaxAccepted, data : 0..MaxAccepted]]
        /\ stained' \in SUBSET Slots
    <3>1. target[w].slot \in Slots /\ target[w].write \in 0..MaxAccepted
      BY <1>0 DEF TypeOK
    <3>2. stained' \in SUBSET Slots
      BY <1>0, <3>1 DEF CopyHeader, CopyData, TypeOK
    <3>3. PICK r \in [header : 0..MaxAccepted, data : 0..MaxAccepted] :
            slot' = [slot EXCEPT ![target[w].slot] = r]
      <4>1. slot[target[w].slot] \in [header : 0..MaxAccepted, data : 0..MaxAccepted]
        BY <1>0, <3>1 DEF TypeOK
      <4>2. CASE CopyHeader(w)
        BY <4>1, <4>2, <3>1, Zenon DEF CopyHeader
      <4>3. CASE CopyData(w)
        BY <4>1, <4>3, <3>1, Zenon DEF CopyData
      <4>. QED
        BY <4>2, <4>3
    <3>4. slot \in [Slots -> [header : 0..MaxAccepted, data : 0..MaxAccepted]]
      BY <1>0 DEF TypeOK
    <3>. QED
      BY <3>1, <3>2, <3>3, <3>4
  <2>1. CASE CopyHeader(w)
    <3>1. /\ pc' = [pc EXCEPT ![w] = "data"] /\ UNCHANGED <<bio, target>>
      BY <2>1 DEF CopyHeader
    <3>. QED
      BY <1>0, <1>1, <2>0, <3>1, Zenon DEF TypeOK
  <2>2. CASE CopyData(w)
    <3>1. /\ \A v \in Writers \ {w} : pc'[v] = pc[v] /\ bio'[v] = bio[v]
          /\ pc'[w] \in {"submit", "put"} /\ (pc'[w] = "put" => bio'[w] # <<>>)
          /\ pc' \in [Writers -> {"idle", "mark", "put", "header", "data", "submit"}]
          /\ bio' \in [Writers -> Seq(Blocks)]
      BY <1>0, <1>1, <2>2, SegmentStep DEF CopyData
    <3>2. /\ target' \in [Writers -> [slot : Slots, write : 0..MaxAccepted, stale : BOOLEAN]]
          /\ \A v \in Writers \ {w} : target'[v] = target[v]
      <4>1. NoTarget \in [slot : Slots, write : 0..MaxAccepted, stale : BOOLEAN]
        BY WriterAssumption DEF NoTarget, Slots
      <4>2. target' = [target EXCEPT ![w] = NoTarget]
        BY <2>2 DEF CopyData
      <4>. QED
        BY <1>0, <4>1, <4>2 DEF TypeOK
    <3>. QED
      BY <2>0, <3>1, <3>2 DEF InFlight
  <2>. QED
    BY <2>1, <2>2
<1>3. TypeOK'
  BY <1>0, <1>1, <1>2, Zenon DEF TypeOK
<1>4. Base' = Base /\ HeldCount' = HeldCount /\ Bounded' /\ \A n : SlotOf(n)' = SlotOf(n)
  BY <1>0, <1>1, LayoutFrame
<1>5. HasSegment'
  BY <1>0, <1>2, Zenon DEF HasSegment
<1>6. \A v \in Writers : InFlight(v)' => InFlight(v) /\ target'[v] = target[v]
  BY <1>1, <1>2 DEF InFlight
<1>7. TargetsOwned' /\ TargetWritesDistinct'
  BY <1>0, <1>1, <1>4, <1>6 DEF TargetsOwned, TargetWritesDistinct
<1>8. ReaderInBatch' /\ NoSilentRefusal'
  BY <1>0, <1>1, <1>4 DEF ReaderInBatch, NoSilentRefusal
<1>. QED
  BY <1>3, <1>4, <1>5, <1>7, <1>8, CopyKeepsContents DEF IInv

(* The new end of the buffer meets "last" exactly when the reserved slots  *)
(* and the new one fill the buffer; the new one follows the reserved ones. *)
LEMMA FullMeetsLast ==
  ASSUME TypeOK, Bounded, ~info.overflown
  PROVE  /\ (info.offset + info.length + 1) % MaxWrites = info.last
              <=> HeldCount + info.length + 1 = MaxWrites
         /\ (info.offset + info.length) % MaxWrites \in Slots
         /\ (info.offset + info.length) % MaxWrites = SlotOf(accepted + 1)
<1>1. /\ info.offset \in Slots /\ info.last \in Slots /\ info.length \in 0..MaxWrites
      /\ accepted \in Nat
  BY WriterAssumption DEF TypeOK
<1>2. HeldCount \in Slots /\ HeldCount + info.length < MaxWrites /\ FreshCount = info.length
  <2>1. HeldCount \in Slots
    BY Counts
  <2>2. HeldCount + info.length <= MaxWrites /\ HeldCount + info.length # MaxWrites
    BY DEF Bounded
  <2>. QED
    BY <1>1, <2>1, <2>2, WriterAssumption DEF FreshCount, Slots
<1>3. (info.offset + info.length + 1) % MaxWrites =
        IF info.offset + info.length + 1 < MaxWrites THEN info.offset + info.length + 1
        ELSE info.offset + info.length + 1 - MaxWrites
  <2>1. info.length + 1 \in 0..MaxWrites
    BY <1>1, <1>2, WriterAssumption DEF Slots
  <2>2. info.offset + (info.length + 1) = info.offset + info.length + 1
    BY <1>1, WriterAssumption DEF Slots
  <2>3. (info.offset + (info.length + 1)) % MaxWrites =
          IF info.offset + (info.length + 1) < MaxWrites THEN info.offset + (info.length + 1)
          ELSE info.offset + (info.length + 1) - MaxWrites
    BY <1>1, <2>1, ModAdd
  <2>. QED
    BY <1>1, <2>2, <2>3, WriterAssumption DEF Slots
<1>4. /\ (info.offset + info.length) % MaxWrites =
           IF info.offset + info.length < MaxWrites THEN info.offset + info.length
           ELSE info.offset + info.length - MaxWrites
      /\ (info.offset + info.length) % MaxWrites \in Slots
  BY <1>1, ModAdd
<1>5. SlotOf(accepted + 1) =
        IF info.last + (HeldCount + info.length) < MaxWrites
          THEN info.last + (HeldCount + info.length)
          ELSE info.last + (HeldCount + info.length) - MaxWrites
  <2>1. accepted + 1 - Base - 1 = HeldCount + info.length
    BY <1>1, <1>2, Counts, WriterAssumption DEF Reserved, Slots
  <2>2. HeldCount + info.length \in 0..MaxWrites
    BY <1>1, <1>2, WriterAssumption DEF Slots
  <2>3. SlotOf(accepted + 1) = (info.last + (HeldCount + info.length)) % MaxWrites
    <3>1. Base \in Int /\ HeldCount \in Int /\ info.length \in Int /\ info.last \in Int
      BY <1>1, <1>2, Counts, WriterAssumption DEF Slots
    <3>. QED
      BY <1>1, <2>1, <3>1 DEF SlotOf
  <2>. QED
    BY <1>1, <2>2, <2>3, ModAdd
<1>6. HeldCount = IF info.offset >= info.last THEN info.offset - info.last
                  ELSE info.offset - info.last + MaxWrites
  BY Counts
<1>7. (info.offset + info.length) % MaxWrites = SlotOf(accepted + 1)
  BY <1>1, <1>2, <1>4, <1>5, <1>6, WriterAssumption DEF Slots
<1>8. (info.offset + info.length + 1) % MaxWrites = info.last
        <=> HeldCount + info.length + 1 = MaxWrites
  BY <1>1, <1>2, <1>3, <1>6, WriterAssumption DEF Slots
<1>. QED
  BY <1>4, <1>7, <1>8

(* A refused put preserves it, the one that raises the flag included.      *)
LEMMA RefusedStep ==
  ASSUME IInv, NEW w \in Writers, PutRefused(w)
  PROVE  IInv'
<1>0. /\ TypeOK /\ Bounded /\ HasSegment /\ TargetsOwned /\ TargetWritesDistinct
      /\ HeaderCopied /\ Contents /\ ReaderInBatch
  BY DEF IInv
<1>1. /\ UNCHANGED <<slot, target, bitmap, rd, accepted, stained>>
      /\ ~InFlight(w) /\ bio[w] # <<>> /\ NextSegment(w, "put")
      /\ refused' = refused \union {Head(bio[w])}
  BY <1>0 DEF PutRefused, HasSegment, InFlight
<1>2. /\ \A v \in Writers \ {w} : pc'[v] = pc[v] /\ bio'[v] = bio[v]
      /\ pc'[w] \in {"submit", "put"} /\ (pc'[w] = "put" => bio'[w] # <<>>)
      /\ pc' \in [Writers -> {"idle", "mark", "put", "header", "data", "submit"}]
      /\ bio' \in [Writers -> Seq(Blocks)] /\ Head(bio[w]) \in Blocks
  BY <1>0, <1>1, SegmentStep
<1>3. /\ info' \in [offset : Slots, length : 0..MaxWrites, last : Slots, overflown : BOOLEAN]
      /\ info'.overflown
      /\ HeldCount' = HeldCount /\ FreshCount' = FreshCount /\ info'.last = info.last
      /\ Bounded'
  <2>1. info \in [offset : Slots, length : 0..MaxWrites, last : Slots, overflown : BOOLEAN]
    BY <1>0 DEF TypeOK
  <2>2. CASE info.overflown
    <3>1. info' = info
      BY <2>2 DEF PutRefused
    <3>. QED
      BY <1>0, <1>1, <2>1, <2>2, <3>1, LayoutFrame
  <2>3. CASE ~info.overflown
    <3>1. /\ info' = [info EXCEPT !.length = @ + 1, !.overflown = TRUE]
          /\ (info.offset + info.length + 1) % MaxWrites = info.last
      BY <2>1, <2>3, Zenon DEF PutRefused, bdr_ring_buffer_update_unsafe
    <3>2. /\ info'.offset = info.offset /\ info'.last = info.last /\ info'.overflown
          /\ info'.length = info.length + 1
      BY <2>1, <3>1
    <3>3. HeldCount + info.length + 1 = MaxWrites
      BY <1>0, <2>3, <3>1, FullMeetsLast
    <3>4. HeldCount' = HeldCount /\ FreshCount' = FreshCount
      BY <2>1, <2>3, <3>2 DEF HeldCount, FreshCount
    <3>5. info.length + 1 \in 0..MaxWrites
      BY <1>0, <2>1, <3>3, Counts, WriterAssumption DEF Slots
    <3>6. Bounded'
      <4>1. Reserved' <= accepted'
        BY <1>0, <1>1, <3>4 DEF Reserved, Bounded
      <4>. QED
        BY <1>0, <2>1, <3>2, <3>3, <3>4, <4>1, Counts, WriterAssumption DEF Bounded, Slots
    <3>. QED
      BY <2>1, <3>1, <3>2, <3>4, <3>5, <3>6, Zenon
  <2>. QED
    BY <2>2, <2>3
<1>4. Base' = Base /\ \A n : SlotOf(n)' = SlotOf(n)
  BY <1>1, <1>3 DEF Base, Reserved, SlotOf
<1>5. TypeOK'
  BY <1>0, <1>1, <1>2, <1>3, Zenon DEF TypeOK
<1>6. HasSegment'
  BY <1>0, <1>2 DEF HasSegment
<1>7. \A v \in Writers : InFlight(v)' = InFlight(v) /\ (pc'[v] = "data" <=> pc[v] = "data")
  BY <1>1, <1>2 DEF InFlight
<1>8. TargetsOwned' /\ TargetWritesDistinct' /\ HeaderCopied'
  BY <1>0, <1>1, <1>4, <1>7 DEF TargetsOwned, TargetWritesDistinct, HeaderCopied
<1>9. Contents'
  BY <1>0, <1>1, <1>4, <1>7, Zenon DEF Contents, HoldsOrWillHold
<1>10. ReaderInBatch' /\ NoSilentRefusal'
  BY <1>0, <1>1, <1>3, <1>4 DEF ReaderInBatch, NoSilentRefusal
<1>. QED
  BY <1>3, <1>5, <1>6, <1>8, <1>9, <1>10 DEF IInv

(* A put that gets a slot preserves it: the slot is that of the next       *)
(* write.                                                                  *)
LEMMA ReservedStep ==
  ASSUME IInv, NEW w \in Writers, PutReserved(w)
  PROVE  IInv'
<1>0. /\ TypeOK /\ Bounded /\ HasSegment /\ TargetsOwned /\ TargetWritesDistinct
      /\ HeaderCopied /\ Contents /\ ReaderInBatch /\ NoSilentRefusal
  BY DEF IInv
<1>. DEFINE s == (info.offset + info.length) % MaxWrites
<1>1. /\ info \in [offset : Slots, length : 0..MaxWrites, last : Slots, overflown : BOOLEAN]
      /\ accepted \in Nat /\ accepted < MaxAccepted /\ MaxAccepted \in Nat
      /\ Base \in Nat /\ HeldCount \in Nat /\ FreshCount \in Nat
      /\ accepted = Base + Reserved
  <2>1. Base \in 0..accepted /\ HeldCount \in Slots /\ FreshCount \in 0..MaxWrites /\ accepted = Base + Reserved
    BY <1>0, Counts
  <2>2. accepted \in Nat
    BY <1>0, WriterAssumption DEF TypeOK
  <2>. QED
    BY <1>0, <2>1, <2>2, WriterAssumption DEF TypeOK, PutReserved, Slots
<1>2. /\ ~info.overflown
      /\ (info.offset + info.length + 1) % MaxWrites # info.last
      /\ info' = [info EXCEPT !.length = @ + 1]
  BY <1>1, Zenon DEF PutReserved, bdr_ring_buffer_update_unsafe
<1>3. HeldCount + info.length + 1 < MaxWrites /\ s \in Slots /\ s = SlotOf(accepted + 1)
  <2>1. HeldCount + info.length + 1 # MaxWrites /\ s \in Slots /\ s = SlotOf(accepted + 1)
    BY <1>0, <1>2, FullMeetsLast
  <2>2. HeldCount + info.length <= MaxWrites /\ HeldCount + info.length # MaxWrites
    BY <1>0, <1>2 DEF Bounded
  <2>. QED
    BY <1>1, <2>1, <2>2, WriterAssumption
<1>4. /\ info'.offset = info.offset /\ info'.last = info.last /\ info'.length = info.length + 1
      /\ info'.overflown = FALSE /\ accepted' = accepted + 1
      /\ info' \in [offset : Slots, length : 0..MaxWrites, last : Slots, overflown : BOOLEAN]
  BY <1>1, <1>2, <1>3, WriterAssumption DEF PutReserved
<1>5. /\ HeldCount' = HeldCount /\ FreshCount' = FreshCount + 1 /\ FreshCount = info.length
      /\ Reserved' = Reserved + 1 /\ Base' = Base /\ \A n : SlotOf(n)' = SlotOf(n)
  <2>1. HeldCount' = HeldCount /\ FreshCount' = FreshCount + 1 /\ FreshCount = info.length
    BY <1>2, <1>4 DEF HeldCount, FreshCount
  <2>2. Reserved' = Reserved + 1 /\ Reserved \in Nat
    BY <1>1, <2>1 DEF Reserved
  <2>3. Base' = Base
    BY <1>1, <1>4, <2>2 DEF Base
  <2>. QED
    BY <1>4, <2>1, <2>2, <2>3 DEF SlotOf
<1>6. Bounded'
  <2>1. info.length \in Nat
    BY <1>1, WriterAssumption
  <2>2. HeldCount' + info'.length < MaxWrites
    BY <1>1, <1>3, <1>4, <1>5, <2>1, WriterAssumption
  <2>3. Reserved' <= accepted'
    BY <1>1, <1>4, <1>5 DEF Reserved
  <2>. QED
    BY <1>1, <1>4, <1>5, <2>1, <2>2, <2>3, WriterAssumption DEF Bounded
<1>7. /\ UNCHANGED <<slot, bio, bitmap, rd, refused>>
      /\ target' = [target EXCEPT ![w] = [slot |-> s, write |-> accepted + 1, stale |-> FALSE]]
      /\ pc' = [pc EXCEPT ![w] = "header"] /\ pc[w] = "put"
      /\ stained' = stained \ {s}
  BY DEF PutReserved
<1>8. TypeOK'
  <2>1. [slot |-> s, write |-> accepted + 1, stale |-> FALSE]
          \in [slot : Slots, write : 0..MaxAccepted, stale : BOOLEAN]
    BY <1>1, <1>3
  <2>2. target' \in [Writers -> [slot : Slots, write : 0..MaxAccepted, stale : BOOLEAN]]
    BY <1>0, <1>7, <2>1 DEF TypeOK
  <2>3. accepted' \in 0..MaxAccepted
    BY <1>1, <1>4
  <2>4. stained' \in SUBSET Slots /\ pc' \in [Writers -> {"idle", "mark", "put", "header", "data", "submit"}]
    BY <1>0, <1>7, Zenon DEF TypeOK
  <2>. QED
    BY <1>0, <1>4, <1>7, <2>2, <2>3, <2>4, Zenon DEF TypeOK
<1>9. HasSegment'
  BY <1>0, <1>7 DEF HasSegment, TypeOK
<1>10. /\ \A v \in Writers \ {w} : /\ pc'[v] = pc[v] /\ target'[v] = target[v]
                                   /\ InFlight(v)' = InFlight(v)
       /\ target'[w] = [slot |-> s, write |-> accepted + 1, stale |-> FALSE]
       /\ ~InFlight(w) /\ InFlight(w)' /\ pc'[w] = "header"
  BY <1>0, <1>7 DEF InFlight, TypeOK
<1>11. \A n \in (Base + 1)..accepted : SlotOf(n) # s
  <2>. SUFFICES ASSUME NEW n \in (Base + 1)..accepted PROVE SlotOf(n) # SlotOf(accepted + 1)
    BY <1>3
  <2>1. /\ n \in (Base + 1)..(accepted + 1) /\ accepted + 1 \in (Base + 1)..(accepted + 1)
        /\ n # accepted + 1 /\ Reserved + 1 <= MaxWrites
    BY <1>1, <1>3, <1>5, WriterAssumption DEF Reserved
  <2>. QED
    BY <1>0, <2>1, SlotOfDistinct
<1>12. TargetsOwned'
  <2>. SUFFICES ASSUME NEW v \in Writers, InFlight(v)', ~target'[v].stale
                PROVE  /\ target'[v].write \in (Base + 1)..(accepted + 1)
                       /\ target'[v].slot = SlotOf(target'[v].write)
    BY <1>4, <1>5 DEF TargetsOwned
  <2>1. CASE v = w
    <3>1. target'[w].write = accepted + 1 /\ target'[w].slot = s
      BY <1>10
    <3>2. accepted + 1 \in (Base + 1)..(accepted + 1)
      BY <1>1 DEF Reserved
    <3>3. SlotOf(target'[w].write) = s
      BY <1>3, <3>1, Zenon
    <3>. QED
      BY <2>1, <3>1, <3>2, <3>3, Zenon
  <2>2. CASE v # w
    BY <1>0, <1>1, <1>10, <2>2 DEF TargetsOwned
  <2>. QED
    BY <2>1, <2>2
<1>13. TargetWritesDistinct'
  <2>1. \A v \in Writers \ {w} : InFlight(v)' /\ ~target'[v].stale => target'[v].write # accepted + 1
    BY <1>0, <1>1, <1>10 DEF TargetsOwned
  <2>. QED
    BY <1>0, <1>10, <2>1 DEF TargetWritesDistinct
<1>14. HeaderCopied'
  <2>. SUFFICES ASSUME NEW v \in Writers \ {w}, pc[v] = "data", ~target[v].stale
                PROVE  \/ slot[target[v].slot].header = target[v].write
                       \/ target[v].slot \in stained \ {s}
    BY <1>7, <1>10 DEF HeaderCopied
  <2>1. target[v].slot # s
    BY <1>0, <1>11 DEF TargetsOwned, InFlight
  <2>. QED
    BY <1>0, <2>1 DEF HeaderCopied
<1>15. Contents'
  <2>. SUFFICES ASSUME NEW n \in (Base + 1)..(accepted + 1)
                PROVE  HoldsOrWillHold(SlotOf(n), n)'
    BY <1>4, <1>5 DEF Contents
  <2>0. SlotOf(n)' = SlotOf(n)
    BY <1>5
  <2>1. CASE n = accepted + 1
    BY <1>3, <1>10, <2>0, <2>1, Zenon DEF HoldsOrWillHold
  <2>2. CASE n # accepted + 1
    <3>1. n \in (Base + 1)..accepted
      BY <1>1, <2>2
    <3>2. HoldsOrWillHold(SlotOf(n), n) /\ SlotOf(n) # s
      BY <1>0, <1>11, <3>1 DEF Contents
    <3>. QED
      BY <1>7, <1>10, <2>0, <3>2, Zenon DEF HoldsOrWillHold
  <2>. QED
    BY <2>1, <2>2
<1>16. ReaderInBatch' /\ NoSilentRefusal'
  BY <1>0, <1>2, <1>5, <1>7 DEF ReaderInBatch, NoSilentRefusal
<1>. QED
  BY <1>6, <1>8, <1>9, <1>12, <1>13, <1>14, <1>15, <1>16 DEF IInv

(* bdr_buffer_read_routine preserves it: the batch becomes the held part.  *)
LEMMA ReadInfoStep ==
  ASSUME IInv, bdr_buffer_read_routine
  PROVE  IInv'
<1>0. /\ TypeOK /\ Bounded /\ HasSegment /\ TargetsOwned /\ TargetWritesDistinct
      /\ HeaderCopied /\ Contents /\ ReaderInBatch /\ NoSilentRefusal
  BY DEF IInv
<1>1. /\ info \in [offset : Slots, length : 0..MaxWrites, last : Slots, overflown : BOOLEAN]
      /\ rd \in [next : Slots, left : 0..MaxWrites, write : 0..(MaxAccepted + 1), live : BOOLEAN]
      /\ target \in [Writers -> [slot : Slots, write : 0..MaxAccepted, stale : BOOLEAN]]
      /\ accepted \in 0..MaxAccepted
  BY <1>0 DEF TypeOK
<1>2. UNCHANGED <<slot, pc, bio, bitmap, accepted, refused, stained>>
  BY DEF bdr_buffer_read_routine
<1>3. \A v \in Writers : InFlight(v)' = InFlight(v)
  BY <1>2 DEF InFlight
<1>4. HasSegment'
  BY <1>0, <1>2 DEF HasSegment
<1>5. CASE info.overflown
  <2>1. info' = info /\ target' = target /\ rd' = [rd EXCEPT !.left = 0]
    BY <1>5 DEF bdr_buffer_read_routine, ReadInfo
  <2>2. Base' = Base /\ HeldCount' = HeldCount /\ Bounded' /\ \A n : SlotOf(n)' = SlotOf(n)
    BY <1>0, <1>2, <2>1, LayoutFrame
  <2>3. rd' \in [next : Slots, left : 0..MaxWrites, write : 0..(MaxAccepted + 1), live : BOOLEAN]
        /\ rd'.left = 0
    BY <1>1, <2>1, WriterAssumption
  <2>4. TypeOK'
    BY <1>0, <1>2, <2>1, <2>3, Zenon DEF TypeOK
  <2>5. TargetsOwned' /\ TargetWritesDistinct' /\ HeaderCopied'
    BY <1>0, <1>2, <1>3, <2>1, <2>2 DEF TargetsOwned, TargetWritesDistinct, HeaderCopied
  <2>6. Contents'
    BY <1>0, <1>2, <1>3, <2>1, <2>2, Zenon DEF Contents, HoldsOrWillHold
  <2>7. ReaderInBatch' /\ NoSilentRefusal'
    <3>1. rd'.write + rd'.left <= MaxAccepted + 1
      BY <1>1, <2>1, <2>3, WriterAssumption
    <3>. QED
      BY <1>0, <1>2, <2>1, <2>3, <3>1 DEF ReaderInBatch, NoSilentRefusal
  <2>. QED
    BY <1>4, <2>2, <2>4, <2>5, <2>6, <2>7 DEF IInv
<1>6. CASE ~info.overflown
  <2>. DEFINE L == info.length
              o == (info.offset + info.length) % MaxWrites
  <2>1. /\ info' = [info EXCEPT !.last = info.offset, !.offset = o, !.length = 0]
        /\ rd' = [next |-> info.offset, left |-> L, write |-> accepted - L + 1, live |-> TRUE]
        /\ target' = ReleaseUpTo(accepted - L)
    BY <1>6 DEF bdr_buffer_read_routine, ReadInfo
  <2>2. /\ L \in Nat /\ HeldCount \in Slots /\ HeldCount \in Nat /\ HeldCount + L < MaxWrites
        /\ FreshCount = L /\ accepted \in Nat /\ HeldCount + L <= accepted
        /\ info.offset \in Slots /\ info.offset \in Nat /\ info.last \in Slots /\ info.last \in Nat
        /\ info.offset < MaxWrites /\ info.last < MaxWrites
    <3>1. HeldCount \in Slots
      BY <1>0, Counts
    <3>2. HeldCount + L <= MaxWrites /\ HeldCount + L # MaxWrites /\ FreshCount = L /\ HeldCount + L <= accepted
      BY <1>0, <1>6 DEF Bounded, FreshCount, Reserved
    <3>. QED
      BY <1>1, <3>1, <3>2, WriterAssumption DEF Slots
  <2>3. /\ o = IF info.offset + L < MaxWrites THEN info.offset + L ELSE info.offset + L - MaxWrites
        /\ o \in Slots
    <3>1. L \in 0..MaxWrites
      BY <2>2, WriterAssumption
    <3>. QED
      BY <2>2, <3>1, ModAdd
  <2>4. /\ info'.offset = o /\ info'.last = info.offset /\ info'.length = 0 /\ info'.overflown = FALSE
        /\ info' \in [offset : Slots, length : 0..MaxWrites, last : Slots, overflown : BOOLEAN]
    <3>1. info.overflown = FALSE /\ 0 \in 0..MaxWrites /\ info.offset \in Slots
      BY <1>1, <1>6, WriterAssumption
    <3>2. info' = [offset |-> o, length |-> 0, last |-> info.offset, overflown |-> FALSE]
      BY <1>1, <2>1, <3>1, Zenon
    <3>. QED
      BY <2>3, <3>1, <3>2
  <2>5. /\ HeldCount' = L /\ FreshCount' = 0 /\ Reserved' = L /\ Base' = accepted - L
    <3>1. HeldCount' = (o - info.offset) % MaxWrites
      BY <2>4 DEF HeldCount
    <3>2. (o - info.offset) % MaxWrites = IF o >= info.offset THEN o - info.offset
                                          ELSE o - info.offset + MaxWrites
      BY <2>2, <2>3, ModSub, Zenon
    <3>3. HeldCount' = L
      BY <2>2, <2>3, <3>1, <3>2, WriterAssumption DEF Slots
    <3>4. FreshCount' = 0
      BY <2>4 DEF FreshCount
    <3>. QED
      BY <1>2, <2>2, <3>3, <3>4 DEF Reserved, Base
  <2>6. Bounded'
    <3>1. L + 0 <= MaxWrites /\ L + 0 # MaxWrites /\ L <= accepted
      BY <2>2, WriterAssumption
    <3>. QED
      BY <1>2, <2>4, <2>5, <3>1 DEF Bounded
  <2>7. /\ Base \in Nat /\ accepted - L = Base + HeldCount
    BY <2>2 DEF Base, Reserved
  <2>. DEFINE NewSlotOf(n) == (info.offset + (n - (accepted - L) - 1)) % MaxWrites
  <2>8. \A n \in (accepted - L + 1)..accepted : n \in (Base + 1)..accepted /\ NewSlotOf(n) = SlotOf(n)
    <3>. SUFFICES ASSUME NEW n \in (accepted - L + 1)..accepted
                  PROVE  n \in (Base + 1)..accepted /\ NewSlotOf(n) = SlotOf(n)
      OBVIOUS
    <3>. DEFINE k == n - (accepted - L) - 1
    <3>1. /\ k \in 0..MaxWrites /\ HeldCount + k \in 0..MaxWrites /\ n - Base - 1 = HeldCount + k
          /\ n \in (Base + 1)..accepted /\ k \in Nat
      BY <2>2, <2>7, WriterAssumption
    <3>3. SlotOf(n) = (info.last + (HeldCount + k)) % MaxWrites
      BY <2>2, <2>7, <3>1 DEF SlotOf
    <3>4. NewSlotOf(n) = IF info.offset + k < MaxWrites THEN info.offset + k ELSE info.offset + k - MaxWrites
      BY <2>2, <3>1, ModAdd
    <3>5. SlotOf(n) = IF info.last + (HeldCount + k) < MaxWrites THEN info.last + (HeldCount + k)
                      ELSE info.last + (HeldCount + k) - MaxWrites
      BY <2>2, <3>1, <3>3, ModAdd
    <3>6. HeldCount = IF info.offset >= info.last THEN info.offset - info.last
                      ELSE info.offset - info.last + MaxWrites
      BY <1>0, Counts
    <3>7. NewSlotOf(n) = SlotOf(n)
      BY <2>2, <3>1, <3>4, <3>5, <3>6, WriterAssumption
    <3>. QED
      BY <3>1, <3>7
  <2>9. \A v \in Writers : /\ target'[v].slot = target[v].slot
                           /\ target'[v].write = target[v].write
                           /\ InFlight(v) /\ ~target'[v].stale =>
                                /\ ~target[v].stale
                                /\ target'[v] = target[v]
                                /\ target[v].write > accepted - L
                           /\ InFlight(v) /\ ~target[v].stale /\ target[v].write > accepted - L
                                => target'[v] = target[v]
    <3>. SUFFICES ASSUME NEW v \in Writers
                  PROVE  /\ target'[v].slot = target[v].slot
                         /\ target'[v].write = target[v].write
                         /\ InFlight(v) /\ ~target'[v].stale =>
                                /\ ~target[v].stale
                                /\ target'[v] = target[v]
                                /\ target[v].write > accepted - L
                         /\ InFlight(v) /\ ~target[v].stale /\ target[v].write > accepted - L
                                => target'[v] = target[v]
      OBVIOUS
    <3>1. target[v] \in [slot : Slots, write : 0..MaxAccepted, stale : BOOLEAN]
      BY <1>1
    <3>2. target'[v] = [target[v] EXCEPT !.stale =
                          target[v].stale \/ (InFlight(v) /\ target[v].write <= accepted - L)]
      BY <2>1 DEF ReleaseUpTo
    <3>3. target[v].write \in Nat /\ accepted - L \in Nat
      BY <3>1, <2>2, WriterAssumption
    <3>4. CASE InFlight(v) /\ target[v].write <= accepted - L
      <4>1. target'[v] = [target[v] EXCEPT !.stale = TRUE]
        BY <3>2, <3>4, Zenon
      <4>2. ~(target[v].write > accepted - L)
        BY <3>3, <3>4
      <4>. QED
        BY <3>1, <4>1, <4>2
    <3>5. CASE ~(InFlight(v) /\ target[v].write <= accepted - L)
      <4>1. target'[v] = target[v]
        BY <3>1, <3>2, <3>5
      <4>. QED
        BY <3>3, <3>5, <4>1
    <3>. QED
      BY <3>4, <3>5
  <2>10. TypeOK'
    <3>1. target' \in [Writers -> [slot : Slots, write : 0..MaxAccepted, stale : BOOLEAN]]
      BY <1>1, <2>1, Zenon DEF ReleaseUpTo, InFlight
    <3>2. rd' \in [next : Slots, left : 0..MaxWrites, write : 0..(MaxAccepted + 1), live : BOOLEAN]
      BY <1>1, <2>1, <2>2, WriterAssumption
    <3>. QED
      BY <1>0, <1>2, <2>4, <3>1, <3>2, Zenon DEF TypeOK
  <2>11. TargetsOwned'
    <3>. SUFFICES ASSUME NEW v \in Writers, InFlight(v), ~target'[v].stale
                  PROVE  /\ target[v].write \in (accepted - L + 1)..accepted
                         /\ target[v].slot = NewSlotOf(target[v].write)
      BY <1>2, <1>3, <2>4, <2>5, <2>9 DEF TargetsOwned, SlotOf
    <3>1. /\ target[v].write > accepted - L /\ target[v].write \in (Base + 1)..accepted
          /\ target[v].slot = SlotOf(target[v].write)
      BY <1>0, <2>9 DEF TargetsOwned
    <3>2. target[v].write \in (accepted - L + 1)..accepted
      BY <2>2, <2>7, <3>1
    <3>. QED
      BY <2>8, <3>1, <3>2
  <2>12. TargetWritesDistinct' /\ HeaderCopied'
    BY <1>0, <1>2, <1>3, <2>9 DEF TargetWritesDistinct, HeaderCopied, InFlight
  <2>13. Contents'
    <3>. SUFFICES ASSUME NEW n \in (accepted - L + 1)..accepted
                  PROVE  HoldsOrWillHold(SlotOf(n), n)'
      BY <1>2, <2>5 DEF Contents
    <3>0. SlotOf(n)' = NewSlotOf(n)
      BY <1>2, <2>4, <2>5 DEF SlotOf
    <3>1. HoldsOrWillHold(SlotOf(n), n) /\ SlotOf(n)' = SlotOf(n)
      BY <1>0, <2>8, <3>0 DEF Contents
    <3>2. n > accepted - L
      BY <2>2
    <3>3. \A v \in Writers : InFlight(v) /\ target[v] = [slot |-> SlotOf(n), write |-> n, stale |-> FALSE]
                             => target'[v] = target[v]
      BY <2>9, <3>2
    <3>. QED
      BY <1>2, <1>3, <3>1, <3>3, Zenon DEF HoldsOrWillHold
  <2>14. ReaderInBatch' /\ NoSilentRefusal'
    <3>0. rd'.write + rd'.left <= MaxAccepted + 1
      BY <1>1, <2>1, <2>2, WriterAssumption
    <3>1. CASE L > 0
      <4>1. /\ rd'.left = L /\ rd'.write = accepted - L + 1 /\ rd'.next = info.offset
            /\ HeldCount' = L /\ Base' = accepted - L /\ info'.last = info.offset
        BY <2>1, <2>4, <2>5
      <4>2. accepted - L + 1 = (accepted - L) + L - L + 1 /\ L <= L
        BY <2>2
      <4>3. (info.offset + ((accepted - L + 1) - (accepted - L) - 1)) % MaxWrites = info.offset
        <5>1. (accepted - L + 1) - (accepted - L) - 1 = 0 /\ 0 \in 0..MaxWrites /\ info.offset + 0 = info.offset
          BY <2>2, WriterAssumption
        <5>2. (info.offset + 0) % MaxWrites = info.offset
          BY <2>2, <5>1, ModAdd
        <5>. QED
          BY <2>2, <5>1, <5>2
      <4>4. ReaderInBatch'
        BY <3>0, <4>1, <4>2, <4>3 DEF ReaderInBatch, SlotOf
      <4>. QED
        BY <1>0, <1>2, <1>6, <4>4 DEF NoSilentRefusal
    <3>2. CASE ~(L > 0)
      BY <1>0, <1>2, <1>6, <2>1, <3>0, <3>2 DEF ReaderInBatch, NoSilentRefusal
    <3>. QED
      BY <3>1, <3>2
  <2>. QED
    BY <1>4, <2>6, <2>10, <2>11, <2>12, <2>13, <2>14 DEF IInv
<1>. QED
  BY <1>5, <1>6

(* The reader that moves on by one slot preserves it.                      *)
LEMMA ReadSlotStep ==
  ASSUME IInv, ReadSlot
  PROVE  IInv'
<1>0. /\ TypeOK /\ Bounded /\ HasSegment /\ TargetsOwned /\ TargetWritesDistinct
      /\ HeaderCopied /\ Contents /\ ReaderInBatch /\ NoSilentRefusal
  BY DEF IInv
<1>1. /\ UNCHANGED <<info, slot, pc, bio, target, bitmap, accepted, refused, stained>>
      /\ rd.left > 0
      /\ rd' = [rd EXCEPT !.next = (@ + 1) % MaxWrites, !.left = @ - 1, !.write = @ + 1]
  BY DEF ReadSlot
<1>2. /\ Base' = Base /\ HeldCount' = HeldCount /\ Bounded' /\ \A n : SlotOf(n)' = SlotOf(n)
  BY <1>0, <1>1, LayoutFrame
<1>3. rd \in [next : Slots, left : 0..MaxWrites, write : 0..(MaxAccepted + 1), live : BOOLEAN]
  BY <1>0 DEF TypeOK
<1>4. /\ rd'.next = (rd.next + 1) % MaxWrites /\ rd'.left = rd.left - 1
      /\ rd'.write = rd.write + 1 /\ rd'.live = rd.live
  BY <1>1, <1>3
<1>5. /\ rd'.next \in Slots /\ rd'.left \in 0..MaxWrites
  <2>1. 1 \in 0..MaxWrites /\ rd.next \in Slots
    BY <1>3, WriterAssumption
  <2>. QED
    BY <1>1, <1>3, <1>4, <2>1, ModAdd, WriterAssumption
<1>6. rd'.write + rd'.left <= MaxAccepted + 1 /\ rd'.write \in 0..(MaxAccepted + 1)
  BY <1>0, <1>1, <1>3, <1>4, WriterAssumption DEF ReaderInBatch
<1>7. TypeOK'
  <2>1. rd' \in [next : Slots, left : 0..MaxWrites, write : 0..(MaxAccepted + 1), live : BOOLEAN]
    BY <1>1, <1>3, <1>4, <1>5, <1>6, Zenon
  <2>. QED
    BY <1>0, <1>1, <2>1, Zenon DEF TypeOK
<1>8. ReaderInBatch'
  <2>. SUFFICES ASSUME rd.live, rd'.left > 0
                PROVE  /\ rd'.left <= HeldCount
                       /\ rd'.write = Base + HeldCount - rd'.left + 1
                       /\ rd'.next = SlotOf(rd'.write)
    BY <1>1, <1>2, <1>4, <1>6 DEF ReaderInBatch, SlotOf
  <2>1. /\ rd.left <= HeldCount /\ rd.write = Base + HeldCount - rd.left + 1 /\ rd.next = SlotOf(rd.write)
    BY <1>0, <1>1 DEF ReaderInBatch
  <2>2. /\ Base \in Nat /\ HeldCount \in Nat /\ accepted \in Nat /\ HeldCount < MaxWrites
        /\ info.last \in Nat /\ info.last < MaxWrites /\ info.last \in Slots
        /\ rd.left \in Nat /\ rd.write \in Nat /\ rd.next \in Slots
    <3>1. accepted \in Nat /\ info.last \in Slots
      BY <1>0, WriterAssumption DEF TypeOK
    <3>2. Base \in 0..accepted /\ HeldCount \in Slots
      BY <1>0, Counts
    <3>. QED
      BY <1>3, <3>1, <3>2, WriterAssumption DEF Slots
  <2>. DEFINE k == rd.write - Base - 1
  <2>3. /\ k \in 0..MaxWrites /\ k + 1 \in 0..MaxWrites /\ k + 1 < MaxWrites /\ k \in Nat
        /\ rd'.write = rd.write + 1
    BY <1>1, <1>4, <2>1, <2>2, WriterAssumption
  <2>4. rd.next = (info.last + k) % MaxWrites
    BY <2>1 DEF SlotOf
  <2>5. rd.next = IF info.last + k < MaxWrites THEN info.last + k ELSE info.last + k - MaxWrites
    BY <2>2, <2>3, <2>4, ModAdd
  <2>6. (rd.next + 1) % MaxWrites = IF rd.next + 1 < MaxWrites THEN rd.next + 1 ELSE rd.next + 1 - MaxWrites
    <3>1. 1 \in 0..MaxWrites
      BY WriterAssumption
    <3>. QED
      BY <2>2, <3>1, ModAdd
  <2>7. SlotOf(rd'.write) = (info.last + (k + 1)) % MaxWrites
    <3>1. rd'.write - Base - 1 = k + 1
      BY <2>2, <2>3
    <3>. QED
      BY <2>2, <2>3, <3>1 DEF SlotOf
  <2>8. SlotOf(rd'.write) = IF info.last + (k + 1) < MaxWrites THEN info.last + (k + 1)
                            ELSE info.last + (k + 1) - MaxWrites
    BY <2>2, <2>3, <2>7, ModAdd
  <2>9. rd'.next = SlotOf(rd'.write)
    BY <1>4, <2>2, <2>3, <2>5, <2>6, <2>8, WriterAssumption
  <2>. QED
    BY <1>4, <2>1, <2>2, <2>9
<1>9. HasSegment' /\ TargetsOwned' /\ TargetWritesDistinct' /\ HeaderCopied' /\ NoSilentRefusal'
  BY <1>0, <1>1, <1>2 DEF HasSegment, TargetsOwned, TargetWritesDistinct, HeaderCopied, NoSilentRefusal, InFlight
<1>10. Contents'
  BY <1>0, <1>1, <1>2, Zenon DEF Contents, HoldsOrWillHold, InFlight
<1>. QED
  BY <1>2, <1>7, <1>8, <1>9, <1>10 DEF IInv

(* bdr_ring_buffer_reset preserves it: nothing is reserved any more.       *)
LEMMA ResetStep ==
  ASSUME IInv, bdr_ring_buffer_reset
  PROVE  IInv'
<1>0. TypeOK /\ Bounded /\ HasSegment /\ TargetsOwned /\ ReaderInBatch
  BY DEF IInv
<1>1. /\ info' = [offset |-> 0, length |-> 0, last |-> 0, overflown |-> FALSE]
      /\ target' = ReleaseUpTo(accepted)
      /\ rd' = [rd EXCEPT !.live = FALSE]
      /\ refused' = {} /\ stained' = {}
      /\ UNCHANGED <<slot, pc, bio, bitmap, accepted>>
  BY DEF bdr_ring_buffer_reset
<1>2. 0 \in Slots /\ accepted \in Nat /\ MaxWrites \in Nat \ {0}
  BY <1>0, WriterAssumption DEF Slots, TypeOK
<1>3. HeldCount' = 0 /\ FreshCount' = 0 /\ Reserved' = 0 /\ Base' = accepted
  <2>1. (0 - 0) % MaxWrites = 0
    BY <1>2, ModSub
  <2>2. HeldCount' = 0 /\ FreshCount' = 0
    BY <1>1, <2>1 DEF HeldCount, FreshCount
  <2>. QED
    BY <1>1, <1>2, <2>2 DEF Reserved, Base
<1>4. Bounded'
  BY <1>1, <1>2, <1>3 DEF Bounded
<1>5. rd' \in [next : Slots, left : 0..MaxWrites, write : 0..(MaxAccepted + 1), live : BOOLEAN]
      /\ rd'.live = FALSE /\ rd'.left = rd.left /\ rd'.write = rd.write
  BY <1>0, <1>1, Zenon DEF TypeOK
<1>6. target' \in [Writers -> [slot : Slots, write : 0..MaxAccepted, stale : BOOLEAN]]
  <2>1. target \in [Writers -> [slot : Slots, write : 0..MaxAccepted, stale : BOOLEAN]]
    BY <1>0 DEF TypeOK
  <2>. QED
    BY <1>1, <2>1, Zenon DEF ReleaseUpTo, InFlight
<1>7. TypeOK'
  <2>1. info' \in [offset : Slots, length : 0..MaxWrites, last : Slots, overflown : BOOLEAN]
    BY <1>1, <1>2
  <2>. QED
    BY <1>0, <1>1, <1>5, <1>6, <2>1, Zenon DEF TypeOK
<1>8. \A v \in Writers : InFlight(v)' => target'[v].stale
  <2>. SUFFICES ASSUME NEW v \in Writers, InFlight(v) PROVE target'[v].stale
    BY <1>1 DEF InFlight
  <2>1. target[v] \in [slot : Slots, write : 0..MaxAccepted, stale : BOOLEAN]
    BY <1>0 DEF TypeOK
  <2>2. ~target[v].stale => target[v].write <= accepted
    BY <1>0, <1>2 DEF TargetsOwned
  <2>3. target'[v] = [target[v] EXCEPT !.stale = target[v].stale \/ target[v].write <= accepted]
    BY <1>1 DEF ReleaseUpTo
  <2>4. target'[v] = [target[v] EXCEPT !.stale = TRUE]
    BY <2>1, <2>2, <2>3, Zenon
  <2>. QED
    BY <2>1, <2>4
<1>9. TargetsOwned' /\ TargetWritesDistinct' /\ HeaderCopied'
  BY <1>8 DEF TargetsOwned, TargetWritesDistinct, HeaderCopied, InFlight
<1>10. Contents'
  BY <1>1, <1>2, <1>3 DEF Contents
<1>11. HasSegment' /\ ReaderInBatch' /\ NoSilentRefusal'
  BY <1>0, <1>1, <1>5 DEF HasSegment, ReaderInBatch, NoSilentRefusal
<1>. QED
  BY <1>4, <1>7, <1>9, <1>10, <1>11 DEF IInv

(* bdr_chardev_read preserves it: it touches the bitmap alone.             *)
LEMMA BitmapReadStep ==
  ASSUME IInv, bdr_chardev_read \/ UNCHANGED vars
  PROVE  IInv'
<1>0. /\ TypeOK /\ Bounded /\ HasSegment /\ TargetsOwned /\ TargetWritesDistinct
      /\ HeaderCopied /\ Contents /\ ReaderInBatch /\ NoSilentRefusal
  BY DEF IInv
<1>1. /\ UNCHANGED <<info, slot, pc, bio, target, rd, accepted, refused, stained>>
      /\ bitmap' \in SUBSET Blocks
  BY <1>0 DEF bdr_chardev_read, vars, TypeOK
<1>2. TypeOK'
  BY <1>0, <1>1 DEF TypeOK
<1>3. Base' = Base /\ HeldCount' = HeldCount /\ Bounded' /\ \A n : SlotOf(n)' = SlotOf(n)
  BY <1>0, <1>1, LayoutFrame
<1>4. HasSegment' /\ TargetsOwned' /\ TargetWritesDistinct' /\ HeaderCopied' /\ NoSilentRefusal'
  BY <1>0, <1>1, <1>3 DEF HasSegment, TargetsOwned, TargetWritesDistinct, HeaderCopied, NoSilentRefusal, InFlight
<1>5. Contents' /\ ReaderInBatch'
  BY <1>0, <1>1, <1>3 DEF Contents, HoldsOrWillHold, InFlight, ReaderInBatch
<1>. QED
  BY <1>2, <1>3, <1>4, <1>5 DEF IInv

(* IInv is an invariant: it holds initially and every action preserves it. *)
THEOREM InductiveInvariant == Spec => []IInv
<1>1. ASSUME IInv, [Next]_vars PROVE IInv'
  <2>1. ASSUME NEW w \in Writers, Writer(w) PROVE IInv'
    BY <1>1, <2>1, MarkStep, CopyStep, RefusedStep, ReservedStep DEF Writer
  <2>2. CASE bdr_buffer_read_routine
    BY <1>1, <2>2, ReadInfoStep
  <2>3. CASE ReadSlot
    BY <1>1, <2>3, ReadSlotStep
  <2>4. CASE bdr_ring_buffer_reset
    BY <1>1, <2>4, ResetStep
  <2>5. CASE bdr_chardev_read \/ UNCHANGED vars
    BY <1>1, <2>5, BitmapReadStep
  <2>. QED
    BY <1>1, <2>1, <2>2, <2>3, <2>4, <2>5 DEF Next
<1>. QED
  BY <1>1, InitIInv, PTL DEF Spec

(* buffer_info always describes a part of the buffer, and a put in flight  *)
(* always names a slot of it.                                              *)
THEOREM TypeCorrect == Spec => []TypeOK
<1>1. IInv => TypeOK
  BY DEF IInv
<1>. QED
  BY <1>1, InductiveInvariant, PTL

(* A refused write leaves the overflow flag up until the reset             *)
(* (bdr_ring_buffer_put, bdr_buffer_read_routine).                         *)
THEOREM RefusalRaisesFlag == Spec => []NoSilentRefusal
<1>1. IInv => NoSilentRefusal
  BY DEF IInv
<1>. QED
  BY <1>1, InductiveInvariant, PTL

(* Concurrent puts copy into different slots although they copy after      *)
(* bdr_ring_buffer_put released the spinlock.                              *)
THEOREM PutsDisjoint == Spec => []DistinctTargets
<1>1. IInv => DistinctTargets
  <2>. SUFFICES ASSUME IInv, NEW v \in Writers, NEW w \in Writers, v # w,
                       InFlight(v), InFlight(w), ~target[v].stale, ~target[w].stale
                PROVE  target[v].slot # target[w].slot
    BY DEF DistinctTargets
  <2>1. TypeOK /\ Bounded /\ TargetsOwned /\ TargetWritesDistinct
    BY DEF IInv
  <2>2. /\ target[v].write \in (Base + 1)..accepted /\ target[w].write \in (Base + 1)..accepted
        /\ target[v].slot = SlotOf(target[v].write) /\ target[w].slot = SlotOf(target[w].write)
        /\ target[v].write # target[w].write
    BY <2>1 DEF TargetsOwned, TargetWritesDistinct
  <2>. QED
    BY <2>1, <2>2, ReservedSlots
<1>. QED
  BY <1>1, InductiveInvariant, PTL

(* The batch handed out by bdr_buffer_read_routine is not overwritten      *)
(* while the client walks through it.                                      *)
THEOREM BatchKept == Spec => []ReaderBatchKept
<1>1. IInv => ReaderBatchKept
  <2>. SUFFICES ASSUME IInv, rd.live, NEW k \in 0..(rd.left - 1)
                PROVE  HoldsOrWillHold((rd.next + k) % MaxWrites, rd.write + k)
    BY DEF ReaderBatchKept
  <2>1. TypeOK /\ Bounded /\ Contents /\ ReaderInBatch
    BY DEF IInv
  <2>2. /\ rd.left \in Nat /\ rd.write \in Nat /\ rd.next \in Slots /\ rd.next \in Nat
        /\ accepted \in Nat /\ info.last \in Slots /\ info.last \in Nat /\ k \in Nat /\ rd.left > 0
    <3>1. /\ rd.left \in 0..MaxWrites /\ rd.write \in 0..(MaxAccepted + 1) /\ rd.next \in Slots
          /\ accepted \in 0..MaxAccepted /\ info.last \in Slots
      BY <2>1 DEF TypeOK
    <3>. QED
      BY <3>1, WriterAssumption DEF Slots
  <2>3. /\ rd.left <= HeldCount /\ rd.write = Base + HeldCount - rd.left + 1
        /\ rd.next = SlotOf(rd.write)
    BY <2>1, <2>2 DEF ReaderInBatch
  <2>4. /\ Base \in Nat /\ HeldCount \in Nat /\ HeldCount < MaxWrites /\ FreshCount \in Nat
        /\ accepted = Base + Reserved
    <3>1. Base \in 0..accepted /\ HeldCount \in Slots /\ FreshCount \in 0..MaxWrites /\ accepted = Base + Reserved
      BY <2>1, Counts
    <3>. QED
      BY <2>2, <3>1, WriterAssumption DEF Slots
  <2>5. rd.write + k \in (Base + 1)..accepted
    BY <2>2, <2>3, <2>4 DEF Reserved
  <2>. DEFINE j == rd.write - Base - 1
  <2>6. /\ j \in 0..MaxWrites /\ j + k \in 0..MaxWrites /\ k \in 0..MaxWrites /\ j \in Nat /\ j + k < MaxWrites
        /\ (rd.write + k) - Base - 1 = j + k
    BY <2>2, <2>3, <2>4, WriterAssumption
  <2>7. rd.next = IF info.last + j < MaxWrites THEN info.last + j ELSE info.last + j - MaxWrites
    <3>1. rd.next = (info.last + j) % MaxWrites
      BY <2>3 DEF SlotOf
    <3>. QED
      BY <2>2, <2>6, <3>1, ModAdd
  <2>8. (rd.next + k) % MaxWrites = IF rd.next + k < MaxWrites THEN rd.next + k ELSE rd.next + k - MaxWrites
    BY <2>2, <2>6, ModAdd
  <2>9. SlotOf(rd.write + k) = IF info.last + (j + k) < MaxWrites THEN info.last + (j + k)
                               ELSE info.last + (j + k) - MaxWrites
    <3>1. SlotOf(rd.write + k) = (info.last + (j + k)) % MaxWrites
      BY <2>2, <2>4, <2>6 DEF SlotOf
    <3>. QED
      BY <2>2, <2>6, <3>1, ModAdd
  <2>10. (rd.next + k) % MaxWrites = SlotOf(rd.write + k)
    <3>1. info.last < MaxWrites
      BY <2>2, WriterAssumption DEF Slots
    <3>. QED
      BY <2>2, <2>6, <2>7, <2>8, <2>9, <3>1, WriterAssumption
  <2>. QED
    BY <2>1, <2>5, <2>10 DEF Contents
<1>. QED
  BY <1>1, InductiveInvariant, PTL
-----------------------------------------------------------------------------
(* The ring buffer implements the overflow queue, for any number of        *)
(* writers, any buffer size and any bios.  The inductive invariant gives   *)
(* what the mapping needs: how many slots are held and fresh, and that the *)
(* flag goes up exactly when they would fill the buffer.                   *)

(* The writes accepted last, which buffer_info describes.                  *)
LastAccepted(n, a) == [k \in 1..n |-> a - n + k]

LEMMA LastAcceptedFacts ==
  ASSUME NEW n \in Nat, NEW a \in Nat
  PROVE  /\ LastAccepted(n, a) \in Seq(Int) /\ Len(LastAccepted(n, a)) = n
         /\ LastAccepted(0, a) = <<>>
         /\ Append(LastAccepted(n, a), a + 1) = LastAccepted(n + 1, a + 1)
<1>1. LastAccepted(n, a) \in [1..n -> Int]
  BY DEF LastAccepted
<1>2. LastAccepted(n, a) \in Seq(Int) /\ Len(LastAccepted(n, a)) = n
  BY <1>1
<1>3. LastAccepted(0, a) = <<>>
  BY DEF LastAccepted
<1>4. Append(LastAccepted(n, a), a + 1) = LastAccepted(n + 1, a + 1)
  <2> DEFINE s == Append(LastAccepted(n, a), a + 1)
  <2>1. s \in [1..(n + 1) -> Int]
    <3>1. s \in Seq(Int) /\ Len(s) = n + 1
      BY <1>2, AppendProperties
    <3> HIDE DEF s
    <3> QED
      BY <3>1, LenProperties
  <2>2. ASSUME NEW k \in 1..(n + 1) PROVE s[k] = a + 1 - (n + 1) + k
    BY <1>2, <2>2 DEF LastAccepted
  <2> DEFINE t == LastAccepted(n + 1, a + 1)
  <2>3. t \in [1..(n + 1) -> Int] /\ \A k \in 1..(n + 1) : t[k] = a + 1 - (n + 1) + k
    BY DEF LastAccepted
  <2>4. \A k \in 1..(n + 1) : s[k] = t[k]
    BY <2>2, <2>3, Zenon
  <2> QED
    <3> HIDE DEF s, t
    <3>1. s = t
      BY <2>1, <2>3, <2>4
    <3> QED
      BY <3>1 DEF s, t
<1> QED
  BY <1>2, <1>3, <1>4

(* The mapped variables, by what buffer_info says.                         *)
LEMMA Mapped ==
  ASSUME IInv
  PROVE  /\ FreshCount \in Nat /\ HeldCount \in Nat /\ accepted \in Nat
         /\ info.overflown \in BOOLEAN /\ info.length \in Nat
         /\ ~info.overflown => FreshCount = info.length /\ HeldCount + info.length < MaxWrites
         /\ info.overflown => FreshCount = info.length - 1
<1>1. TypeOK /\ Bounded
  BY DEF IInv
<1>2. accepted \in Nat /\ info.length \in Nat /\ info.overflown \in BOOLEAN
  BY <1>1, WriterAssumption DEF TypeOK
<1>3. FreshCount \in Nat /\ HeldCount \in Nat
  BY <1>1, Counts, WriterAssumption DEF Slots
<1>4. ~info.overflown => FreshCount = info.length
  BY DEF FreshCount
<1>5. ~info.overflown => HeldCount + info.length < MaxWrites
  BY <1>1, <1>2, <1>3, WriterAssumption DEF Bounded
<1> QED
  BY <1>2, <1>3, <1>4, <1>5 DEF FreshCount

LEMMA InitMaps == ASSUME Init PROVE Queue!QueueInit
<1>1. info.offset = 0 /\ info.length = 0 /\ info.last = 0 /\ info.overflown = FALSE
  BY DEF Init
<1>2. FreshCount = 0 /\ HeldCount = 0
  BY <1>1, WriterAssumption DEF FreshCount, HeldCount
<1>3. LastAccepted(FreshCount, accepted) = <<>>
  BY <1>2 DEF LastAccepted
<1> QED
  BY <1>1, <1>2, <1>3 DEF Queue!QueueInit, LastAccepted

(* Steps that touch neither buffer_info nor the count of accepted writes.  *)
LEMMA FrameMaps ==
  ASSUME UNCHANGED <<info, accepted>>
  PROVE  UNCHANGED Queue!qvars
BY DEF Queue!qvars, FreshCount, HeldCount

(* A put that gets a slot appends its write.                               *)
LEMMA ReservedMaps ==
  ASSUME IInv, NEW w \in Writers, PutReserved(w)
  PROVE  \E n \in 1..MaxAccepted : Queue!Accept(n)
<1>1. TypeOK /\ Bounded /\ ~info.overflown /\ ~bdr_ring_buffer_update_unsafe(info).overflown
  BY DEF IInv, PutReserved
<1>2. /\ info' = bdr_ring_buffer_update_unsafe(info)
      /\ accepted' = accepted + 1 /\ accepted < MaxAccepted
  BY DEF PutReserved
<1>3. /\ info'.offset = info.offset /\ info'.last = info.last
      /\ info'.length = info.length + 1 /\ info'.overflown = FALSE
      /\ (info.offset + info.length + 1) % MaxWrites # info.last
  BY <1>1, <1>2, Zenon DEF bdr_ring_buffer_update_unsafe, TypeOK
<1>4. /\ FreshCount = info.length /\ HeldCount + info.length < MaxWrites
      /\ FreshCount \in Nat /\ HeldCount \in Nat /\ accepted \in Nat
  BY <1>1, Mapped
<1>5. HeldCount + FreshCount + 1 # MaxWrites
  BY <1>1, <1>3, <1>4, FullMeetsLast
<1>6. FreshCount' = FreshCount + 1 /\ HeldCount' = HeldCount
  BY <1>3, <1>4 DEF FreshCount, HeldCount
<1>7. LastAccepted(FreshCount', accepted') = Append(LastAccepted(FreshCount, accepted), accepted + 1)
  BY <1>2, <1>4, <1>6, LastAcceptedFacts, Zenon
<1>8. ~(HeldCount + Len(LastAccepted(FreshCount, accepted)) + 1 >= MaxWrites)
  <2>1. ~(HeldCount + FreshCount + 1 >= MaxWrites)
    BY <1>4, <1>5, WriterAssumption
  <2>2. Len(LastAccepted(FreshCount, accepted)) = FreshCount
    BY <1>4, LastAcceptedFacts, Zenon
  <2> QED
    BY <2>1, <2>2
<1>9. PICK n \in 1..MaxAccepted : n = accepted + 1
  BY <1>2, <1>4, WriterAssumption
<1>10. Queue!Accept(n)
  <2>1. info'.overflown = info.overflown
    BY <1>1, <1>3, Zenon DEF TypeOK
  <2> QED
    BY <1>1, <2>1, <1>6, <1>7, <1>8, <1>9, Zenon DEF Queue!Accept, Queue!Full, LastAccepted
<1> QED
  BY <1>10

(* A refused put raises the flag, or finds it up.                          *)
LEMMA RefusedMaps ==
  ASSUME IInv, NEW w \in Writers, PutRefused(w)
  PROVE  Queue!Refuse
<1>1. TypeOK /\ Bounded /\ accepted' = accepted
  BY DEF IInv, PutRefused
<1>2. FreshCount \in Nat /\ HeldCount \in Nat /\ accepted \in Nat /\ info.length \in Nat
  BY Mapped
<1>3. CASE info.overflown
  <2>1. info' = info
    BY <1>3 DEF PutRefused
  <2>2. FreshCount' = FreshCount /\ HeldCount' = HeldCount /\ info'.overflown = info.overflown
    BY <2>1 DEF FreshCount, HeldCount
  <2>3. info.overflown = TRUE
    BY <1>1, <1>3 DEF TypeOK
  <2> QED
    BY <1>1, <1>3, <2>2, <2>3 DEF Queue!Refuse
<1>4. CASE ~info.overflown
  <2>1. /\ info' = bdr_ring_buffer_update_unsafe(info)
        /\ bdr_ring_buffer_update_unsafe(info).overflown
    BY <1>4 DEF PutRefused
  <2>2. /\ info'.offset = info.offset /\ info'.last = info.last
        /\ info'.length = info.length + 1 /\ info'.overflown = TRUE
        /\ (info.offset + info.length + 1) % MaxWrites = info.last
    BY <1>1, <1>4, <2>1 DEF bdr_ring_buffer_update_unsafe, TypeOK
  <2>3. FreshCount = info.length
    BY <1>4 DEF FreshCount
  <2>4. FreshCount' = FreshCount /\ HeldCount' = HeldCount
    BY <1>2, <2>2, <2>3 DEF FreshCount, HeldCount
  <2>5. HeldCount + FreshCount + 1 = MaxWrites
    BY <1>1, <1>4, <2>2, <2>3, FullMeetsLast
  <2>6. HeldCount + Len(LastAccepted(FreshCount, accepted)) + 1 >= MaxWrites
    <3>1. Len(LastAccepted(FreshCount, accepted)) = FreshCount
      BY <1>2, LastAcceptedFacts
    <3> QED
      BY <1>2, <2>5, <3>1, WriterAssumption
  <2> QED
    BY <1>1, <2>2, <2>4, <2>6, Zenon DEF Queue!Refuse, Queue!Full, LastAccepted
<1> QED
  BY <1>3, <1>4

(* BDR_CMD_READ_BUFFER_INFO hands out all fresh writes, or nothing.        *)
LEMMA ReadMaps ==
  ASSUME IInv, bdr_buffer_read_routine
  PROVE  Queue!Take \/ UNCHANGED Queue!qvars
<1>1. TypeOK /\ Bounded /\ accepted' = accepted /\ info' = ReadInfo(info)
  BY DEF IInv, bdr_buffer_read_routine
<1>2. CASE info.overflown
  BY <1>1, <1>2, FrameMaps DEF ReadInfo
<1>3. CASE ~info.overflown
  <2>1. /\ info'.last = info.offset /\ info'.length = 0 /\ info'.overflown = FALSE
        /\ info'.offset = (info.offset + info.length) % MaxWrites
    BY <1>1, <1>3 DEF ReadInfo, TypeOK
  <2>2. /\ FreshCount = info.length /\ HeldCount + info.length < MaxWrites
        /\ FreshCount \in Nat /\ HeldCount \in Nat /\ accepted \in Nat
    BY <1>3, Mapped
  <2>3. FreshCount' = 0
    BY <2>1 DEF FreshCount
  <2>4. HeldCount' = FreshCount
    <3>1. info.offset \in Slots /\ info.length \in 0..MaxWrites
      BY <1>1 DEF TypeOK
    <3>2. /\ info'.offset = IF info.offset + info.length < MaxWrites THEN info.offset + info.length
                            ELSE info.offset + info.length - MaxWrites
          /\ info'.offset \in Slots
      BY <2>1, <3>1, ModAdd
    <3>3. HeldCount' = IF info'.offset >= info.offset THEN info'.offset - info.offset
                       ELSE info'.offset - info.offset + MaxWrites
      BY <2>1, <3>1, <3>2, ModSub DEF HeldCount
    <3> QED
      BY <2>2, <3>1, <3>2, <3>3, WriterAssumption DEF Slots
  <2>5. /\ Len(LastAccepted(FreshCount, accepted)) = FreshCount
        /\ LastAccepted(FreshCount', accepted') = <<>>
    BY <1>1, <2>2, <2>3, LastAcceptedFacts, Zenon
  <2>6. info'.overflown = info.overflown
    BY <1>1, <1>3, <2>1, Zenon DEF TypeOK
  <2> QED
    BY <1>3, <2>4, <2>5, <2>6, Zenon DEF Queue!Take, LastAccepted
<1> QED
  BY <1>2, <1>3

LEMMA ResetMaps == ASSUME IInv, bdr_ring_buffer_reset PROVE Queue!Discard
<1>1. /\ info'.offset = 0 /\ info'.length = 0 /\ info'.last = 0 /\ info'.overflown = FALSE
      /\ accepted' = accepted
  BY DEF bdr_ring_buffer_reset
<1>2. FreshCount' = 0 /\ HeldCount' = 0
  BY <1>1, WriterAssumption DEF FreshCount, HeldCount
<1>3. LastAccepted(FreshCount', accepted') = <<>>
  BY <1>1, <1>2, Mapped, LastAcceptedFacts
<1> QED
  BY <1>1, <1>2, <1>3 DEF Queue!Discard, LastAccepted

LEMMA StepMaps ==
  ASSUME IInv, [Next]_vars
  PROVE  [Queue!QueueNext]_(Queue!qvars)
<1>1. ASSUME NEW w \in Writers, Writer(w) PROVE [Queue!QueueNext]_(Queue!qvars)
  <2>1. CASE PutReserved(w)
    BY <2>1, ReservedMaps DEF Queue!QueueNext
  <2>2. CASE PutRefused(w)
    BY <2>2, RefusedMaps DEF Queue!QueueNext
  <2>3. CASE bdr_target_map(w) \/ bdr_bitmap_set_sector(w) \/ CopyHeader(w) \/ CopyData(w) \/ submit_bio(w)
    <3>1. UNCHANGED <<info, accepted>>
      BY <2>3 DEF bdr_target_map, bdr_bitmap_set_sector, CopyHeader, CopyData, submit_bio
    <3> QED
      BY <3>1, FrameMaps
  <2> QED
    BY <1>1, <2>1, <2>2, <2>3 DEF Writer
<1>2. CASE bdr_buffer_read_routine
  BY <1>2, ReadMaps DEF Queue!QueueNext
<1>3. CASE bdr_ring_buffer_reset
  BY <1>3, ResetMaps DEF Queue!QueueNext
<1>4. CASE ReadSlot \/ bdr_chardev_read \/ UNCHANGED vars
  <2>1. UNCHANGED <<info, accepted>>
    BY <1>4 DEF ReadSlot, bdr_chardev_read, vars
  <2> QED
    BY <2>1, FrameMaps
<1> QED
  BY <1>1, <1>2, <1>3, <1>4 DEF Next

(* bdr_ring_buffer_put, bdr_buffer_read_routine and bdr_ring_buffer_reset  *)
(* implement a bounded queue with a sticky overflow flag: every step of    *)
(* the kernel and of its users is a step of the queue or leaves it alone.  *)
THEOREM RingImplementsQueue == Spec => ImplementsQueue
<1>1. Init => Queue!QueueInit
  BY InitMaps
<1>2. IInv /\ [Next]_vars => [Queue!QueueNext]_(Queue!qvars)
  BY StepMaps
<1> QED
  BY <1>1, <1>2, InductiveInvariant, PTL DEF Spec, ImplementsQueue, Queue!QueueSpec
=============================================================================
