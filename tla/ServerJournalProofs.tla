------------------------- MODULE ServerJournalProofs -------------------------
(***************************************************************************)
(* The safety properties of ServerJournal for every number of blocks,      *)
(* contents and slots: what is written ahead, that the two replays agree,  *)
(* and that a crash at any moment is recovered from.                       *)
(***************************************************************************)
EXTENDS ServerJournal, WellFoundedInduction, TLAPS

(* The layout of the journal is sound for every size NewJournal accepts,   *)
(* and the section of buffer writes is large enough for ring buffers of up *)
(* to 1027 writes, and for no larger one.                                  *)

(* What integer division leaves.                                           *)
LEMMA Division ==
  ASSUME NEW a \in Nat, NEW b \in Nat \ {0}
  PROVE  /\ a \div b \in Nat
         /\ (a \div b) * b <= a
         /\ a < (a \div b) * b + b
OBVIOUS

(* The slots of a section, of some size and number, lie one after the      *)
(* other within the section.                                               *)
LEMMA Slots ==
  ASSUME NEW size \in Nat, NEW n \in Nat, NEW i \in 0..(n - 1), NEW j \in 0..(n - 1)
  PROVE  /\ i * size \in Nat /\ i * size + size <= n * size
         /\ i < j => i * size + size <= j * size
         /\ j < i => j * size + size <= i * size
<1>1. \A p, q \in Nat : p < q => p * size + size <= q * size
  <2> SUFFICES ASSUME NEW p \in Nat, NEW q \in Nat, p < q PROVE p * size + size <= q * size
    OBVIOUS
  <2>1. (q - p - 1) * size >= 0
    <3>1. q - p - 1 \in Nat
      OBVIOUS
    <3> QED
      BY <3>1
  <2>2. (q - p - 1) * size = q * size - p * size - size
    OBVIOUS
  <2>3. q * size \in Int /\ p * size \in Int
    OBVIOUS
  <2> QED
    BY <2>1, <2>2, <2>3
<1>2. i \in Nat /\ j \in Nat /\ i < n
  OBVIOUS
<1> QED
  BY <1>1, <1>2

(* No entry of the journal overlaps the header or another entry.           *)
THEOREM LayoutSound == SlotsApart
<1>1. SectionBufWritesSize \in Nat /\ SectionCorBlocksSize \in Nat
  BY LayoutAssumption DEF SectionBufWritesSize, SectionCorBlocksSize
<1>2. /\ BufWritesCount \in Nat /\ BufWritesCount * BufWriteByteSize <= SectionBufWritesSize
      /\ CorrBlocksCount \in Nat /\ CorrBlocksCount * CorrBlockByteSize <= SectionCorBlocksSize
  BY <1>1, Division, LayoutAssumption DEF BufWritesCount, CorrBlocksCount
<1>3. ASSUME NEW i \in 0..(BufWritesCount - 1)
      PROVE  /\ HeaderSize <= BufWriteOffset(i)
             /\ BufWriteOffset(i) + BufWriteByteSize <= CorrBlocksStartOffset
             /\ BufWriteOffset(i) \in Nat
             /\ \A j \in 0..(BufWritesCount - 1) \ {i} :
                  Apart(BufWriteOffset(i), BufWriteByteSize, BufWriteOffset(j), BufWriteByteSize)
  <2>1. i * BufWriteByteSize \in Nat
        /\ i * BufWriteByteSize + BufWriteByteSize <= BufWritesCount * BufWriteByteSize
    BY <1>2, LayoutAssumption, Slots
  <2>2. BufWritesCount * BufWriteByteSize \in Nat
    BY <1>2, LayoutAssumption
  <2>3. ASSUME NEW j \in 0..(BufWritesCount - 1), j # i
        PROVE  Apart(BufWriteOffset(i), BufWriteByteSize, BufWriteOffset(j), BufWriteByteSize)
    <3>1. i < j \/ j < i
      BY <1>2, <2>3
    <3>2. /\ i < j => i * BufWriteByteSize + BufWriteByteSize <= j * BufWriteByteSize
          /\ j < i => j * BufWriteByteSize + BufWriteByteSize <= i * BufWriteByteSize
          /\ j * BufWriteByteSize \in Nat
      BY <1>2, LayoutAssumption, Slots
    <3> QED
      BY <2>1, <3>1, <3>2, LayoutAssumption DEF Apart, BufWriteOffset, BufWritesStartOffset
  <2> QED
    BY <1>1, <1>2, <2>1, <2>2, <2>3, LayoutAssumption
    DEF BufWriteOffset, BufWritesStartOffset, CorrBlocksStartOffset
<1>4. ASSUME NEW i \in 0..(CorrBlocksCount - 1)
      PROVE  /\ CorrBlocksStartOffset <= CorrBlockOffset(i)
             /\ CorrBlockOffset(i) + CorrBlockByteSize <= DiskSize
             /\ CorrBlockOffset(i) \in Nat
             /\ \A j \in 0..(CorrBlocksCount - 1) \ {i} :
                  Apart(CorrBlockOffset(i), CorrBlockByteSize, CorrBlockOffset(j), CorrBlockByteSize)
  <2>1. i * CorrBlockByteSize \in Nat
        /\ i * CorrBlockByteSize + CorrBlockByteSize <= CorrBlocksCount * CorrBlockByteSize
    BY <1>2, LayoutAssumption, Slots
  <2>2. CorrBlocksCount * CorrBlockByteSize \in Nat
    BY <1>2, LayoutAssumption
  <2>3. ASSUME NEW j \in 0..(CorrBlocksCount - 1), j # i
        PROVE  Apart(CorrBlockOffset(i), CorrBlockByteSize, CorrBlockOffset(j), CorrBlockByteSize)
    <3>1. i < j \/ j < i
      BY <1>2, <2>3
    <3>2. /\ i < j => i * CorrBlockByteSize + CorrBlockByteSize <= j * CorrBlockByteSize
          /\ j < i => j * CorrBlockByteSize + CorrBlockByteSize <= i * CorrBlockByteSize
          /\ j * CorrBlockByteSize \in Nat
      BY <1>2, LayoutAssumption, Slots
    <3> QED
      BY <1>1, <2>1, <3>1, <3>2, LayoutAssumption DEF Apart, CorrBlockOffset, CorrBlocksStartOffset
  <2>4. CorrBlocksStartOffset \in Nat /\ CorrBlocksStartOffset + SectionCorBlocksSize = DiskSize
    BY <1>1, LayoutAssumption DEF CorrBlocksStartOffset, SectionCorBlocksSize
  <2> QED
    BY <1>1, <1>2, <2>1, <2>2, <2>3, <2>4, LayoutAssumption DEF CorrBlockOffset
<1>5. /\ CorrBlocksStartOffset \in Nat /\ HeaderSize <= CorrBlocksStartOffset
      /\ CorrBlocksStartOffset <= DiskSize
  BY <1>1, LayoutAssumption DEF CorrBlocksStartOffset, SectionCorBlocksSize
<1> QED
  BY <1>3, <1>4, <1>5, LayoutAssumption DEF SlotsApart, Apart

(* With the sizes of struct bdr_write_info and of WriteInfoSize the        *)
(* journal has a slot for each write of a full ring buffer exactly if the  *)
(* ring buffer has at most 1027 slots.                                     *)
THEOREM RingFitsJournal ==
  ASSUME KernelWriteSize = 4104, BufWriteByteSize = 4108
  PROVE  HoldsRing <=> MaxWrites <= 1027
<1>1. MaxWrites \in Nat \ {0}
  BY LayoutAssumption
<1>2. /\ BufWritesCount \in Nat
      /\ BufWritesCount * 4108 <= MaxWrites * 4104
      /\ MaxWrites * 4104 < BufWritesCount * 4108 + 4108
  BY <1>1, Division DEF BufWritesCount, SectionBufWritesSize
<1> QED
  BY <1>1, <1>2 DEF HoldsRing
-----------------------------------------------------------------------------

Idle == {"created", "writing", "reset_invalid", "reset_clear"}
Journalling == {"hashing", "block_sync", "entry_sync"}
Replaying == Applying \union Copying

(* The first n slots of a section are used and the others are empty.       *)
Filled(section, n) ==
  /\ \A i \in DOMAIN section : i <= n => section[i] \in Entry
  /\ \A i \in DOMAIN section : i > n => section[i] = Empty

(* Nothing is kept in the slots ResetTo will not clear.                    *)
EmptyBeyond(section, n) == \A i \in DOMAIN section : i > n => section[i] = Empty

(* The entries below the offsets of the Journal object, by the state of    *)
(* the server.                                                             *)
SlotsInv ==
  /\ pc \in Idle \union {"write_sync"} =>
       EmptyBeyond(cache.writes, offs.write) /\ EmptyBeyond(cache.blocks, offs.correct)
  /\ pc \in {"hashing", "validate_sync"} \union Applying \union {"apply_invalid"} =>
       Filled(cache.writes, offs.write) /\ Filled(cache.blocks, offs.correct)
  /\ pc = "entry_sync" =>
       /\ offs.write < WCount
       /\ Filled(cache.writes, offs.write + 1) /\ Filled(cache.blocks, offs.correct)
  /\ pc = "block_sync" =>
       /\ offs.correct < CCount
       /\ Filled(cache.writes, offs.write) /\ Filled(cache.blocks, offs.correct + 1)
  /\ pc \in Copying \union {"copy_invalid"} =>
       /\ HasFree(cache.writes) /\ HasFree(cache.blocks)
       /\ offs.write = FirstAvailable(cache.writes) /\ offs.correct = FirstAvailable(cache.blocks)

(* How far the loops are.                                                  *)
IndexInv ==
  /\ pc \in {"apply_blocks", "copy_blocks"} => idx \in 1..(offs.correct + 1)
  /\ pc \in {"apply_writes", "copy_writes", "apply_sync", "copy_sync"} => idx \in 1..(offs.write + 1)

SectionsSynced == stable.writes = cache.writes /\ stable.blocks = cache.blocks

(* Where the header is valid, and what of the journal is durable.          *)
HeaderInv ==
  /\ pc = "down" => stable = cache
  /\ pc = "validate_sync" => cache.valid
  /\ pc \in Replaying => cache.valid /\ stable.valid /\ SectionsSynced

(* The same as long as no application failed: outside of the replays the   *)
(* header is not valid, or the journal is one that no start replays.       *)
UnbrokenHeaderInv ==
  /\ pc \in Journalling \union (Idle \ {"created"}) \union {"write_sync"} =>
       ~cache.valid /\ ~stable.valid
  /\ pc = "listen" => \/ ~cache.valid /\ ~stable.valid
                      \/ SectionsSynced /\ ~Replayed(cache) /\ cache.valid = stable.valid
  /\ pc = "created" =>
       /\ ~cache.valid
       /\ \/ ~stable.valid
          \/ SectionsSynced /\ ~(HasFree(cache.writes) /\ HasFree(cache.blocks))
  /\ pc = "hashing" /\ offs.write + offs.correct > 0 => SectionsSynced
  /\ pc = "validate_sync" =>
       /\ ~stable.valid
       /\ offs.write + offs.correct > 0 => SectionsSynced
  /\ pc \in {"apply_invalid", "copy_invalid"} => ~cache.valid /\ SectionsSynced

Replay(replica) == ReplayOn(replica, cache, offs.write, offs.correct)

(* How the replica and the images relate.                                  *)
ImageInv ==
  /\ pc = "down" => image = Recovered(cache) /\ prev = image
  /\ pc \in Idle \union Journalling \union {"listen", "apply_invalid", "copy_invalid"} =>
       cache.replica = image /\ stable.replica = image /\ prev = image
  /\ pc \in {"apply_invalid", "copy_invalid"} => image = Replay(image)
  /\ pc = "write_sync" =>
       /\ image = cache.replica /\ prev = stable.replica
       /\ \E e \in Entry : cache.replica = ApplyOne(stable.replica, e)
  /\ pc = "validate_sync" =>
       cache.replica = prev /\ stable.replica = prev /\ image = Replay(prev)
  /\ pc \in Replaying =>
       prev = image /\ image = Replay(cache.replica) /\ image = Replay(stable.replica)
  /\ pc \in {"apply_blocks", "copy_blocks"} =>
       cache.replica = ReplayOn(cache.replica, cache, 0, idx - 1)
  /\ pc \in {"apply_writes", "copy_writes", "apply_sync", "copy_sync"} =>
       cache.replica = ReplayOn(cache.replica, cache, idx - 1, offs.correct)
  /\ pc \in {"apply_writes", "copy_writes"} => stable.replica = cache.replica

IInv ==
  /\ TypeOK /\ SlotsInv /\ IndexInv /\ HeaderInv
  /\ ~broken => UnbrokenHeaderInv /\ ImageInv
-----------------------------------------------------------------------------
LEMMA CountsNat == WCount \in Nat /\ CCount \in Nat
<1>1. SectionBufWritesSize \in Nat /\ SectionCorBlocksSize \in Nat
  BY LayoutAssumption DEF SectionBufWritesSize, SectionCorBlocksSize
<1> QED
  BY <1>1, Division, LayoutAssumption DEF WCount, CCount, BufWritesCount, CorrBlocksCount

(* Sets of natural numbers have a smallest element, bounded ones a largest *)
(* one.                                                                    *)
Less == OpToRel(<, Nat)

LEMMA SmallestExists ==
  ASSUME NEW S \in SUBSET Nat, S # {}
  PROVE  \E x \in S : \A y \in S : x <= y
<1>1. IsWellFoundedOn(Less, Nat)
  BY NatLessThanWellFounded, Zenon DEF Less
<1>2. \E x \in S : \A y \in S : ~ (<<y, x>> \in Less)
  BY <1>1, WFMin, Zenon
<1>3. \A x, y \in Nat : <<x, y>> \in Less <=> x < y
  BY DEF Less, OpToRel
<1>4. PICK x \in S : \A y \in S : ~ (<<y, x>> \in Less)
  BY <1>2
<1>5. \A y \in S : ~ (y < x)
  BY <1>3, <1>4, Zenon
<1>6. \A y \in S : x <= y
  BY <1>5
<1> QED
  BY <1>6

LEMMA MinFacts ==
  ASSUME NEW S \in SUBSET Nat, S # {}
  PROVE  Min(S) \in S /\ \A y \in S : Min(S) <= y
BY SmallestExists, Zenon DEF Min

LEMMA MaxFacts ==
  ASSUME NEW n \in Nat, NEW S \in SUBSET (0..n), S # {}
  PROVE  Max(S) \in S /\ \A y \in S : y <= Max(S)
<1> DEFINE T == {n - y : y \in S}
<1>1. T \in SUBSET Nat /\ T # {}
  <2>1. \A y \in S : n - y \in Nat
    OBVIOUS
  <2>2. PICK s \in S : TRUE
    BY Zenon
  <2>3. n - s \in T
    OBVIOUS
  <2> QED
    BY <2>1, <2>3
<1>2. PICK x \in T : \A y \in T : x <= y
  BY <1>1, SmallestExists, Zenon
<1>3. PICK m \in S : x = n - m
  OBVIOUS
<1>4. \A y \in S : n - y \in T
  OBVIOUS
<1>5. ASSUME NEW y \in S
      PROVE  m >= y
  <2>1. x <= n - y
    BY <1>2, <1>4, Zenon
  <2>2. m \in 0..n /\ y \in 0..n
    BY Zenon
  <2>. QED
    BY <1>3, <2>1, <2>2
<1>6. \E m1 \in S : \A y \in S : m1 >= y
  BY <1>5
<1>7. Max(S) \in S /\ \A y \in S : Max(S) >= y
  BY <1>6, Zenon DEF Max
<1> QED
  BY <1>7
-----------------------------------------------------------------------------
(* What LastFor returns.                                                   *)
LEMMA LastForFacts ==
  ASSUME NEW section, NEW n \in Nat, NEW b
  PROVE  /\ LastFor(section, n, b) \in 0..n
         /\ LastFor(section, n, b) # 0 => section[LastFor(section, n, b)].blk = b
         /\ \A i \in 1..n : section[i].blk = b => i <= LastFor(section, n, b)
<1> DEFINE S == {0} \union {i \in 1..n : section[i].blk = b}
<1>1. S \in SUBSET (0..n) /\ S # {}
  OBVIOUS
<1>2. Max(S) \in S /\ \A y \in S : y <= Max(S)
  BY <1>1, MaxFacts, Zenon
<1>3. LastFor(section, n, b) = Max(S)
  BY DEF LastFor
<1> HIDE DEF LastFor
<1> QED
  BY <1>2, <1>3

LEMMA LastForUnique ==
  ASSUME NEW section, NEW n \in Nat, NEW b, NEW m \in 0..n,
         m # 0 => section[m].blk = b,
         \A i \in 1..n : section[i].blk = b => i <= m
  PROVE  LastFor(section, n, b) = m
<1>1. /\ LastFor(section, n, b) \in 0..n
      /\ LastFor(section, n, b) # 0 => section[LastFor(section, n, b)].blk = b
      /\ \A i \in 1..n : section[i].blk = b => i <= LastFor(section, n, b)
  BY LastForFacts
<1> QED
  BY <1>1

LEMMA LastForNone == ASSUME NEW section, NEW b PROVE LastFor(section, 0, b) = 0
BY LastForFacts

LEMMA LastForNext ==
  ASSUME NEW section, NEW n \in Nat, NEW b
  PROVE  LastFor(section, n + 1, b) =
           IF section[n + 1].blk = b THEN n + 1 ELSE LastFor(section, n, b)
<1>1. CASE section[n + 1].blk = b
  BY <1>1, LastForUnique
<1>2. CASE section[n + 1].blk # b
  <2> DEFINE m == LastFor(section, n, b)
  <2>1. /\ m \in 0..n
        /\ m # 0 => section[m].blk = b
        /\ \A i \in 1..n : section[i].blk = b => i <= m
    BY LastForFacts
  <2> HIDE DEF m
  <2>2. \A i \in 1..(n + 1) : section[i].blk = b => i <= m
    BY <1>2, <2>1
  <2>3. LastFor(section, n + 1, b) = m
    BY <2>1, <2>2, LastForUnique
  <2> QED
    BY <1>2, <2>3 DEF m
<1> QED
  BY <1>1, <1>2
-----------------------------------------------------------------------------
Contents == [Blocks -> Vals]

(* A device whose first w buffer writes and c correct blocks are entries.  *)
Readable(d, w, c) ==
  /\ d \in Device
  /\ w \in 0..WCount /\ c \in 0..CCount
  /\ \A i \in 1..w : d.writes[i] \in Entry
  /\ \A i \in 1..c : d.blocks[i] \in Entry

LEMMA ApplyOneType ==
  ASSUME NEW r \in Contents, NEW e \in Entry
  PROVE  /\ ApplyOne(r, e) \in Contents
         /\ \A b \in Blocks : ApplyOne(r, e)[b] = IF b = e.blk THEN e.val ELSE r[b]
BY DEF ApplyOne, Contents, Entry

LEMMA ReplayType ==
  ASSUME NEW d, NEW w, NEW c, Readable(d, w, c), NEW r \in Contents
  PROVE  ReplayOn(r, d, w, c) \in Contents
<1> SUFFICES ASSUME NEW b \in Blocks
             PROVE  (IF LastFor(d.writes, w, b) # 0 THEN d.writes[LastFor(d.writes, w, b)].val
                     ELSE IF LastFor(d.blocks, c, b) # 0 THEN d.blocks[LastFor(d.blocks, c, b)].val
                     ELSE r[b]) \in Vals
  BY DEF ReplayOn, Contents
<1>1. w \in Nat /\ c \in Nat
  BY CountsNat DEF Readable
<1>2. LastFor(d.writes, w, b) \in 0..w /\ LastFor(d.blocks, c, b) \in 0..c
  BY <1>1, LastForFacts, Zenon
<1>3. LastFor(d.writes, w, b) # 0 => d.writes[LastFor(d.writes, w, b)] \in Entry
  BY <1>1, <1>2 DEF Readable
<1>4. LastFor(d.blocks, c, b) # 0 => d.blocks[LastFor(d.blocks, c, b)] \in Entry
  BY <1>1, <1>2 DEF Readable
<1> QED
  BY <1>3, <1>4 DEF Entry, Contents

(* A replay is the same whether or not one of its entries was written to   *)
(* the replica before it.                                                  *)
LEMMA ReplayHitWrite ==
  ASSUME NEW d, NEW w, NEW c, Readable(d, w, c), NEW r \in Contents, NEW k \in 1..w
  PROVE  ReplayOn(ApplyOne(r, d.writes[k]), d, w, c) = ReplayOn(r, d, w, c)
<1>1. d.writes[k] \in Entry /\ w \in Nat
  BY CountsNat DEF Readable
<1>2. ASSUME NEW b \in Blocks, b = d.writes[k].blk PROVE LastFor(d.writes, w, b) # 0
  BY <1>1, <1>2, LastForFacts
<1>3. \A b \in Blocks : b # d.writes[k].blk => ApplyOne(r, d.writes[k])[b] = r[b]
  BY <1>1, ApplyOneType
<1> QED
  BY <1>2, <1>3 DEF ReplayOn

LEMMA ReplayHitBlock ==
  ASSUME NEW d, NEW w, NEW c, Readable(d, w, c), NEW r \in Contents, NEW k \in 1..c
  PROVE  ReplayOn(ApplyOne(r, d.blocks[k]), d, w, c) = ReplayOn(r, d, w, c)
<1>1. d.blocks[k] \in Entry /\ c \in Nat
  BY CountsNat DEF Readable
<1>2. ASSUME NEW b \in Blocks, b = d.blocks[k].blk PROVE LastFor(d.blocks, c, b) # 0
  BY <1>1, <1>2, LastForFacts
<1>3. \A b \in Blocks : b # d.blocks[k].blk => ApplyOne(r, d.blocks[k])[b] = r[b]
  BY <1>1, ApplyOneType
<1> QED
  BY <1>2, <1>3 DEF ReplayOn

LEMMA ReplayNothing ==
  ASSUME NEW d, NEW r \in Contents
  PROVE  ReplayOn(r, d, 0, 0) = r
BY LastForNone DEF ReplayOn, Contents

(* The loops: what was written so far is what the entries so far make of   *)
(* the replica.                                                            *)
LEMMA ReplayBlockStep ==
  ASSUME NEW d, NEW w, NEW c, Readable(d, w, c), NEW r \in Contents, NEW k \in 1..c,
         r = ReplayOn(r, d, 0, k - 1)
  PROVE  ApplyOne(r, d.blocks[k]) = ReplayOn(ApplyOne(r, d.blocks[k]), d, 0, k)
<1> DEFINE e == d.blocks[k]
           s == ApplyOne(r, e)
<1>1. e \in Entry /\ k - 1 \in Nat /\ k = (k - 1) + 1
  BY CountsNat DEF Readable
<1>2. s \in Contents /\ \A b \in Blocks : s[b] = IF b = e.blk THEN e.val ELSE r[b]
  BY <1>1, ApplyOneType
<1>3. \A b \in Blocks : LastFor(d.blocks, k, b) =
                           IF e.blk = b THEN k ELSE LastFor(d.blocks, k - 1, b)
  BY <1>1, LastForNext
<1>4. \A b \in Blocks : r[b] = IF LastFor(d.blocks, k - 1, b) # 0
                                  THEN d.blocks[LastFor(d.blocks, k - 1, b)].val ELSE r[b]
  BY LastForNone DEF ReplayOn
<1>5. ASSUME NEW b \in Blocks
      PROVE  s[b] = IF LastFor(d.blocks, k, b) # 0 THEN d.blocks[LastFor(d.blocks, k, b)].val ELSE s[b]
  BY <1>1, <1>2, <1>3, <1>4
<1>6. s = [b \in Blocks |-> IF LastFor(d.blocks, k, b) # 0
                              THEN d.blocks[LastFor(d.blocks, k, b)].val ELSE s[b]]
  BY <1>2, <1>5 DEF Contents
<1> QED
  BY <1>6, LastForNone DEF ReplayOn

LEMMA ReplayWriteStep ==
  ASSUME NEW d, NEW w, NEW c, Readable(d, w, c), NEW r \in Contents, NEW k \in 1..w,
         r = ReplayOn(r, d, k - 1, c)
  PROVE  ApplyOne(r, d.writes[k]) = ReplayOn(ApplyOne(r, d.writes[k]), d, k, c)
<1> DEFINE e == d.writes[k]
           s == ApplyOne(r, e)
           At(i, j, b, q) == IF i # 0 THEN d.writes[i].val
                             ELSE IF j # 0 THEN d.blocks[j].val ELSE q[b]
<1>1. e \in Entry /\ k - 1 \in Nat /\ k = (k - 1) + 1 /\ k # 0
  BY CountsNat DEF Readable
<1>2. s \in Contents /\ \A b \in Blocks : s[b] = IF b = e.blk THEN e.val ELSE r[b]
  BY <1>1, ApplyOneType
<1>3. \A b \in Blocks : LastFor(d.writes, k, b) =
                           IF e.blk = b THEN k ELSE LastFor(d.writes, k - 1, b)
  BY <1>1, LastForNext, Zenon
<1>4. \A b \in Blocks : r[b] = At(LastFor(d.writes, k - 1, b), LastFor(d.blocks, c, b), b, r)
  BY DEF ReplayOn
<1>5. ASSUME NEW b \in Blocks
      PROVE  s[b] = At(LastFor(d.writes, k, b), LastFor(d.blocks, c, b), b, s)
  <2>1. CASE b = e.blk
    BY <1>1, <1>2, <1>3, <2>1
  <2>2. CASE b # e.blk
    BY <1>2, <1>3, <1>4, <2>2
  <2> QED
    BY <2>1, <2>2
<1>6. s = [b \in Blocks |-> At(LastFor(d.writes, k, b), LastFor(d.blocks, c, b), b, s)]
  BY <1>2, <1>5 DEF Contents
<1> QED
  BY <1>6 DEF ReplayOn
-----------------------------------------------------------------------------
LEMMA FirstAvailableFacts ==
  ASSUME NEW n \in Nat, NEW section \in [1..n -> Entry \union {Empty}], HasFree(section)
  PROVE  /\ FirstAvailable(section) \in 0..n
         /\ FirstAvailable(section) + 1 \in 1..n
         /\ section[FirstAvailable(section) + 1] = Empty
         /\ \A i \in 1..FirstAvailable(section) : section[i] \in Entry
<1> DEFINE S == {i \in DOMAIN section : section[i] = Empty}
<1>1. S \in SUBSET Nat /\ S # {} /\ S \subseteq 1..n
  BY DEF HasFree
<1>2. Min(S) \in S /\ \A y \in S : Min(S) <= y
  BY <1>1, MinFacts, Zenon
<1>3. FirstAvailable(section) = Min(S) - 1
  BY DEF FirstAvailable
<1> HIDE DEF FirstAvailable
<1>4. Min(S) \in 1..n
  BY <1>1, <1>2
<1>5. ASSUME NEW i \in 1..FirstAvailable(section) PROVE section[i] \in Entry
  <2>1. i \in 1..n /\ i < Min(S)
    BY <1>3, <1>4
  <2>2. i \notin S
    BY <1>2, <1>4, <2>1
  <2> QED
    BY <2>1, <2>2
<1> QED
  BY <1>2, <1>3, <1>4, <1>5

(* The counters of a section that is filled to n and has a free slot agree *)
(* with the search.                                                        *)
LEMMA FilledFirst ==
  ASSUME NEW m \in Nat, NEW section \in [1..m -> Entry \union {Empty}],
         NEW n \in 0..m, Filled(section, n), HasFree(section)
  PROVE  FirstAvailable(section) = n
<1> DEFINE a == FirstAvailable(section)
<1>1. /\ a \in 0..m /\ a + 1 \in 1..m /\ section[a + 1] = Empty
      /\ \A i \in 1..a : section[i] \in Entry
  BY FirstAvailableFacts
<1>2. Empty \notin Entry
  BY JournalAssumption DEF Entry
<1> HIDE DEF a
<1>3. ~ (a + 1 <= n)
  BY <1>1, <1>2 DEF Filled
<1>4. ~ (n + 1 <= a)
  <2> SUFFICES ASSUME n + 1 <= a PROVE FALSE
    OBVIOUS
  <2>1. n + 1 \in 1..a /\ n + 1 \in 1..m
    BY <1>1
  <2>2. section[n + 1] = Empty
    BY <2>1 DEF Filled
  <2> QED
    BY <1>1, <1>2, <2>1, <2>2
<1>5. a = n
  BY <1>1, <1>3, <1>4
<1> QED
  BY <1>5 DEF a

LEMMA MixesType ==
  ASSUME NEW D, NEW T, NEW f \in [D -> T], NEW g \in [D -> T], NEW h \in Mixes(f, g)
  PROVE  h \in [D -> T] /\ \A i \in D : h[i] = f[i] \/ h[i] = g[i]
BY DEF Mixes

LEMMA MixesSame ==
  ASSUME NEW D, NEW T, NEW f \in [D -> T], NEW h \in Mixes(f, f)
  PROVE  h = f
BY DEF Mixes

(* In a replay everything below the offsets is an entry.                   *)
LEMMA ReplayReads ==
  ASSUME TypeOK, SlotsInv, 
         pc \in Replaying \union {"hashing", "validate_sync", "apply_invalid", "copy_invalid"}
  PROVE  Readable(cache, offs.write, offs.correct)
<1>1. cache \in Device /\ offs.write \in 0..WCount /\ offs.correct \in 0..CCount
  BY DEF TypeOK
<1>2. /\ cache.writes \in [1..WCount -> Entry \union {Empty}]
      /\ cache.blocks \in [1..CCount -> Entry \union {Empty}]
  BY <1>1 DEF Device
<1>3. CASE pc \in {"hashing", "validate_sync"} \union Applying \union {"apply_invalid"}
  <2>1. Filled(cache.writes, offs.write) /\ Filled(cache.blocks, offs.correct)
    BY <1>3 DEF SlotsInv
  <2> QED
    BY <1>1, <1>2, <2>1, CountsNat DEF Filled, Readable
<1>4. CASE pc \in Copying \union {"copy_invalid"}
  <2>1. /\ HasFree(cache.writes) /\ HasFree(cache.blocks)
        /\ offs.write = FirstAvailable(cache.writes) /\ offs.correct = FirstAvailable(cache.blocks)
    BY <1>4 DEF SlotsInv
  <2>2. \A i \in 1..offs.write : cache.writes[i] \in Entry
    BY <1>2, <2>1, CountsNat, FirstAvailableFacts
  <2>3. \A i \in 1..offs.correct : cache.blocks[i] \in Entry
    BY <1>2, <2>1, CountsNat, FirstAvailableFacts
  <2> QED
    BY <1>1, <2>2, <2>3 DEF Readable
<1> QED
  BY <1>3, <1>4 DEF Replaying
-----------------------------------------------------------------------------
(* What a restart finds, and what it makes of it.                          *)
LEMMA CrashFacts ==
  ASSUME TypeOK, NEW d \in CrashOutcomes
  PROVE  /\ d \in Device
         /\ d.valid = cache.valid \/ d.valid = stable.valid
         /\ cache.writes = stable.writes => d.writes = cache.writes
         /\ cache.blocks = stable.blocks => d.blocks = cache.blocks
         /\ \A b \in Blocks : d.replica[b] = cache.replica[b] \/ d.replica[b] = stable.replica[b]
<1>1. cache \in Device /\ stable \in Device
  BY DEF TypeOK
<1>2. CASE d = cache
  BY <1>1, <1>2
<1>3. CASE d \in Torn
  <2>1. /\ d.valid \in {cache.valid, stable.valid}
        /\ d.writes \in Mixes(cache.writes, stable.writes)
        /\ d.blocks \in Mixes(cache.blocks, stable.blocks)
        /\ d.replica \in Mixes(cache.replica, stable.replica)
        /\ d = [valid |-> d.valid, writes |-> d.writes, blocks |-> d.blocks, replica |-> d.replica]
    BY <1>3 DEF Torn
  <2>2. /\ cache.writes \in [1..WCount -> Entry \union {Empty}]
        /\ stable.writes \in [1..WCount -> Entry \union {Empty}]
        /\ cache.blocks \in [1..CCount -> Entry \union {Empty}]
        /\ stable.blocks \in [1..CCount -> Entry \union {Empty}]
        /\ cache.replica \in [Blocks -> Vals]
        /\ stable.replica \in [Blocks -> Vals]
    BY <1>1 DEF Device
  <2>3. d.writes \in [1..WCount -> Entry \union {Empty}]
    BY <2>1, <2>2, MixesType, Zenon
  <2>4. d.blocks \in [1..CCount -> Entry \union {Empty}]
    BY <2>1, <2>2, MixesType, Zenon
  <2>5. /\ d.replica \in [Blocks -> Vals]
        /\ \A b \in Blocks : d.replica[b] = cache.replica[b] \/ d.replica[b] = stable.replica[b]
    <3> DEFINE f == cache.replica
               g == stable.replica
               h == d.replica
    <3>1. f \in [Blocks -> Vals] /\ g \in [Blocks -> Vals] /\ h \in Mixes(f, g)
      BY <2>1, <2>2
    <3> HIDE DEF f, g, h
    <3>2. h \in [Blocks -> Vals] /\ \A b \in Blocks : h[b] = f[b] \/ h[b] = g[b]
      BY <3>1 DEF Mixes
    <3> QED
      BY <3>2 DEF f, g, h
  <2>6. cache.valid \in BOOLEAN /\ stable.valid \in BOOLEAN
    BY <1>1 DEF Device
  <2>7. d.valid \in BOOLEAN
    BY <2>1, <2>6
  <2>8. d \in Device
    BY <2>1, <2>3, <2>4, <2>5, <2>7 DEF Device
  <2>9. cache.writes = stable.writes => d.writes = cache.writes
    BY <2>1, <2>2, MixesSame, Zenon
  <2>10. cache.blocks = stable.blocks => d.blocks = cache.blocks
    BY <2>1, <2>2, MixesSame, Zenon
  <2> QED
    BY <2>1, <2>5, <2>8, <2>9, <2>10
<1> QED
  BY <1>2, <1>3 DEF CrashOutcomes

LEMMA FreeReadable ==
  ASSUME NEW d \in Device, HasFree(d.writes), HasFree(d.blocks)
  PROVE  Readable(d, FirstAvailable(d.writes), FirstAvailable(d.blocks))
<1>1. /\ d.writes \in [1..WCount -> Entry \union {Empty}]
      /\ d.blocks \in [1..CCount -> Entry \union {Empty}]
  BY DEF Device
<1>2. /\ FirstAvailable(d.writes) \in 0..WCount
      /\ \A i \in 1..FirstAvailable(d.writes) : d.writes[i] \in Entry
  BY <1>1, CountsNat, FirstAvailableFacts
<1>3. /\ FirstAvailable(d.blocks) \in 0..CCount
      /\ \A i \in 1..FirstAvailable(d.blocks) : d.blocks[i] \in Entry
  BY <1>1, CountsNat, FirstAvailableFacts
<1> QED
  BY <1>2, <1>3 DEF Readable

LEMMA RecoveredType ==
  ASSUME NEW d \in Device
  PROVE  Recovered(d) \in Contents
<1>1. d.replica \in Contents
  BY DEF Device, Contents
<1>2. CASE Replayed(d)
  BY <1>1, <1>2, FreeReadable, ReplayType DEF Recovered, Replayed
<1>3. CASE ~Replayed(d)
  BY <1>1, <1>3 DEF Recovered
<1> QED
  BY <1>2, <1>3

(* Pieces of two replicas that replay to the same image replay to it.      *)
LEMMA ReplayMixed ==
  ASSUME NEW d, NEW e, NEW w, NEW c, d.writes = e.writes, d.blocks = e.blocks,
         NEW f, NEW g, NEW h,
         \A b \in Blocks : h[b] = f[b] \/ h[b] = g[b],
         ReplayOn(f, d, w, c) = ReplayOn(g, d, w, c)
  PROVE  ReplayOn(h, e, w, c) = ReplayOn(f, d, w, c)
<1> DEFINE At(q, b) == IF LastFor(d.writes, w, b) # 0 THEN d.writes[LastFor(d.writes, w, b)].val
                       ELSE IF LastFor(d.blocks, c, b) # 0 THEN d.blocks[LastFor(d.blocks, c, b)].val
                       ELSE q[b]
<1>1. /\ ReplayOn(f, d, w, c) = [b \in Blocks |-> At(f, b)]
      /\ ReplayOn(g, d, w, c) = [b \in Blocks |-> At(g, b)]
      /\ ReplayOn(h, e, w, c) = [b \in Blocks |-> At(h, b)]
  BY DEF ReplayOn
<1>2. \A b \in Blocks : At(f, b) = At(g, b)
  <2>1. \A b \in Blocks : ReplayOn(f, d, w, c)[b] = At(f, b) /\ ReplayOn(g, d, w, c)[b] = At(g, b)
    BY <1>1, Zenon
  <2> QED
    BY <2>1
<1>3. \A b \in Blocks : At(h, b) = At(f, b) \/ At(h, b) = At(g, b)
  OBVIOUS
<1>4. \A b \in Blocks : At(h, b) = At(f, b)
  BY <1>2, <1>3
<1> QED
  BY <1>1, <1>4
-----------------------------------------------------------------------------
LEMMA DeviceParts ==
  ASSUME NEW d \in Device
  PROVE  /\ d.valid \in BOOLEAN
         /\ d.writes \in [1..WCount -> Entry \union {Empty}]
         /\ d.blocks \in [1..CCount -> Entry \union {Empty}]
         /\ d.replica \in Contents
BY DEF Device, Contents

LEMMA SameContents ==
  ASSUME NEW r \in Contents, NEW s \in Contents, \A b \in Blocks : r[b] = s[b]
  PROVE  r = s
BY DEF Contents

LEMMA WriteAheadHolds == ASSUME IInv PROVE WriteAhead
BY DEF IInv, HeaderInv, SectionsSynced, Replaying, WriteAhead

LEMMA ReplaysAgreeHolds == ASSUME IInv PROVE ReplaysAgree
<1> SUFFICES ASSUME pc \in Applying, HasFree(stable.writes), HasFree(stable.blocks)
             PROVE  /\ offs.write = FirstAvailable(stable.writes)
                    /\ offs.correct = FirstAvailable(stable.blocks)
  BY DEF ReplaysAgree
<1>1. SectionsSynced /\ Filled(cache.writes, offs.write) /\ Filled(cache.blocks, offs.correct)
  BY DEF IInv, HeaderInv, SlotsInv, Replaying
<1>2. stable \in Device /\ offs.write \in 0..WCount /\ offs.correct \in 0..CCount
  BY DEF IInv, TypeOK
<1>3. Filled(stable.writes, offs.write) /\ Filled(stable.blocks, offs.correct)
  BY <1>1 DEF SectionsSynced
<1>4. /\ stable.writes \in [1..WCount -> Entry \union {Empty}]
      /\ stable.blocks \in [1..CCount -> Entry \union {Empty}]
  BY <1>2, DeviceParts
<1>5. FirstAvailable(stable.writes) = offs.write
  BY <1>2, <1>3, <1>4, CountsNat, FilledFirst
<1>6. FirstAvailable(stable.blocks) = offs.correct
  BY <1>2, <1>3, <1>4, CountsNat, FilledFirst
<1> QED
  BY <1>5, <1>6

(* In the states that apply or replay a journal with a free slot in each   *)
(* section a restart would read the same entries.                          *)
LEMMA OffsetsAgree ==
  ASSUME TypeOK, SlotsInv, HasFree(cache.writes), HasFree(cache.blocks),
         pc \in Replaying \union {"validate_sync", "apply_invalid", "copy_invalid"}
  PROVE  offs.write = FirstAvailable(cache.writes) /\ offs.correct = FirstAvailable(cache.blocks)
<1>1. CASE pc \in Copying \union {"copy_invalid"}
  BY <1>1 DEF SlotsInv
<1>2. CASE pc \in {"validate_sync", "apply_invalid"} \union Applying
  <2>1. Filled(cache.writes, offs.write) /\ Filled(cache.blocks, offs.correct)
    BY <1>2 DEF SlotsInv
  <2>2. cache \in Device /\ offs.write \in 0..WCount /\ offs.correct \in 0..CCount
    BY DEF TypeOK
  <2>3. /\ cache.writes \in [1..WCount -> Entry \union {Empty}]
        /\ cache.blocks \in [1..CCount -> Entry \union {Empty}]
    BY <2>2, DeviceParts
  <2>4. FirstAvailable(cache.writes) = offs.write
    BY <2>1, <2>2, <2>3, CountsNat, FilledFirst
  <2>5. FirstAvailable(cache.blocks) = offs.correct
    BY <2>1, <2>2, <2>3, CountsNat, FilledFirst
  <2> QED
    BY <2>4, <2>5
<1> QED
  BY <1>1, <1>2 DEF Replaying

LEMMA RecoverableHolds == ASSUME IInv PROVE RecoverableUnlessFull
<1> SUFFICES ASSUME ~broken,
                    cache.valid => /\ HasFree(cache.writes) /\ HasFree(cache.blocks)
                                   /\ offs.write + offs.correct > 0 \/ pc = "down",
                    NEW d \in CrashOutcomes
             PROVE  Recovered(d) \in {prev, image}
  BY DEF RecoverableUnlessFull, Recoverable
<1> USE DEF IInv
<1>a. TypeOK /\ SlotsInv /\ HeaderInv /\ UnbrokenHeaderInv /\ ImageInv
  OBVIOUS
<1>b. /\ d \in Device
      /\ d.valid = cache.valid \/ d.valid = stable.valid
      /\ cache.writes = stable.writes => d.writes = cache.writes
      /\ cache.blocks = stable.blocks => d.blocks = cache.blocks
      /\ \A b \in Blocks : d.replica[b] = cache.replica[b] \/ d.replica[b] = stable.replica[b]
  BY <1>a, CrashFacts
<1>c. /\ d.replica \in Contents /\ cache.replica \in Contents /\ stable.replica \in Contents
      /\ image \in Contents /\ prev \in Contents
  BY <1>a, <1>b, DeviceParts DEF TypeOK, Contents
<1>d. ~Replayed(d) => Recovered(d) = d.replica
  BY DEF Recovered
<1>e. Replayed(d) => Recovered(d) = ReplayOn(d.replica, d, FirstAvailable(d.writes), FirstAvailable(d.blocks))
  BY DEF Recovered
<1>f. cache.replica = stable.replica => d.replica = cache.replica
  BY <1>b, <1>c, SameContents
<1> HIDE DEF IInv
<1>1. CASE pc = "down"
  <2>1. stable = cache /\ image = Recovered(cache)
    BY <1>1, <1>a DEF HeaderInv, ImageInv
  <2>2. d.writes = cache.writes /\ d.blocks = cache.blocks /\ d.replica = cache.replica /\ d.valid = cache.valid
    BY <2>1, <1>b, <1>f
  <2>3. Recovered(d) = Recovered(cache)
    BY <2>2 DEF Recovered, Replayed, ReplayOn
  <2> QED
    BY <2>1, <2>3
<1>2. CASE pc \in Journalling \union (Idle \ {"created"})
  <2>1. ~d.valid /\ cache.replica = image /\ stable.replica = image
    BY <1>2, <1>a, <1>b DEF UnbrokenHeaderInv, ImageInv
  <2> QED
    BY <2>1, <1>d, <1>f DEF Replayed
<1>3. CASE pc = "write_sync"
  <2>1. ~d.valid /\ image = cache.replica /\ prev = stable.replica
    BY <1>3, <1>a, <1>b DEF UnbrokenHeaderInv, ImageInv
  <2>2. PICK e \in Entry : cache.replica = ApplyOne(stable.replica, e)
    BY <1>3, <1>a DEF ImageInv
  <2>3. \A b \in Blocks : cache.replica[b] = IF b = e.blk THEN e.val ELSE stable.replica[b]
    BY <1>c, <2>2, ApplyOneType
  <2>4. CASE d.replica[e.blk] = cache.replica[e.blk]
    <3>1. \A b \in Blocks : d.replica[b] = cache.replica[b]
      BY <1>b, <2>3, <2>4
    <3> QED
      BY <1>c, <1>d, <2>1, <3>1, SameContents DEF Replayed
  <2>5. CASE d.replica[e.blk] # cache.replica[e.blk]
    <3>1. \A b \in Blocks : d.replica[b] = stable.replica[b]
      BY <1>b, <2>3, <2>5
    <3> QED
      BY <1>c, <1>d, <2>1, <3>1, SameContents DEF Replayed
  <2> QED
    BY <2>4, <2>5
<1>4. CASE pc \in {"listen", "created"}
  <2>1. cache.replica = image /\ stable.replica = image
    BY <1>4, <1>a DEF ImageInv, Idle
  <2>2. ~Replayed(d)
    <3>1. CASE ~cache.valid /\ ~stable.valid
      BY <1>b, <3>1 DEF Replayed
    <3>2. CASE SectionsSynced /\ ~(HasFree(cache.writes) /\ HasFree(cache.blocks))
      BY <1>b, <3>2 DEF Replayed, SectionsSynced
    <3>3. CASE SectionsSynced /\ ~Replayed(cache) /\ cache.valid = stable.valid
      BY <1>b, <3>3 DEF Replayed, SectionsSynced
    <3> QED
      BY <1>4, <1>a, <3>1, <3>2, <3>3 DEF UnbrokenHeaderInv
  <2> QED
    BY <2>1, <2>2, <1>d, <1>f
<1>5. CASE pc = "validate_sync"
  <2>1. /\ cache.valid /\ cache.replica = prev /\ stable.replica = prev /\ image = Replay(prev)
        /\ offs.write + offs.correct > 0 => SectionsSynced
    BY <1>5, <1>a DEF UnbrokenHeaderInv, ImageInv, HeaderInv
  <2>2. HasFree(cache.writes) /\ HasFree(cache.blocks) /\ SectionsSynced
    BY <2>1, <1>5
  <2>3. offs.write = FirstAvailable(cache.writes) /\ offs.correct = FirstAvailable(cache.blocks)
    BY <1>5, <1>a, <2>2, OffsetsAgree
  <2>4. d.writes = cache.writes /\ d.blocks = cache.blocks /\ d.replica = prev
    BY <1>b, <1>f, <2>1, <2>2 DEF SectionsSynced
  <2>5. ReplayOn(d.replica, d, FirstAvailable(d.writes), FirstAvailable(d.blocks)) = image
    BY <2>1, <2>3, <2>4 DEF Replay, ReplayOn
  <2> QED
    BY <1>d, <1>e, <2>4, <2>5
<1>6. CASE pc \in Replaying
  <2>1. /\ cache.valid /\ stable.valid /\ SectionsSynced
        /\ image = Replay(cache.replica) /\ image = Replay(stable.replica)
    BY <1>6, <1>a DEF HeaderInv, ImageInv
  <2>2. HasFree(cache.writes) /\ HasFree(cache.blocks)
    BY <2>1
  <2>3. offs.write = FirstAvailable(cache.writes) /\ offs.correct = FirstAvailable(cache.blocks)
    BY <1>6, <1>a, <2>2, OffsetsAgree
  <2>4. d.writes = cache.writes /\ d.blocks = cache.blocks
    BY <1>b, <2>1 DEF SectionsSynced
  <2>5. ReplayOn(d.replica, d, offs.write, offs.correct) = Replay(cache.replica)
    <3> DEFINE f == cache.replica
               g == stable.replica
               h == d.replica
               w == offs.write
               c == offs.correct
    <3>1. ReplayOn(f, cache, w, c) = ReplayOn(g, cache, w, c)
      BY <2>1 DEF Replay
    <3>2. \A b \in Blocks : h[b] = f[b] \/ h[b] = g[b]
      BY <1>b
    <3>3. cache.writes = d.writes /\ cache.blocks = d.blocks
      BY <2>4
    <3> HIDE DEF f, g, h, w, c
    <3>4. ReplayOn(h, d, w, c) = ReplayOn(f, cache, w, c)
      BY <3>1, <3>2, <3>3, ReplayMixed
    <3> QED
      BY <3>4 DEF f, h, w, c, Replay
  <2>6. Replayed(d)
    BY <1>b, <2>1, <2>2, <2>4, Zenon DEF Replayed
  <2> QED
    BY <1>e, <2>1, <2>3, <2>4, <2>5, <2>6, Zenon
<1>7. CASE pc \in {"apply_invalid", "copy_invalid"}
  <2>1. SectionsSynced /\ cache.replica = image /\ stable.replica = image /\ image = Replay(image)
    BY <1>7, <1>a DEF UnbrokenHeaderInv, ImageInv
  <2>2. d.writes = cache.writes /\ d.blocks = cache.blocks /\ d.replica = image
    BY <1>b, <1>f, <2>1 DEF SectionsSynced
  <2>3. CASE ~Replayed(d)
    BY <1>d, <2>2, <2>3
  <2>4. CASE Replayed(d)
    <3>1. HasFree(cache.writes) /\ HasFree(cache.blocks)
      BY <2>2, <2>4 DEF Replayed
    <3>2. offs.write = FirstAvailable(cache.writes) /\ offs.correct = FirstAvailable(cache.blocks)
      BY <1>7, <1>a, <3>1, OffsetsAgree
    <3>3. ReplayOn(d.replica, d, FirstAvailable(d.writes), FirstAvailable(d.blocks)) = image
      BY <2>1, <2>2, <3>2 DEF Replay, ReplayOn
    <3> QED
      BY <1>e, <2>4, <3>3
  <2> QED
    BY <2>3, <2>4
<1> QED
  BY <1>1, <1>2, <1>3, <1>4, <1>5, <1>6, <1>7, <1>a
     DEF TypeOK, PCs, Journalling, Idle, Replaying, Applying, Copying
-----------------------------------------------------------------------------
(* One lemma per action: it keeps the invariant.                           *)
LEMMA CheckJournalInv == ASSUME IInv, CheckJournal PROVE IInv'
<1> USE DEF CheckJournal, Goto, Idle, Journalling, Replaying, Applying, Copying,
            SectionsSynced, SyncJournal, SyncReplica
<1>a. TypeOK /\ pc = "down" /\ cache \in Device
  BY DEF IInv, TypeOK
<1>b. UNCHANGED <<cache, stable, overflow, image, prev, broken>> /\ idx' = 1
  OBVIOUS
<1>c. 1 \in 0..(WCount + 1)
  BY CountsNat
<1>1. CASE Replayed(cache)
  <2> DEFINE w == FirstAvailable(cache.writes)
             c == FirstAvailable(cache.blocks)
  <2>1. /\ pc' = "copy_blocks" /\ offs' = [write |-> w, correct |-> c]
        /\ HasFree(cache.writes) /\ HasFree(cache.blocks) /\ cache.valid
    BY <1>1 DEF Replayed
  <2>2. Readable(cache, w, c)
    BY <1>a, <2>1, FreeReadable
  <2>3. w \in 0..WCount /\ c \in 0..CCount
    BY <2>2 DEF Readable
  <2> HIDE DEF w, c, CheckJournal
  <2>4. offs'.write = w /\ offs'.correct = c
    BY <2>1
  <2>5. TypeOK'
    BY <1>a, <1>b, <1>c, <2>1, <2>3 DEF TypeOK, PCs
  <2>6. SlotsInv'
    BY <1>b, <2>1, <2>4 DEF SlotsInv, w, c
  <2>7. IndexInv'
    BY <1>b, <2>1, <2>3, <2>4, CountsNat DEF IndexInv
  <2>8. HeaderInv'
    BY <1>a, <1>b, <2>1 DEF IInv, HeaderInv
  <2>9. ~broken' => UnbrokenHeaderInv'
    BY <2>1 DEF UnbrokenHeaderInv
  <2>10. ~broken' => ImageInv'
    <3> SUFFICES ASSUME ~broken PROVE ImageInv'
      BY <1>b
    <3>1. stable = cache /\ image = Recovered(cache) /\ prev = image
      BY <1>a DEF IInv, HeaderInv, ImageInv
    <3>2. image = ReplayOn(cache.replica, cache, w, c)
      BY <1>1, <3>1 DEF Recovered, w, c
    <3>3. cache.replica = ReplayOn(cache.replica, cache, 0, idx' - 1)
      BY <1>a, <1>b, DeviceParts, ReplayNothing
    <3> QED
      BY <1>b, <2>1, <2>4, <3>1, <3>2, <3>3 DEF ImageInv, Replay
  <2> QED
    BY <2>5, <2>6, <2>7, <2>8, <2>9, <2>10 DEF IInv
<1>2. CASE ~Replayed(cache)
  <2>1. pc' = "listen" /\ offs' = offs
    BY <1>2
  <2> HIDE DEF CheckJournal
  <2>2. TypeOK'
    BY <1>a, <1>b, <1>c, <2>1 DEF TypeOK, PCs
  <2>3. SlotsInv' /\ IndexInv' /\ HeaderInv'
    BY <2>1 DEF SlotsInv, IndexInv, HeaderInv
  <2>4. ~broken' => UnbrokenHeaderInv' /\ ImageInv'
    <3> SUFFICES ASSUME ~broken PROVE UnbrokenHeaderInv' /\ ImageInv'
      BY <1>b
    <3>1. stable = cache /\ image = Recovered(cache) /\ prev = image
      BY <1>a DEF IInv, HeaderInv, ImageInv
    <3>2. image = cache.replica
      BY <1>2, <3>1 DEF Recovered
    <3>3. Replayed(cache)' = Replayed(cache)
      BY <1>b
    <3>4. UnbrokenHeaderInv'
      BY <1>2, <1>b, <2>1, <3>1, <3>3 DEF UnbrokenHeaderInv
    <3>5. ImageInv'
      BY <1>b, <2>1, <3>1, <3>2 DEF ImageInv
    <3> QED
      BY <3>4, <3>5
  <2> QED
    BY <2>2, <2>3, <2>4 DEF IInv
<1> QED
  BY <1>1, <1>2

LEMMA CreateJournalInv == ASSUME IInv, CreateJournal PROVE IInv'
<1> USE DEF CreateJournal, Goto, Idle, Journalling, Replaying, Applying, Copying,
            SectionsSynced, SyncJournal, SyncReplica
<1>1. TypeOK'
  <2>1. cache' \in Device
    BY Zenon DEF IInv, TypeOK, Device
  <2>2. offs' \in [write : 0..WCount, correct : 0..CCount]
    BY CountsNat
  <2> QED
    BY <2>1, <2>2, Zenon DEF IInv, TypeOK, PCs
<1>2. SlotsInv'
  <2>1. /\ cache'.writes = cache.writes /\ cache'.blocks = cache.blocks
        /\ offs'.write = WCount /\ offs'.correct = CCount
    BY DEF IInv, TypeOK, Device
  <2>2. DOMAIN cache.writes = 1..WCount /\ DOMAIN cache.blocks = 1..CCount
    BY DeviceParts DEF IInv, TypeOK
  <2> QED
    BY <2>1, <2>2, CountsNat DEF SlotsInv, EmptyBeyond
<1>3. IndexInv'
  BY DEF IInv, IndexInv
<1>4. HeaderInv'
  BY DEF IInv, HeaderInv
<1>5. ~broken' => UnbrokenHeaderInv'
  BY DEF IInv, UnbrokenHeaderInv, HeaderInv, Replayed
<1>6. ~broken' => ImageInv'
  BY DEF IInv, ImageInv, Replay
<1> QED
  BY <1>1, <1>2, <1>3, <1>4, <1>5, <1>6 DEF IInv

LEMMA SyncCreatedInv == ASSUME IInv, SyncCreated PROVE IInv'
<1> USE DEF SyncCreated, Goto, Idle, Journalling, Replaying, Applying, Copying,
            SectionsSynced, SyncJournal, SyncReplica
<1>1. TypeOK'
  BY CountsNat, Zenon DEF IInv, TypeOK, Device, PCs
<1>2. SlotsInv'
  BY DEF IInv, SlotsInv
<1>3. IndexInv'
  BY DEF IInv, IndexInv
<1>4. HeaderInv'
  BY DEF IInv, HeaderInv
<1>5. ~broken' => UnbrokenHeaderInv'
  BY DEF IInv, UnbrokenHeaderInv, HeaderInv, Replayed
<1>6. ~broken' => ImageInv'
  BY DEF IInv, ImageInv, Replay
<1> QED
  BY <1>1, <1>2, <1>3, <1>4, <1>5, <1>6 DEF IInv

LEMMA HandleWritePacketInv == ASSUME IInv, NEW e \in Entry, HandleWritePacket(e) PROVE IInv'
<1> USE DEF HandleWritePacket, Goto, Idle, Journalling, Replaying, Applying, Copying,
            SectionsSynced, SyncJournal, SyncReplica
<1>1. TypeOK'
  <2>1. cache \in Device /\ image \in Contents
    BY DEF IInv, TypeOK, Contents
  <2>2. ApplyOne(cache.replica, e) \in Contents /\ ApplyOne(image, e) \in Contents
    BY <2>1, DeviceParts, ApplyOneType
  <2>3. image' \in Contents
    BY <2>1, <2>2 DEF Promise
  <2>4. cache' \in Device
    BY <2>1, <2>2 DEF Device, Contents
  <2> QED
    BY <2>3, <2>4 DEF IInv, TypeOK, PCs, Contents
<1>2. SlotsInv'
  BY DEF IInv, SlotsInv
<1>3. IndexInv'
  BY DEF IInv, IndexInv
<1>4. HeaderInv'
  BY DEF IInv, HeaderInv
<1>5. ~broken' => UnbrokenHeaderInv'
  BY DEF IInv, UnbrokenHeaderInv, HeaderInv, Replayed
<1>6. ~broken' => ImageInv'
  <2> SUFFICES ASSUME ~broken PROVE ImageInv'
    OBVIOUS
  <2>1. cache.replica = image /\ stable.replica = image /\ prev = image
    BY DEF IInv, ImageInv
  <2>2. cache'.replica = ApplyOne(cache.replica, e)
    BY DEF IInv, TypeOK, Device
  <2>3. image' = ApplyOne(image, e)
    BY DEF Promise
  <2> QED
    BY <2>1, <2>2, <2>3 DEF ImageInv
<1> QED
  BY <1>1, <1>2, <1>3, <1>4, <1>5, <1>6 DEF IInv

LEMMA SyncWritePacketInv == ASSUME IInv, SyncWritePacket PROVE IInv'
<1> USE DEF SyncWritePacket, Goto, Idle, Journalling, Replaying, Applying, Copying,
            SectionsSynced, SyncJournal, SyncReplica
<1>1. TypeOK'
  BY CountsNat, Zenon DEF IInv, TypeOK, Device, PCs
<1>2. SlotsInv'
  BY DEF IInv, SlotsInv
<1>3. IndexInv'
  BY DEF IInv, IndexInv
<1>4. HeaderInv'
  BY DEF IInv, HeaderInv
<1>5. ~broken' => UnbrokenHeaderInv'
  BY DEF IInv, UnbrokenHeaderInv, HeaderInv, Replayed
<1>6. ~broken' => ImageInv'
  BY DEF IInv, ImageInv, Replay
<1> QED
  BY <1>1, <1>2, <1>3, <1>4, <1>5, <1>6 DEF IInv

LEMMA StartHashingInv == ASSUME IInv, StartHashing PROVE IInv'
<1> USE DEF StartHashing, Goto, Idle, Journalling, Replaying, Applying, Copying,
            SectionsSynced, SyncJournal, SyncReplica
<1>1. TypeOK'
  BY CountsNat, Zenon DEF IInv, TypeOK, Device, PCs
<1>2. SlotsInv'
  <2>1. cache'.writes = cache.writes /\ cache'.blocks = cache.blocks
    BY DEF IInv, TypeOK, Device
  <2> QED
    BY <2>1 DEF IInv, SlotsInv, Filled, EmptyBeyond
<1>3. IndexInv'
  BY DEF IInv, IndexInv
<1>4. HeaderInv'
  BY DEF IInv, HeaderInv
<1>5. ~broken' => UnbrokenHeaderInv'
  <2>1. cache'.valid = FALSE
    BY DEF IInv, TypeOK, Device
  <2> QED
    BY <2>1, Zenon DEF IInv, UnbrokenHeaderInv
<1>6. ~broken' => ImageInv'
  BY DEF IInv, ImageInv, Replay
<1> QED
  BY <1>1, <1>2, <1>3, <1>4, <1>5, <1>6 DEF IInv

LEMMA SyncResetInv == ASSUME IInv, SyncReset PROVE IInv'
<1> USE DEF SyncReset, Goto, Idle, Journalling, Replaying, Applying, Copying,
            SectionsSynced, SyncJournal, SyncReplica
<1>1. TypeOK'
  BY CountsNat, Zenon DEF IInv, TypeOK, Device, PCs
<1>2. SlotsInv'
  BY DEF IInv, SlotsInv
<1>3. IndexInv'
  BY DEF IInv, IndexInv
<1>4. HeaderInv'
  BY DEF IInv, HeaderInv
<1>5. ~broken' => UnbrokenHeaderInv'
  BY DEF IInv, UnbrokenHeaderInv, HeaderInv, Replayed
<1>6. ~broken' => ImageInv'
  BY DEF IInv, ImageInv, Replay
<1> QED
  BY <1>1, <1>2, <1>3, <1>4, <1>5, <1>6 DEF IInv

LEMMA ResetToInv == ASSUME IInv, ResetTo PROVE IInv'
<1> USE DEF ResetTo, Goto, Idle, Journalling, Replaying, Applying, Copying,
            SectionsSynced, SyncJournal, SyncReplica
<1>1. TypeOK'
  <2>1. cache \in Device
    BY DEF IInv, TypeOK
  <2>2. Cleared(cache.writes, offs.write) \in [1..WCount -> Entry \union {Empty}]
    BY <2>1, DeviceParts, Zenon DEF Cleared
  <2>3. Cleared(cache.blocks, offs.correct) \in [1..CCount -> Entry \union {Empty}]
    BY <2>1, DeviceParts, Zenon DEF Cleared
  <2>4. cache' \in Device
    BY <2>1, <2>2, <2>3, Zenon DEF Device
  <2>5. offs' \in [write : 0..WCount, correct : 0..CCount]
    BY CountsNat
  <2> QED
    BY <2>4, <2>5 DEF IInv, TypeOK, PCs
<1>2. SlotsInv'
  <2>1. cache \in Device
    BY DEF IInv, TypeOK
  <2>2. /\ cache.writes \in [1..WCount -> Entry \union {Empty}]
        /\ cache.blocks \in [1..CCount -> Entry \union {Empty}]
    BY <2>1, DeviceParts
  <2>3. /\ cache'.writes = Cleared(cache.writes, offs.write)
        /\ cache'.blocks = Cleared(cache.blocks, offs.correct)
        /\ offs'.write = 0 /\ offs'.correct = 0
    BY <2>1 DEF Device
  <2>4. EmptyBeyond(cache.writes, offs.write) /\ EmptyBeyond(cache.blocks, offs.correct)
    BY DEF IInv, SlotsInv
  <2>5. offs.write \in Nat /\ offs.correct \in Nat
    BY CountsNat DEF IInv, TypeOK
  <2>6. Filled(cache'.writes, 0)
    BY <2>2, <2>3, <2>4, <2>5, CountsNat DEF Filled, EmptyBeyond, Cleared
  <2>7. Filled(cache'.blocks, 0)
    BY <2>2, <2>3, <2>4, <2>5, CountsNat DEF Filled, EmptyBeyond, Cleared
  <2> QED
    BY <2>3, <2>6, <2>7 DEF SlotsInv
<1>3. IndexInv'
  BY DEF IInv, IndexInv
<1>4. HeaderInv'
  BY DEF IInv, HeaderInv
<1>5. ~broken' => UnbrokenHeaderInv'
  BY DEF IInv, UnbrokenHeaderInv, HeaderInv, Replayed
<1>6. ~broken' => ImageInv'
  BY DEF IInv, ImageInv, Replay
<1> QED
  BY <1>1, <1>2, <1>3, <1>4, <1>5, <1>6 DEF IInv

LEMMA WriteCorrectBlockInv == ASSUME IInv, NEW e \in Entry, WriteCorrectBlock(e) PROVE IInv'
<1> USE DEF WriteCorrectBlock, Goto, Idle, Journalling, Replaying, Applying, Copying,
            SectionsSynced, SyncJournal, SyncReplica
<1>1. TypeOK'
  BY CountsNat, Zenon DEF IInv, TypeOK, Device, PCs
<1>2. SlotsInv'
  <2>1. cache \in Device /\ offs.correct \in Nat /\ offs.correct < CCount
    BY CountsNat DEF IInv, TypeOK
  <2>2. cache.blocks \in [1..CCount -> Entry \union {Empty}]
    BY <2>1, DeviceParts
  <2>3. cache'.blocks = [cache.blocks EXCEPT ![offs.correct + 1] = e] /\ cache'.writes = cache.writes
    BY <2>1 DEF Device
  <2>4. Filled(cache.blocks, offs.correct)
    BY DEF IInv, SlotsInv
  <2>5. Filled(cache'.blocks, offs.correct + 1)
    BY <2>1, <2>2, <2>3, <2>4, CountsNat DEF Filled
  <2> QED
    BY <2>1, <2>3, <2>5 DEF IInv, SlotsInv
<1>3. IndexInv'
  BY DEF IInv, IndexInv
<1>4. HeaderInv'
  BY DEF IInv, HeaderInv
<1>5. ~broken' => UnbrokenHeaderInv'
  BY DEF IInv, UnbrokenHeaderInv, HeaderInv, Replayed
<1>6. ~broken' => ImageInv'
  BY DEF IInv, ImageInv, Replay
<1> QED
  BY <1>1, <1>2, <1>3, <1>4, <1>5, <1>6 DEF IInv

LEMMA WriteBufferWriteInv == ASSUME IInv, NEW e \in Entry, WriteBufferWrite(e) PROVE IInv'
<1> USE DEF WriteBufferWrite, Goto, Idle, Journalling, Replaying, Applying, Copying,
            SectionsSynced, SyncJournal, SyncReplica
<1>1. TypeOK'
  BY CountsNat, Zenon DEF IInv, TypeOK, Device, PCs
<1>2. SlotsInv'
  <2>1. cache \in Device /\ offs.write \in Nat /\ offs.write < WCount
    BY CountsNat DEF IInv, TypeOK
  <2>2. cache.writes \in [1..WCount -> Entry \union {Empty}]
    BY <2>1, DeviceParts
  <2>3. cache'.writes = [cache.writes EXCEPT ![offs.write + 1] = e] /\ cache'.blocks = cache.blocks
    BY <2>1 DEF Device
  <2>4. Filled(cache.writes, offs.write)
    BY DEF IInv, SlotsInv
  <2>5. Filled(cache'.writes, offs.write + 1)
    BY <2>1, <2>2, <2>3, <2>4, CountsNat DEF Filled
  <2> QED
    BY <2>1, <2>3, <2>5 DEF IInv, SlotsInv
<1>3. IndexInv'
  BY DEF IInv, IndexInv
<1>4. HeaderInv'
  BY DEF IInv, HeaderInv
<1>5. ~broken' => UnbrokenHeaderInv'
  BY DEF IInv, UnbrokenHeaderInv, HeaderInv, Replayed
<1>6. ~broken' => ImageInv'
  BY DEF IInv, ImageInv, Replay
<1> QED
  BY <1>1, <1>2, <1>3, <1>4, <1>5, <1>6 DEF IInv

LEMMA SyncEntryInv == ASSUME IInv, SyncEntry PROVE IInv'
<1> USE DEF SyncEntry, Goto, Idle, Journalling, Replaying, Applying, Copying,
            SectionsSynced, SyncJournal, SyncReplica
<1>1. TypeOK'
  <2>1. stable' \in Device
    BY Zenon DEF IInv, TypeOK, Device
  <2>2. offs' \in [write : 0..WCount, correct : 0..CCount]
    BY CountsNat DEF IInv, TypeOK, SlotsInv
  <2> QED
    BY <2>1, <2>2 DEF IInv, TypeOK, PCs
<1>2. SlotsInv'
  <2>1. CASE pc = "block_sync"
    <3>1. offs'.correct = offs.correct + 1 /\ offs'.write = offs.write
      BY <2>1 DEF IInv, TypeOK
    <3> QED
      BY <2>1, <3>1 DEF IInv, SlotsInv
  <2>2. CASE pc = "entry_sync"
    <3>1. offs'.write = offs.write + 1 /\ offs'.correct = offs.correct
      BY <2>2 DEF IInv, TypeOK
    <3> QED
      BY <2>2, <3>1 DEF IInv, SlotsInv
  <2> QED
    BY <2>1, <2>2
<1>3. IndexInv'
  BY DEF IInv, IndexInv
<1>4. HeaderInv'
  BY DEF IInv, HeaderInv
<1>5. ~broken' => UnbrokenHeaderInv'
  BY DEF IInv, UnbrokenHeaderInv, HeaderInv, Replayed
<1>6. ~broken' => ImageInv'
  BY DEF IInv, ImageInv, Replay
<1> QED
  BY <1>1, <1>2, <1>3, <1>4, <1>5, <1>6 DEF IInv

LEMMA JournalOverflowInv == ASSUME IInv, JournalOverflow PROVE IInv'
<1> USE DEF JournalOverflow, Goto, Idle, Journalling, Replaying, Applying, Copying,
            SectionsSynced, SyncJournal, SyncReplica
<1>1. TypeOK'
  BY CountsNat DEF IInv, TypeOK, Device, PCs
<1>2. SlotsInv'
  BY DEF IInv, SlotsInv
<1>3. IndexInv'
  BY DEF IInv, IndexInv
<1>4. HeaderInv'
  BY DEF IInv, HeaderInv
<1>5. ~broken' => UnbrokenHeaderInv'
  BY DEF IInv, UnbrokenHeaderInv, HeaderInv, Replayed
<1>6. ~broken' => ImageInv'
  BY DEF IInv, ImageInv, Replay
<1> QED
  BY <1>1, <1>2, <1>3, <1>4, <1>5, <1>6 DEF IInv

LEMMA HashingCompletedInv == ASSUME IInv, HashingCompleted PROVE IInv'
<1> USE DEF HashingCompleted, Goto, Idle, Journalling, Replaying, Applying, Copying,
            SectionsSynced, SyncJournal, SyncReplica
<1>1. TypeOK'
  <2>1. cache \in Device /\ image \in Contents
    BY DEF IInv, TypeOK, Contents
  <2>2. ReplayOn(image, cache, offs.write, offs.correct) \in Contents
    BY <2>1, ReplayReads, ReplayType DEF IInv
  <2>3. image' \in Contents
    BY <2>1, <2>2 DEF Promise
  <2>4. cache' \in Device
    BY <2>1, Zenon DEF Device
  <2> QED
    BY <2>3, <2>4 DEF IInv, TypeOK, PCs, Contents
<1>2. SlotsInv'
  BY DEF IInv, SlotsInv
<1>3. IndexInv'
  BY DEF IInv, IndexInv
<1>4. HeaderInv'
  BY DEF IInv, HeaderInv
<1>5. ~broken' => UnbrokenHeaderInv'
  BY DEF IInv, UnbrokenHeaderInv, HeaderInv, Replayed
<1>6. ~broken' => ImageInv'
  <2> SUFFICES ASSUME ~broken PROVE ImageInv'
    OBVIOUS
  <2>1. /\ cache'.replica = cache.replica /\ cache'.writes = cache.writes
        /\ cache'.blocks = cache.blocks
    BY DEF IInv, TypeOK, Device
  <2>2. cache.replica = image /\ stable.replica = image /\ prev = image
    BY DEF IInv, ImageInv
  <2>3. image' = Replay(image)
    BY DEF Promise, Replay
  <2>4. Replay(image) = ReplayOn(image, cache', offs.write, offs.correct)
    BY <2>1 DEF Replay, ReplayOn
  <2> QED
    BY <2>1, <2>2, <2>3, <2>4 DEF ImageInv, Replay
<1> QED
  BY <1>1, <1>2, <1>3, <1>4, <1>5, <1>6 DEF IInv

LEMMA SyncValidateInv == ASSUME IInv, SyncValidate PROVE IInv'
<1> USE DEF SyncValidate, Goto, Idle, Journalling, Replaying, Applying, Copying,
            SectionsSynced, SyncJournal, SyncReplica
<1>1. TypeOK'
  <2>1. 1 \in 0..(WCount + 1)
    BY CountsNat
  <2> QED
    BY <2>1, Zenon DEF IInv, TypeOK, PCs, Device
<1>2. SlotsInv'
  BY DEF IInv, SlotsInv
<1>3. IndexInv'
  <2>1. offs.write \in Nat /\ offs.correct \in Nat
    BY CountsNat DEF IInv, TypeOK
  <2> QED
    BY <2>1 DEF IndexInv
<1>4. HeaderInv'
  BY DEF IInv, HeaderInv
<1>5. ~broken' => UnbrokenHeaderInv'
  BY DEF IInv, UnbrokenHeaderInv, HeaderInv, Replayed
<1>6. ~broken' => ImageInv'
  <2> SUFFICES ASSUME ~broken PROVE ImageInv'
    OBVIOUS
  <2>1. stable'.replica = stable.replica
    BY DEF IInv, TypeOK, Device
  <2>2. cache.replica = prev /\ stable.replica = prev /\ image = Replay(prev)
    BY DEF IInv, ImageInv
  <2>3. cache.replica \in Contents
    BY DeviceParts DEF IInv, TypeOK
  <2>4. cache.replica = ReplayOn(cache.replica, cache, 0, idx' - 1)
    BY <2>3, ReplayNothing
  <2> QED
    BY <2>1, <2>2, <2>4 DEF ImageInv, Replay
<1> QED
  BY <1>1, <1>2, <1>3, <1>4, <1>5, <1>6 DEF IInv

LEMMA ReplayBlockInv == ASSUME IInv, ReplayBlock PROVE IInv'
<1> USE DEF ReplayBlock, Goto, Idle, Journalling, Replaying, Applying, Copying,
            SectionsSynced, SyncJournal, SyncReplica
<1> DEFINE r == cache.replica
           s == ApplyOne(r, cache.blocks[idx])
<1>a. TypeOK /\ SlotsInv /\ pc \in Replaying /\ cache \in Device
  BY DEF IInv, TypeOK
<1>b. Readable(cache, offs.write, offs.correct)
  BY <1>a, ReplayReads
<1>c. /\ offs.correct \in Nat /\ offs.correct <= CCount /\ idx \in 1..offs.correct /\ idx - 1 \in Nat
      /\ idx + 1 \in 0..(CCount + 1)
  <2>1. idx \in 1..(offs.correct + 1) /\ offs.correct \in 0..CCount
    BY <1>a DEF IInv, IndexInv, TypeOK
  <2> QED
    BY <2>1, CountsNat
<1>d. cache.blocks[idx] \in Entry /\ r \in Contents
  BY <1>a, <1>b, <1>c, DeviceParts DEF Readable
<1>e. s \in Contents
  BY <1>d, ApplyOneType
<1>f. /\ cache'.replica = s /\ cache'.writes = cache.writes /\ cache'.blocks = cache.blocks
      /\ cache'.valid = cache.valid /\ cache' \in Device
  BY <1>a, <1>e DEF Device, Contents
<1> HIDE DEF s
<1>1. TypeOK'
  BY <1>a, <1>c, <1>f DEF TypeOK, PCs
<1>2. SlotsInv'
  BY <1>a, <1>f DEF SlotsInv
<1>3. IndexInv'
  BY <1>c DEF IndexInv
<1>4. HeaderInv'
  BY <1>f DEF IInv, HeaderInv
<1>5. ~broken' => UnbrokenHeaderInv'
  BY DEF UnbrokenHeaderInv
<1>6. ~broken' => ImageInv'
  <2> SUFFICES ASSUME ~broken PROVE ImageInv'
    OBVIOUS
  <2>1. /\ prev = image /\ image = Replay(r) /\ image = Replay(stable.replica)
        /\ r = ReplayOn(r, cache, 0, idx - 1)
    BY DEF IInv, ImageInv
  <2>2. ReplayOn(s, cache, offs.write, offs.correct) = ReplayOn(r, cache, offs.write, offs.correct)
    BY <1>b, <1>c, <1>d, ReplayHitBlock DEF s
  <2>3. s = ReplayOn(s, cache, 0, idx)
    <3>1. ReplayOn(r, cache, 0, idx - 1) = r
      BY <2>1
    <3> HIDE DEF r
    <3> QED
      BY <1>b, <1>c, <1>d, <3>1, ReplayBlockStep DEF s
  <2>4. /\ ReplayOn(s, cache', offs.write, offs.correct) = ReplayOn(s, cache, offs.write, offs.correct)
        /\ ReplayOn(stable.replica, cache', offs.write, offs.correct) = Replay(stable.replica)
        /\ ReplayOn(s, cache', 0, idx) = ReplayOn(s, cache, 0, idx)
    BY <1>f DEF Replay, ReplayOn
  <2>5. (idx + 1) - 1 = idx
    BY <1>c
  <2> QED
    BY <1>f, <2>1, <2>2, <2>3, <2>4, <2>5, Zenon DEF ImageInv, Replay
<1> QED
  BY <1>1, <1>2, <1>3, <1>4, <1>5, <1>6 DEF IInv

LEMMA SyncReplayedBlocksInv == ASSUME IInv, SyncReplayedBlocks PROVE IInv'
<1> USE DEF SyncReplayedBlocks, Goto, Idle, Journalling, Replaying, Applying, Copying,
            SectionsSynced, SyncJournal, SyncReplica
<1>1. TypeOK'
  <2>1. 1 \in 0..(WCount + 1)
    BY CountsNat
  <2> QED
    BY <2>1 DEF IInv, TypeOK, PCs, Device
<1>2. SlotsInv'
  BY DEF IInv, SlotsInv
<1>3. IndexInv'
  <2>1. offs.write \in Nat /\ offs.correct \in Nat
    BY CountsNat DEF IInv, TypeOK
  <2> QED
    BY <2>1 DEF IndexInv
<1>4. HeaderInv'
  BY DEF IInv, HeaderInv
<1>5. ~broken' => UnbrokenHeaderInv'
  BY DEF IInv, UnbrokenHeaderInv, HeaderInv, Replayed
<1>6. ~broken' => ImageInv'
  <2> SUFFICES ASSUME ~broken PROVE ImageInv'
    OBVIOUS
  <2>1. stable'.replica = cache.replica
    BY DEF IInv, TypeOK, Device
  <2>2. /\ prev = image /\ image = Replay(cache.replica)
        /\ cache.replica = ReplayOn(cache.replica, cache, 0, idx - 1)
    BY DEF IInv, ImageInv
  <2>3. idx - 1 = offs.correct /\ idx' - 1 = 0
    <3>1. idx \in 1..(offs.correct + 1) /\ offs.correct \in Nat
      BY CountsNat DEF IInv, IndexInv, TypeOK
    <3> QED
      BY <3>1
  <2>4. Replay(cache.replica)' = Replay(cache.replica)
    BY DEF Replay
  <2> QED
    BY <2>1, <2>2, <2>3, <2>4 DEF ImageInv, Replay
<1> QED
  BY <1>1, <1>2, <1>3, <1>4, <1>5, <1>6 DEF IInv

LEMMA ReplayWriteInv == ASSUME IInv, ReplayWrite PROVE IInv'
<1> USE DEF ReplayWrite, Goto, Idle, Journalling, Replaying, Applying, Copying,
            SectionsSynced, SyncJournal, SyncReplica
<1> DEFINE r == cache.replica
           s == ApplyOne(r, cache.writes[idx])
<1>a. TypeOK /\ SlotsInv /\ pc \in Replaying /\ cache \in Device
  BY DEF IInv, TypeOK
<1>b. Readable(cache, offs.write, offs.correct)
  BY <1>a, ReplayReads
<1>c. /\ offs.write \in Nat /\ offs.write <= WCount /\ idx \in 1..offs.write /\ idx - 1 \in Nat
      /\ idx + 1 \in 0..(WCount + 1)
  <2>1. idx \in 1..(offs.write + 1) /\ offs.write \in 0..WCount
    BY <1>a DEF IInv, IndexInv, TypeOK
  <2> QED
    BY <2>1, CountsNat
<1>d. cache.writes[idx] \in Entry /\ r \in Contents
  BY <1>a, <1>b, <1>c, DeviceParts DEF Readable
<1>e. s \in Contents
  BY <1>d, ApplyOneType
<1>f. /\ cache'.replica = s /\ cache'.writes = cache.writes /\ cache'.blocks = cache.blocks
      /\ cache'.valid = cache.valid /\ cache' \in Device
  BY <1>a, <1>e DEF Device, Contents
<1> HIDE DEF s
<1>1. TypeOK'
  BY <1>a, <1>c, <1>f DEF TypeOK, PCs
<1>2. SlotsInv'
  BY <1>a, <1>f DEF SlotsInv
<1>3. IndexInv'
  BY <1>c DEF IndexInv
<1>4. HeaderInv'
  BY <1>f DEF IInv, HeaderInv
<1>5. ~broken' => UnbrokenHeaderInv'
  BY DEF UnbrokenHeaderInv
<1>6. ~broken' => ImageInv'
  <2> SUFFICES ASSUME ~broken PROVE ImageInv'
    OBVIOUS
  <2>1. /\ prev = image /\ image = Replay(r) /\ image = Replay(stable.replica)
        /\ r = ReplayOn(r, cache, idx - 1, offs.correct)
    BY DEF IInv, ImageInv
  <2>2. ReplayOn(s, cache, offs.write, offs.correct) = ReplayOn(r, cache, offs.write, offs.correct)
    BY <1>b, <1>c, <1>d, ReplayHitWrite DEF s
  <2>3. s = ReplayOn(s, cache, idx, offs.correct)
    <3>1. ReplayOn(r, cache, idx - 1, offs.correct) = r
      BY <2>1
    <3> HIDE DEF r
    <3> QED
      BY <1>b, <1>c, <1>d, <3>1, ReplayWriteStep DEF s
  <2>4. /\ ReplayOn(s, cache', offs.write, offs.correct) = ReplayOn(s, cache, offs.write, offs.correct)
        /\ ReplayOn(stable.replica, cache', offs.write, offs.correct) = Replay(stable.replica)
        /\ ReplayOn(s, cache', idx, offs.correct) = ReplayOn(s, cache, idx, offs.correct)
    BY <1>f DEF Replay, ReplayOn
  <2>5. (idx + 1) - 1 = idx
    BY <1>c
  <2> QED
    BY <1>f, <2>1, <2>2, <2>3, <2>4, <2>5, Zenon DEF ImageInv, Replay
<1> QED
  BY <1>1, <1>2, <1>3, <1>4, <1>5, <1>6 DEF IInv

LEMMA SyncReplayedWriteInv == ASSUME IInv, SyncReplayedWrite PROVE IInv'
<1> USE DEF SyncReplayedWrite, Goto, Idle, Journalling, Replaying, Applying, Copying,
            SectionsSynced, SyncJournal, SyncReplica
<1>1. TypeOK'
  BY CountsNat, Zenon DEF IInv, TypeOK, Device, PCs
<1>2. SlotsInv'
  BY DEF IInv, SlotsInv
<1>3. IndexInv'
  BY DEF IInv, IndexInv
<1>4. HeaderInv'
  BY DEF IInv, HeaderInv
<1>5. ~broken' => UnbrokenHeaderInv'
  BY DEF IInv, UnbrokenHeaderInv, HeaderInv, Replayed
<1>6. ~broken' => ImageInv'
  BY DEF IInv, ImageInv, Replay
<1> QED
  BY <1>1, <1>2, <1>3, <1>4, <1>5, <1>6 DEF IInv

LEMMA ReplayDoneInv == ASSUME IInv, ReplayDone PROVE IInv'
<1> USE DEF ReplayDone, Goto, Idle, Journalling, Replaying, Applying, Copying,
            SectionsSynced, SyncJournal, SyncReplica
<1>1. TypeOK'
  BY CountsNat, Zenon DEF IInv, TypeOK, Device, PCs
<1>2. SlotsInv'
  BY DEF IInv, SlotsInv
<1>3. IndexInv'
  BY DEF IInv, IndexInv
<1>4. HeaderInv'
  BY DEF IInv, HeaderInv
<1>5. ~broken' => UnbrokenHeaderInv'
  <2>1. cache'.valid = FALSE /\ cache'.writes = cache.writes /\ cache'.blocks = cache.blocks
    BY DEF IInv, TypeOK, Device
  <2> QED
    BY <2>1, Zenon DEF IInv, UnbrokenHeaderInv, HeaderInv
<1>6. ~broken' => ImageInv'
  <2> SUFFICES ASSUME ~broken PROVE ImageInv'
    OBVIOUS
  <2>1. /\ cache'.replica = cache.replica /\ cache'.writes = cache.writes
        /\ cache'.blocks = cache.blocks
    BY DEF IInv, TypeOK, Device
  <2>2. /\ prev = image /\ image = Replay(cache.replica) /\ stable.replica = cache.replica
        /\ cache.replica = ReplayOn(cache.replica, cache, idx - 1, offs.correct)
    BY DEF IInv, ImageInv
  <2>3. idx - 1 = offs.write
    <3>1. idx \in 1..(offs.write + 1) /\ offs.write \in Nat
      BY CountsNat DEF IInv, IndexInv, TypeOK
    <3> QED
      BY <3>1
  <2>4. image = cache.replica
    BY <2>2, <2>3 DEF Replay
  <2>5. Replay(image)' = Replay(image)
    BY <2>1 DEF Replay, ReplayOn
  <2> QED
    BY <2>1, <2>2, <2>4, <2>5, Zenon DEF ImageInv
<1> QED
  BY <1>1, <1>2, <1>3, <1>4, <1>5, <1>6 DEF IInv

LEMMA SyncReplayDoneInv == ASSUME IInv, SyncReplayDone PROVE IInv'
<1> USE DEF SyncReplayDone, Goto, Idle, Journalling, Replaying, Applying, Copying,
            SectionsSynced, SyncJournal, SyncReplica
<1>1. TypeOK'
  BY CountsNat, Zenon DEF IInv, TypeOK, Device, PCs
<1>2. SlotsInv'
  BY DEF IInv, SlotsInv, Filled, EmptyBeyond
<1>3. IndexInv'
  BY DEF IInv, IndexInv
<1>4. HeaderInv'
  BY DEF IInv, HeaderInv
<1>5. ~broken' => UnbrokenHeaderInv'
  BY DEF IInv, UnbrokenHeaderInv, HeaderInv, Replayed
<1>6. ~broken' => ImageInv'
  BY DEF IInv, ImageInv, Replay
<1> QED
  BY <1>1, <1>2, <1>3, <1>4, <1>5, <1>6 DEF IInv

LEMMA ApplyFailsInv == ASSUME IInv, ApplyFails PROVE IInv'
<1> USE DEF ApplyFails, Goto, Idle, Journalling, Replaying, Applying, Copying,
            SectionsSynced, SyncJournal, SyncReplica
<1>1. TypeOK'
  <2>1. BlankReplica \in [Blocks -> Vals]
    BY JournalAssumption DEF BlankReplica
  <2> QED
    BY <2>1, Zenon DEF IInv, TypeOK, PCs
<1>2. SlotsInv'
  BY DEF IInv, SlotsInv, Filled, EmptyBeyond
<1>3. IndexInv'
  BY DEF IInv, IndexInv
<1>4. HeaderInv'
  BY DEF IInv, HeaderInv
<1>5. ~broken' => UnbrokenHeaderInv'
  BY DEF IInv, UnbrokenHeaderInv, HeaderInv, Replayed
<1>6. ~broken' => ImageInv'
  BY DEF IInv, ImageInv, Replay
<1> QED
  BY <1>1, <1>2, <1>3, <1>4, <1>5, <1>6 DEF IInv

LEMMA DisconnectInv == ASSUME IInv, Disconnect PROVE IInv'
<1> USE DEF Disconnect, Goto, Idle, Journalling, Replaying, Applying, Copying,
            SectionsSynced, SyncJournal, SyncReplica
<1>1. TypeOK'
  BY CountsNat, Zenon DEF IInv, TypeOK, Device, PCs
<1>2. SlotsInv'
  BY DEF IInv, SlotsInv
<1>3. IndexInv'
  BY DEF IInv, IndexInv
<1>4. HeaderInv'
  BY DEF IInv, HeaderInv
<1>5. ~broken' => UnbrokenHeaderInv'
  BY DEF IInv, UnbrokenHeaderInv, HeaderInv, Replayed
<1>6. ~broken' => ImageInv'
  BY DEF IInv, ImageInv, Replay
<1> QED
  BY <1>1, <1>2, <1>3, <1>4, <1>5, <1>6 DEF IInv

LEMMA CrashInv == ASSUME IInv, Crash PROVE IInv'
<1> USE DEF Crash, Goto, Idle, Journalling, Replaying, Applying, Copying,
            SectionsSynced, SyncJournal, SyncReplica
<1>1. TypeOK'
  <2>1. PICK d \in CrashOutcomes : cache' = d /\ stable' = d
    OBVIOUS
  <2>2. d \in Device
    BY <2>1, CrashFacts DEF IInv
  <2>3. Recovered(cache') \in [Blocks -> Vals]
    BY <2>1, <2>2, RecoveredType DEF Contents
  <2>4. image' \in [Blocks -> Vals] /\ prev' \in [Blocks -> Vals] /\ cache' \in Device /\ stable' \in Device
    BY <2>1, <2>2, <2>3
  <2>5. overflow' \in BOOLEAN /\ broken' \in BOOLEAN
    BY Zenon
  <2>6. 0 \in 0..WCount /\ 0 \in 0..CCount /\ idx' \in 0..(WCount + 1) \union 0..(CCount + 1)
    BY CountsNat
  <2> QED
    BY <2>4, <2>5, <2>6 DEF TypeOK, PCs
<1>2. SlotsInv'
  BY DEF IInv, SlotsInv
<1>3. IndexInv'
  BY DEF IInv, IndexInv
<1>4. HeaderInv'
  BY DEF IInv, HeaderInv
<1>5. ~broken' => UnbrokenHeaderInv'
  BY DEF IInv, UnbrokenHeaderInv, HeaderInv, Replayed
<1>6. ~broken' => ImageInv'
  BY DEF IInv, ImageInv, Replay
<1> QED
  BY <1>1, <1>2, <1>3, <1>4, <1>5, <1>6 DEF IInv

LEMMA InitInv == ASSUME Init PROVE IInv
<1> USE DEF Init
<1>1. BlankReplica \in [Blocks -> Vals]
  BY JournalAssumption DEF BlankReplica
<1>2. cache \in Device /\ stable \in Device
  BY <1>1 DEF Device
<1>3. offs \in [write : 0..WCount, correct : 0..CCount] /\ idx \in 0..(WCount + 1)
  BY CountsNat
<1>4. TypeOK
  BY <1>1, <1>2, <1>3, Zenon DEF TypeOK, PCs
<1>5. SlotsInv /\ IndexInv /\ HeaderInv
  BY DEF SlotsInv, IndexInv, HeaderInv, Idle, Applying, Copying, Replaying
<1>6. UnbrokenHeaderInv
  BY DEF UnbrokenHeaderInv, Idle, Journalling
<1>7. image = Recovered(cache)
  BY DEF Recovered, Replayed
<1>8. ImageInv
  BY <1>7 DEF ImageInv, Idle, Journalling, Applying, Copying, Replaying
<1> QED
  BY <1>4, <1>5, <1>6, <1>8 DEF IInv

LEMMA StutterInv == ASSUME IInv, UNCHANGED vars PROVE IInv'
<1> USE DEF vars
<1>1. TypeOK'
  BY DEF IInv, TypeOK
<1>2. SlotsInv' /\ IndexInv' /\ HeaderInv'
  BY DEF IInv, SlotsInv, IndexInv, HeaderInv, SectionsSynced
<1>3. ~broken' => UnbrokenHeaderInv'
  BY DEF IInv, UnbrokenHeaderInv, SectionsSynced
<1>4. ~broken' => ImageInv'
  BY DEF IInv, ImageInv, Replay
<1> QED
  BY <1>1, <1>2, <1>3, <1>4 DEF IInv

LEMMA NextInv == ASSUME IInv, [Next]_vars PROVE IInv'
<1>1. CASE CheckJournal
  BY <1>1, CheckJournalInv
<1>2. CASE CreateJournal \/ SyncCreated
  BY <1>2, CreateJournalInv, SyncCreatedInv
<1>3. ASSUME NEW e \in Entry, HandleWritePacket(e) \/ WriteCorrectBlock(e) \/ WriteBufferWrite(e)
      PROVE  IInv'
  BY <1>3, HandleWritePacketInv, WriteCorrectBlockInv, WriteBufferWriteInv
<1>4. CASE SyncWritePacket \/ SyncEntry \/ JournalOverflow
  BY <1>4, SyncWritePacketInv, SyncEntryInv, JournalOverflowInv
<1>5. CASE StartHashing \/ SyncReset \/ ResetTo
  BY <1>5, StartHashingInv, SyncResetInv, ResetToInv
<1>6. CASE HashingCompleted \/ SyncValidate
  BY <1>6, HashingCompletedInv, SyncValidateInv
<1>7. CASE ReplayBlock \/ SyncReplayedBlocks \/ ReplayWrite \/ SyncReplayedWrite
  BY <1>7, ReplayBlockInv, SyncReplayedBlocksInv, ReplayWriteInv, SyncReplayedWriteInv
<1>8. CASE ReplayDone \/ SyncReplayDone
  BY <1>8, ReplayDoneInv, SyncReplayDoneInv
<1>9. CASE ApplyFails \/ Disconnect \/ Crash
  BY <1>9, ApplyFailsInv, DisconnectInv, CrashInv
<1>10. CASE UNCHANGED vars
  BY <1>10, StutterInv
<1> QED
  BY <1>1, <1>2, <1>3, <1>4, <1>5, <1>6, <1>7, <1>8, <1>9, <1>10 DEF Next

LEMMA Invariance == Spec => []IInv
BY InitInv, NextInv, PTL DEF Spec
-----------------------------------------------------------------------------
(* The devices keep their layout and the offsets stay inside the sections, *)
(* for every size of the device and of the ring: journal.go never writes   *)
(* outside a section.                                                      *)
THEOREM TypeCorrect == Spec => []TypeOK
<1>1. IInv => TypeOK
  BY DEF IInv
<1> QED
  BY <1>1, Invariance, PTL

(* WriteJournalToReplica and CopyJournalToReplica change the replica only  *)
(* while the whole journal and its header are durable.                     *)
THEOREM WrittenAhead == Spec => []WriteAhead
BY WriteAheadHolds, Invariance, PTL

(* The offsets WriteJournalToReplica uses are the ones OpenJournal would   *)
(* find after a crash in the middle of it.                                 *)
THEOREM ReplaysAgreeAlways == Spec => []ReplaysAgree
BY ReplaysAgreeHolds, Invariance, PTL

(* A stop of the process or of the machine at any moment leaves devices    *)
(* from which CheckJournal and CopyJournalToReplica recover the replica    *)
(* before or after the update in progress, unless a section is full, the   *)
(* journal empty or an application failed before.                          *)
THEOREM CrashesRecoverable == Spec => []RecoverableUnlessFull
BY RecoverableHolds, Invariance, PTL
=============================================================================
