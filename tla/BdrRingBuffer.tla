---------------------------- MODULE BdrRingBuffer ----------------------------
(***************************************************************************)
(* The kernel side of BDR: the ring buffer shared with userspace           *)
(* (src/kern/ring-buffer.c), the device-mapper hook that fills it          *)
(* (bdr_target_map and what it calls, src/kern/main.c), the bitmap of      *)
(* blocks written while the buffer is overflown (src/kern/bitmap.c) and    *)
(* the ioctls with which userspace reads and resets it.                    *)
(*                                                                         *)
(* A write is a number: the n-th write accepted by the buffer is n.  Any   *)
(* number of kernel threads run bdr_target_map at once.  The spinlock      *)
(* makes the update of buffer_info one step; the copy of the write into    *)
(* its slot happens after the lock is released and is two further steps,   *)
(* the header (sector and size) and the data.                              *)
(***************************************************************************)
EXTENDS Integers, Sequences

CONSTANTS Writers,     \* kernel threads that submit bios
          Blocks,      \* blocks of the device the overflow bitmap tells apart
          MaxWrites,   \* max_writes of the buffer
          MaxAccepted, \* bound: writes accepted in one behaviour
          Bios         \* the bios that may arrive: sequences of segments (blocks)

ASSUME WriterAssumption == MaxWrites \in Nat \ {0} /\ MaxAccepted \in Nat
ASSUME BioAssumption == Bios \subseteq Seq(Blocks) \ {<<>>}

VARIABLES
  info,      \* buffer_info: offset, length, last and the overflow flag
  slot,      \* the shared buffer: for each slot the write in its two parts
  pc,        \* where each writer is in bdr_target_map
  bio,       \* the segments each writer has still to handle
  target,    \* the slot and the write of each writer's put in flight; "stale"
             \* once its slot was released under it, by a reset or because
             \* userspace was done with the batch it belongs to
  bitmap,    \* overflow_bm
  rd,        \* the userspace reader: next slot, slots left, write expected
             \* there, and whether the buffer was left alone since
  accepted,  \* history: number of writes accepted
  refused,   \* history: blocks of the segments refused since the last reset
  stained    \* history: slots last written by a stale put

vars == <<info, slot, pc, bio, target, bitmap, rd, accepted, refused, stained>>

Slots == 0..(MaxWrites - 1)

NoTarget == [slot |-> 0, write |-> 0, stale |-> FALSE]

(* bdr_ring_buffer_init: the ctr rejects max_writes = 0.                   *)
Init ==
  /\ info = [offset |-> 0, length |-> 0, last |-> 0, overflown |-> FALSE]
  /\ slot = [s \in Slots |-> [header |-> 0, data |-> 0]]
  /\ pc = [w \in Writers |-> "idle"]
  /\ bio = [w \in Writers |-> <<>>]
  /\ target = [w \in Writers |-> NoTarget]
  /\ bitmap = {}
  /\ rd = [next |-> 0, left |-> 0, write |-> 0, live |-> TRUE]
  /\ accepted = 0
  /\ refused = {}
  /\ stained = {}
-----------------------------------------------------------------------------
(* The segment just handled is the last one of the bio, or the writer goes *)
(* back to step "again" for the next one.                                  *)
NextSegment(w, again) ==
  /\ bio' = [bio EXCEPT ![w] = Tail(@)]
  /\ pc' = [pc EXCEPT ![w] = IF Len(bio[w]) = 1 THEN "submit" ELSE again]

(* bdr_target_map reads the overflow flag once, under the lock, and takes  *)
(* one of its two branches for the whole bio.                              *)
bdr_target_map(w) ==
  /\ pc[w] = "idle"
  /\ \E b \in Bios : bio' = [bio EXCEPT ![w] = b]
  /\ pc' = [pc EXCEPT ![w] = IF info.overflown THEN "mark" ELSE "put"]
  /\ UNCHANGED <<info, slot, target, bitmap, rd, accepted, refused, stained>>

(* The overflown branch: each segment sets its block's bit.                *)
bdr_bitmap_set_sector(w) ==
  /\ pc[w] = "mark"
  /\ bitmap' = bitmap \union {Head(bio[w])}
  /\ NextSegment(w, "mark")
  /\ UNCHANGED <<info, slot, target, rd, accepted, refused, stained>>

(* One more write in buffer_info; the flag is raised when the new end      *)
(* meets "last".                                                           *)
bdr_ring_buffer_update_unsafe(i) ==
  [i EXCEPT !.length = @ + 1,
            !.overflown = @ \/ (i.offset + i.length + 1) % MaxWrites = i.last]

(* The put of writer w has its slot and has not finished copying into it.  *)
InFlight(w) == pc[w] \in {"header", "data"}

(* The locked part of bdr_ring_buffer_put when the write is refused: the   *)
(* flag was up, or this write raises it (length stays incremented).  The   *)
(* caller drops the segment and goes on with the next one.                 *)
PutRefused(w) ==
  /\ pc[w] = "put"
  /\ IF info.overflown
       THEN info' = info
       ELSE /\ bdr_ring_buffer_update_unsafe(info).overflown
            /\ info' = bdr_ring_buffer_update_unsafe(info)
  /\ refused' = refused \union {Head(bio[w])}
  /\ NextSegment(w, "put")
  /\ UNCHANGED <<slot, target, bitmap, rd, accepted, stained>>

(* Mutant: the length is forgotten when the slot is computed.              *)
PutReservedAtOffset(w) ==
  /\ pc[w] = "put"
  /\ accepted < MaxAccepted
  /\ ~info.overflown
  /\ ~bdr_ring_buffer_update_unsafe(info).overflown
  /\ info' = bdr_ring_buffer_update_unsafe(info)
  /\ accepted' = accepted + 1
  /\ target' = [target EXCEPT ![w] =
                  [slot |-> info.offset, write |-> accepted + 1, stale |-> FALSE]]
  /\ stained' = stained \ {info.offset}
  /\ pc' = [pc EXCEPT ![w] = "header"]
  /\ UNCHANGED <<slot, bio, bitmap, rd, refused>>

(* The locked part of bdr_ring_buffer_put when the write gets a slot.      *)
PutReserved(w) ==
  /\ pc[w] = "put"
  /\ accepted < MaxAccepted
  /\ ~info.overflown
  /\ ~bdr_ring_buffer_update_unsafe(info).overflown
  /\ info' = bdr_ring_buffer_update_unsafe(info)
  /\ accepted' = accepted + 1
  /\ target' = [target EXCEPT ![w] =
                  [slot  |-> (info.offset + info.length) % MaxWrites,
                   write |-> accepted + 1,
                   stale |-> FALSE]]
  /\ stained' = stained \ {(info.offset + info.length) % MaxWrites}
  /\ pc' = [pc EXCEPT ![w] = "header"]
  /\ UNCHANGED <<slot, bio, bitmap, rd, refused>>

(* After the lock is released: sector and size, then the page's data.      *)
CopyHeader(w) ==
  /\ pc[w] = "header"
  /\ slot' = [slot EXCEPT ![target[w].slot].header = target[w].write]
  /\ stained' = IF target[w].stale THEN stained \union {target[w].slot} ELSE stained
  /\ pc' = [pc EXCEPT ![w] = "data"]
  /\ UNCHANGED <<info, bio, target, bitmap, rd, accepted, refused>>

CopyData(w) ==
  /\ pc[w] = "data"
  /\ slot' = [slot EXCEPT ![target[w].slot].data = target[w].write]
  /\ stained' = IF target[w].stale THEN stained \union {target[w].slot} ELSE stained
  /\ target' = [target EXCEPT ![w] = NoTarget]
  /\ NextSegment(w, "put")
  /\ UNCHANGED <<info, bitmap, rd, accepted, refused>>

(* The bio goes on to the underlying device.                               *)
submit_bio(w) ==
  /\ pc[w] = "submit"
  /\ pc' = [pc EXCEPT ![w] = "idle"]
  /\ UNCHANGED <<info, slot, bio, target, bitmap, rd, accepted, refused, stained>>
-----------------------------------------------------------------------------
(* The slots of the writes up to the n-th are free for new writes; puts in *)
(* flight go on copying into them.                                         *)
ReleaseUpTo(n) ==
  [w \in Writers |->
     [target[w] EXCEPT !.stale = @ \/ (InFlight(w) /\ target[w].write <= n)]]

(* Mutants: the offset does not wrap around; the batch handed out is not   *)
(* protected by "last"; reading the information lowers the flag.           *)
ReadInfoUnwrapped(i) ==
  IF i.overflown
    THEN i
    ELSE [i EXCEPT !.last = i.offset, !.offset = i.offset + i.length, !.length = 0]

ReadInfoReleasing(i) ==
  IF i.overflown
    THEN i
    ELSE [i EXCEPT !.last = (i.offset + i.length) % MaxWrites,
                   !.offset = (i.offset + i.length) % MaxWrites,
                   !.length = 0]

ReadInfoLowering(i) ==
  [i EXCEPT !.last = i.offset,
            !.offset = (i.offset + i.length) % MaxWrites,
            !.length = 0,
            !.overflown = FALSE]

(* BDR_CMD_READ_BUFFER_INFO: userspace is given the location of the new    *)
(* writes, and buffer_info moves on, unless the buffer is overflown.       *)
ReadInfo(i) ==
  IF i.overflown
    THEN i
    ELSE [i EXCEPT !.last = i.offset,
                   !.offset = (i.offset + i.length) % MaxWrites,
                   !.length = 0]

bdr_buffer_read_routine ==
  /\ info' = ReadInfo(info)
  /\ rd' = IF info.overflown
             THEN [rd EXCEPT !.left = 0]
             ELSE [next |-> info.offset, left |-> info.length,
                   write |-> accepted - info.length + 1, live |-> TRUE]
  /\ target' = IF info.overflown
                 THEN target
                 ELSE ReleaseUpTo(accepted - info.length)
  /\ UNCHANGED <<slot, pc, bio, bitmap, accepted, refused, stained>>

(* The client walks through the writes it was told of, one slot at a time. *)
ReadSlot ==
  /\ rd.left > 0
  /\ rd' = [rd EXCEPT !.next = (@ + 1) % MaxWrites, !.left = @ - 1, !.write = @ + 1]
  /\ UNCHANGED <<info, slot, pc, bio, target, bitmap, accepted, refused, stained>>

(* Mutant: the reset forgets "last".                                       *)
ResetKeepingLast ==
  /\ info' = [offset |-> 0, length |-> 0, last |-> info.last, overflown |-> FALSE]
  /\ target' = ReleaseUpTo(accepted)
  /\ rd' = [rd EXCEPT !.live = FALSE]
  /\ refused' = {}
  /\ stained' = {}
  /\ UNCHANGED <<slot, pc, bio, bitmap, accepted>>

(* BDR_CMD_RESET_BUFFER: from another userspace thread, at any time.       *)
bdr_ring_buffer_reset ==
  /\ info' = [offset |-> 0, length |-> 0, last |-> 0, overflown |-> FALSE]
  /\ target' = ReleaseUpTo(accepted)
  /\ rd' = [rd EXCEPT !.live = FALSE]
  /\ refused' = {}
  /\ stained' = {}
  /\ UNCHANGED <<slot, pc, bio, bitmap, accepted>>

(* read(2) on the character device returns the bitmap and clears it.       *)
bdr_chardev_read ==
  /\ bitmap' = {}
  /\ UNCHANGED <<info, slot, pc, bio, target, rd, accepted, refused, stained>>

Writer(w) ==
  \/ bdr_target_map(w)
  \/ bdr_bitmap_set_sector(w)
  \/ PutRefused(w)
  \/ PutReserved(w)
  \/ CopyHeader(w)
  \/ CopyData(w)
  \/ submit_bio(w)

Next ==
  \/ \E w \in Writers : Writer(w)
  \/ bdr_buffer_read_routine
  \/ ReadSlot
  \/ bdr_ring_buffer_reset
  \/ bdr_chardev_read

Spec == Init /\ [][Next]_vars
-----------------------------------------------------------------------------
(* buffer_info stays inside the buffer, and a put in flight names a slot.  *)
TypeOK ==
  /\ info \in [offset : Slots, length : 0..MaxWrites, last : Slots, overflown : BOOLEAN]
  /\ slot \in [Slots -> [header : 0..MaxAccepted, data : 0..MaxAccepted]]
  /\ pc \in [Writers -> {"idle", "mark", "put", "header", "data", "submit"}]
  /\ bio \in [Writers -> Seq(Blocks)]
  /\ target \in [Writers -> [slot : Slots, write : 0..MaxAccepted, stale : BOOLEAN]]
  /\ bitmap \in SUBSET Blocks
  /\ rd \in [next : Slots, left : 0..MaxWrites, write : 0..(MaxAccepted + 1), live : BOOLEAN]
  /\ accepted \in 0..MaxAccepted
  /\ refused \in SUBSET Blocks
  /\ stained \in SUBSET Slots

(* Writes accepted and not handed out; slots still reserved for the batch  *)
(* handed out last.  The write that raised the flag is counted in length.  *)
FreshCount == IF info.overflown THEN info.length - 1 ELSE info.length
HeldCount == (info.offset - info.last) % MaxWrites

(* Slot s holds write n, or the put of n into s has still to finish, or a  *)
(* put whose slot had been released wrote into s.                          *)
HoldsOrWillHold(s, n) ==
  \/ slot[s] = [header |-> n, data |-> n]
  \/ \E w \in Writers : InFlight(w) /\ target[w] = [slot |-> s, write |-> n, stale |-> FALSE]
  \/ s \in stained

(* Two puts whose slots are reserved never copy into the same slot,        *)
(* although they copy outside the lock.                                    *)
DistinctTargets ==
  \A v, w \in Writers :
    /\ v # w
    /\ InFlight(v) /\ InFlight(w)
    /\ ~target[v].stale /\ ~target[w].stale
    => target[v].slot # target[w].slot

(* The writes the reader was told of and has not read yet stay in their    *)
(* slots: no later put overwrites them while the client walks through its  *)
(* batch, however far the kernel gets in the meantime.  (They may not be   *)
(* there yet: the put of the very write may still be copying.)             *)
ReaderBatchKept ==
  rd.live => \A k \in 0..(rd.left - 1) :
               HoldsOrWillHold((rd.next + k) % MaxWrites, rd.write + k)

(* A write is refused only at the price of the overflow flag, and the flag *)
(* stays up until the reset: userspace always learns that it must scan.    *)
NoSilentRefusal == refused # {} => info.overflown

(* What the ring buffer promises: a bounded queue whose batches are handed *)
(* out whole and in order, with a sticky overflow flag.                    *)
Queue == INSTANCE OverflowQueue WITH
           Writes <- 1..MaxAccepted,
           Capacity <- MaxWrites,
           fresh <- [k \in 1..FreshCount |-> accepted - FreshCount + k],
           held <- HeldCount,
           overflown <- info.overflown

(* The ring buffer and its users implement the overflow queue.             *)
ImplementsQueue == Queue!QueueSpec

(* "is called whenever userpace wants to know location of new writes"      *)
(* (src/kern/ring-buffer.c:133): at the location userspace was told of, it *)
(* finds the write.                                                        *)
ReaderFindsWrite ==
  rd.live /\ rd.left > 0 => slot[rd.next] = [header |-> rd.write, data |-> rd.write]

(* "bitmap to track overflown sectors" (src/kern/main.h:38): once no bio   *)
(* is on its way, every block whose write the buffer refused is marked.    *)
RefusedIsMarked ==
  (\A w \in Writers : pc[w] = "idle") => refused \subseteq bitmap
=============================================================================
