---------------------------- MODULE ServerJournal ----------------------------
(***************************************************************************)
(* The server's journal (src/user/journal/journal.go), the replica it      *)
(* protects and the parts of src/user/server/server.go that use both: the  *)
(* recovery at startup, the journalling of a scan, the application of the  *)
(* journal to the replica, and the direct writes outside of a scan.  The   *)
(* client is the environment: it connects, sends packets and disconnects   *)
(* at any time.                                                            *)
(*                                                                         *)
(* Two devices, each behind a volatile cache: "cache" is what the server   *)
(* reads, "stable" what the last Sync of the device made durable.  A write *)
(* is one step and the Sync that follows it another.  Blocks and buffer    *)
(* writes cover one block of the replica each.                             *)
(***************************************************************************)
EXTENDS JournalLayout, FiniteSets, FiniteSetsExt

CONSTANTS Blocks,     \* blocks of the replica
          Vals,       \* contents of a block
          Blank,      \* contents of a new replica
          Empty,      \* a slot whose Size is 0, see IsValid in networking.go
          Faults      \* what may happen: "process", "power", "io"

ASSUME JournalAssumption ==
  /\ Blank \in Vals
  /\ Empty \notin [blk : Blocks, val : Vals]
  /\ Faults \subseteq {"process", "power", "io"}

VARIABLES
  cache,    \* the devices as the server sees them: header flag, sections, replica
  stable,   \* the devices as a power loss may leave them
  pc,       \* where the server is
  idx,      \* loop index of the replay loops
  offs,     \* WriteOffset and CorrectOffset of the Journal object
  overflow, \* the server is in StateJournalOverflow
  image,    \* history: the replica a reader should find after recovery
  prev,     \* history: the same before the update that is not durable yet
  broken    \* history: the application of a scan's journal failed half-way

vars == <<cache, stable, pc, idx, offs, overflow, image, prev, broken>>

WCount == BufWritesCount
CCount == CorrBlocksCount

Entry == [blk : Blocks, val : Vals]

Device == [valid : BOOLEAN,
           writes : [1..WCount -> Entry \union {Empty}],
           blocks : [1..CCount -> Entry \union {Empty}],
           replica : [Blocks -> Vals]]
BlankReplica == [b \in Blocks |-> Blank]

(* After a failed application no image is promised until the next start.   *)
Promise(replica) == IF broken THEN image ELSE replica
-----------------------------------------------------------------------------
ApplyOne(replica, e) == [replica EXCEPT ![e.blk] = e.val]

(* The last of the first n entries of a section for block b, if any.       *)
LastFor(section, n, b) == Max({0} \union {i \in 1..n : section[i].blk = b})

(* The replica after the first c correct blocks and the first w buffer     *)
(* writes of device d were written to it in this order.                    *)
ReplayOn(replica, d, w, c) ==
  [b \in Blocks |->
     LET i == LastFor(d.writes, w, b)
         j == LastFor(d.blocks, c, b)
     IN IF i # 0 THEN d.writes[i].val ELSE IF j # 0 THEN d.blocks[j].val ELSE replica[b]]

(* FindFirstAvailableBufferWrite and FindFirstAvailableCorrectBlock: the   *)
(* number of entries before the first empty slot; no empty slot is an      *)
(* error.                                                                  *)
HasFree(section) == \E i \in DOMAIN section : section[i] = Empty
FirstAvailable(section) == Min({i \in DOMAIN section : section[i] = Empty}) - 1

(* OpenJournal and CheckJournal: the journal is replayed if both sections  *)
(* have a free slot and the header says it is valid.                       *)
Replayed(d) == HasFree(d.writes) /\ HasFree(d.blocks) /\ d.valid

(* What a restart makes of the devices in state d.                         *)
Recovered(d) ==
  IF Replayed(d)
    THEN ReplayOn(d.replica, d, FirstAvailable(d.writes), FirstAvailable(d.blocks))
    ELSE d.replica

SyncJournal == [stable EXCEPT !.valid = cache.valid, !.writes = cache.writes, !.blocks = cache.blocks]
SyncReplica == [stable EXCEPT !.replica = cache.replica]

(* What a power loss may leave: every piece is the cached or the stable    *)
(* one.                                                                    *)
Mixes(f, g) == {[i \in DOMAIN f |-> IF i \in kept THEN f[i] ELSE g[i]] : kept \in SUBSET DOMAIN f}

Torn ==
  [valid : {cache.valid, stable.valid},
   writes : Mixes(cache.writes, stable.writes),
   blocks : Mixes(cache.blocks, stable.blocks),
   replica : Mixes(cache.replica, stable.replica)]

CrashOutcomes ==
  (IF "process" \in Faults THEN {cache} ELSE {}) \union (IF "power" \in Faults THEN Torn ELSE {})
-----------------------------------------------------------------------------
Init ==
  /\ cache = [valid |-> FALSE, writes |-> [i \in 1..WCount |-> Empty],
              blocks |-> [i \in 1..CCount |-> Empty], replica |-> BlankReplica]
  /\ stable = cache
  /\ pc = "down"
  /\ idx = 0
  /\ offs = [write |-> 0, correct |-> 0]
  /\ overflow = FALSE
  /\ image = BlankReplica
  /\ prev = image
  /\ broken = FALSE

Goto(from, to) == pc = from /\ pc' = to

(* CheckJournal at startup.                                                *)
CheckJournal ==
  /\ Goto("down", IF Replayed(cache) THEN "copy_blocks" ELSE "listen")
  /\ offs' = IF Replayed(cache)
               THEN [write |-> FirstAvailable(cache.writes), correct |-> FirstAvailable(cache.blocks)]
               ELSE offs
  /\ idx' = 1
  /\ UNCHANGED <<cache, stable, overflow, image, prev, broken>>

(* CopyJournalToReplica and WriteJournalToReplica have the same two loops: *)
(* correct blocks without a Sync, then one Sync, then buffer writes with a *)
(* Sync each.  The first replays after a crash, the second ends a scan.    *)
ReplayBlock ==
  /\ pc \in {"copy_blocks", "apply_blocks"}
  /\ idx <= offs.correct
  /\ cache' = [cache EXCEPT !.replica = ApplyOne(@, cache.blocks[idx])]
  /\ idx' = idx + 1
  /\ UNCHANGED <<stable, pc, offs, overflow, image, prev, broken>>

(* Mutant: the Sync after the correct blocks is forgotten.                 *)
SyncReplayedBlocksLazily ==
  /\ \/ Goto("copy_blocks", "copy_writes")
     \/ Goto("apply_blocks", "apply_writes")
  /\ idx > offs.correct
  /\ idx' = 1
  /\ UNCHANGED <<cache, stable, offs, overflow, image, prev, broken>>

SyncReplayedBlocks ==
  /\ \/ Goto("copy_blocks", "copy_writes")
     \/ Goto("apply_blocks", "apply_writes")
  /\ idx > offs.correct
  /\ stable' = SyncReplica
  /\ idx' = 1
  /\ UNCHANGED <<cache, offs, overflow, image, prev, broken>>

ReplayWrite ==
  /\ \/ Goto("copy_writes", "copy_sync")
     \/ Goto("apply_writes", "apply_sync")
  /\ idx <= offs.write
  /\ cache' = [cache EXCEPT !.replica = ApplyOne(@, cache.writes[idx])]
  /\ idx' = idx + 1
  /\ UNCHANGED <<stable, offs, overflow, image, prev, broken>>

SyncReplayedWrite ==
  /\ \/ Goto("copy_sync", "copy_writes")
     \/ Goto("apply_sync", "apply_writes")
  /\ stable' = SyncReplica
  /\ UNCHANGED <<cache, idx, offs, overflow, image, prev, broken>>

(* Invalidate writes the header, then syncs the journal.                   *)
ReplayDone ==
  /\ \/ Goto("copy_writes", "copy_invalid")
     \/ Goto("apply_writes", "apply_invalid")
  /\ idx > offs.write
  /\ cache' = [cache EXCEPT !.valid = FALSE]
  /\ UNCHANGED <<stable, idx, offs, overflow, image, prev, broken>>

SyncReplayDone ==
  /\ \/ Goto("copy_invalid", "listen")
     \/ Goto("apply_invalid", "writing")
  /\ stable' = SyncJournal
  /\ overflow' = FALSE
  /\ UNCHANGED <<cache, idx, offs, image, prev, broken>>

(* Mutant: a new Journal object believes that its sections are empty.      *)
CreateJournalAsEmpty ==
  /\ Goto("listen", "created")
  /\ cache' = [cache EXCEPT !.valid = FALSE]
  /\ offs' = [write |-> 0, correct |-> 0]
  /\ overflow' = FALSE
  /\ UNCHANGED <<stable, idx, image, prev, broken>>

(* HandleClient: CreateJournal makes a new Journal object whose offsets    *)
(* are the section counts, and InitWithoutClearing writes an invalid       *)
(* header.  HandleConnections accepts one client at a time.                *)
CreateJournal ==
  /\ Goto("listen", "created")
  /\ cache' = [cache EXCEPT !.valid = FALSE]
  /\ offs' = [write |-> WCount, correct |-> CCount]
  /\ overflow' = FALSE
  /\ UNCHANGED <<stable, idx, image, prev, broken>>

SyncCreated ==
  /\ Goto("created", "writing")
  /\ stable' = SyncJournal
  /\ UNCHANGED <<cache, idx, offs, overflow, image, prev, broken>>

(* HandleWritePackets in StateWriting: WriteAt, then Sync.                 *)
HandleWritePacket(e) ==
  /\ Goto("writing", "write_sync")
  /\ cache' = [cache EXCEPT !.replica = ApplyOne(@, e)]
  /\ image' = Promise(ApplyOne(image, e))
  /\ UNCHANGED <<stable, idx, offs, overflow, prev, broken>>

SyncWritePacket ==
  /\ Goto("write_sync", "writing")
  /\ stable' = SyncReplica
  /\ prev' = image
  /\ UNCHANGED <<cache, idx, offs, overflow, image, broken>>

(* CmdStartHashing, also while a scan runs: HashDisk calls ResetTo with    *)
(* the current offsets, which invalidates the header, syncs it, and clears *)
(* the used slots without a Sync.                                          *)
StartHashing ==
  /\ \/ Goto("writing", "reset_invalid")
     \/ Goto("hashing", "reset_invalid")
  /\ cache' = [cache EXCEPT !.valid = FALSE]
  /\ overflow' = FALSE
  /\ UNCHANGED <<stable, idx, offs, image, prev, broken>>

SyncReset ==
  /\ Goto("reset_invalid", "reset_clear")
  /\ stable' = SyncJournal
  /\ UNCHANGED <<cache, idx, offs, overflow, image, prev, broken>>

Cleared(section, n) == [i \in DOMAIN section |-> IF i <= n THEN Empty ELSE section[i]]

ResetTo ==
  /\ Goto("reset_clear", "hashing")
  /\ cache' = [cache EXCEPT !.writes = Cleared(@, offs.write), !.blocks = Cleared(@, offs.correct)]
  /\ offs' = [write |-> 0, correct |-> 0]
  /\ UNCHANGED <<stable, idx, overflow, image, prev, broken>>

(* HandleJournalPackets: an entry goes to the slot at the offset, or the   *)
(* server enters StateJournalOverflow and skips the later packets.         *)
WriteCorrectBlock(e) ==
  /\ Goto("hashing", "block_sync")
  /\ ~overflow
  /\ offs.correct < CCount
  /\ cache' = [cache EXCEPT !.blocks[offs.correct + 1] = e]
  /\ UNCHANGED <<stable, idx, offs, overflow, image, prev, broken>>

(* Mutant: index > bufWritesCount instead of index >= bufWritesCount.      *)
WriteBufferWritePastEnd(e) ==
  /\ Goto("hashing", "entry_sync")
  /\ ~overflow
  /\ offs.write <= WCount
  /\ cache' = [cache EXCEPT !.writes[offs.write + 1] = e]
  /\ UNCHANGED <<stable, idx, offs, overflow, image, prev, broken>>

WriteBufferWrite(e) ==
  /\ Goto("hashing", "entry_sync")
  /\ ~overflow
  /\ offs.write < WCount
  /\ cache' = [cache EXCEPT !.writes[offs.write + 1] = e]
  /\ UNCHANGED <<stable, idx, offs, overflow, image, prev, broken>>

SyncEntry ==
  /\ \/ Goto("block_sync", "hashing") /\ offs' = [offs EXCEPT !.correct = @ + 1]
     \/ Goto("entry_sync", "hashing") /\ offs' = [offs EXCEPT !.write = @ + 1]
  /\ stable' = SyncJournal
  /\ UNCHANGED <<cache, idx, overflow, image, prev, broken>>

JournalOverflow ==
  /\ pc = "hashing"
  /\ ~overflow
  /\ offs.correct >= CCount \/ offs.write >= WCount
  /\ overflow' = TRUE
  /\ UNCHANGED <<cache, stable, pc, idx, offs, image, prev, broken>>

(* InfoHashingCompleted: HandleJournalWriting validates the header and     *)
(* applies the journal, in StateJournalOverflow as well.                   *)
HashingCompleted ==
  /\ Goto("hashing", "validate_sync")
  /\ cache' = [cache EXCEPT !.valid = TRUE]
  /\ image' = Promise(ReplayOn(image, cache, offs.write, offs.correct))
  /\ UNCHANGED <<stable, idx, offs, overflow, prev, broken>>

(* Mutant: Validate does not wait for the header to reach the device.      *)
SyncValidateLazily ==
  /\ Goto("validate_sync", "apply_blocks")
  /\ idx' = 1
  /\ prev' = image
  /\ UNCHANGED <<cache, stable, offs, overflow, image, broken>>

SyncValidate ==
  /\ Goto("validate_sync", "apply_blocks")
  /\ stable' = SyncJournal
  /\ idx' = 1
  /\ prev' = image
  /\ UNCHANGED <<cache, offs, overflow, image, broken>>

(* WriteJournalToReplica returns at the first failed read or write; the    *)
(* server reports the error and goes on in StateWriting.                   *)
ApplyFails ==
  /\ "io" \in Faults
  /\ \/ Goto("apply_blocks", "writing") /\ idx <= offs.correct
     \/ Goto("apply_writes", "writing") /\ idx <= offs.write
  /\ overflow' = FALSE
  /\ broken' = TRUE
  /\ image' = BlankReplica /\ prev' = BlankReplica
  /\ UNCHANGED <<cache, stable, idx, offs>>

(* The client disconnects; the main loop leaves at its next read.          *)
Disconnect ==
  /\ \/ Goto("writing", "listen")
     \/ Goto("hashing", "listen")
  /\ overflow' = FALSE
  /\ UNCHANGED <<cache, stable, idx, offs, image, prev, broken>>

(* The process or the machine stops, at any point.                         *)
Crash ==
  /\ pc # "down"
  /\ pc' = "down"
  /\ \E d \in CrashOutcomes : cache' = d /\ stable' = d
  /\ overflow' = FALSE
  /\ image' = Recovered(cache')
  /\ prev' = image'
  /\ broken' = FALSE
  /\ idx' = 0
  /\ offs' = [write |-> 0, correct |-> 0]

Next ==
  \/ CheckJournal \/ CreateJournal \/ SyncCreated
  \/ \E e \in Entry : HandleWritePacket(e) \/ WriteCorrectBlock(e) \/ WriteBufferWrite(e)
  \/ SyncWritePacket \/ SyncEntry \/ JournalOverflow
  \/ StartHashing \/ SyncReset \/ ResetTo
  \/ HashingCompleted \/ SyncValidate
  \/ ReplayBlock \/ SyncReplayedBlocks \/ ReplayWrite \/ SyncReplayedWrite
  \/ ReplayDone \/ SyncReplayDone
  \/ ApplyFails \/ Disconnect \/ Crash

Spec == Init /\ [][Next]_vars
-----------------------------------------------------------------------------
PCs == {"down", "listen", "created", "writing", "write_sync",
        "reset_invalid", "reset_clear", "hashing", "block_sync", "entry_sync",
        "validate_sync", "apply_blocks", "apply_writes", "apply_sync", "apply_invalid",
        "copy_blocks", "copy_writes", "copy_sync", "copy_invalid"}

(* The devices hold what the layout says and the offsets stay inside the   *)
(* sections: index >= bufWritesCount and index >= corrBlocksCount are the  *)
(* errors of journal.go, never a write outside a section.                  *)
TypeOK ==
  /\ cache \in Device
  /\ stable \in Device
  /\ pc \in PCs
  /\ idx \in 0..(WCount + 1) \union 0..(CCount + 1)
  /\ offs \in [write : 0..WCount, correct : 0..CCount]
  /\ overflow \in BOOLEAN
  /\ image \in [Blocks -> Vals]
  /\ prev \in [Blocks -> Vals]
  /\ broken \in BOOLEAN

(* Whatever the devices look like after a stop at this very moment, the    *)
(* restart (CheckJournal, CopyJournalToReplica) turns the replica into the *)
(* last image that was complete: a scan is applied as a whole or not at    *)
(* all, and no acknowledged single write is undone.                        *)
Recoverable == \A d \in CrashOutcomes : Recovered(d) \in {prev, image}

(* The same while the header is not valid or the valid journal holds at    *)
(* least one entry and a free slot in each section: the cases OpenJournal  *)
(* reads back.  Since the start no application of a journal failed half-way *)
(* (WriteJournalToReplica): the server goes on with a header that is still *)
(* valid.                                                                  *)
RecoverableUnlessFull ==
  /\ ~broken
  /\ cache.valid => /\ HasFree(cache.writes) /\ HasFree(cache.blocks)
                    /\ offs.write + offs.correct > 0 \/ pc = "down"
  => Recoverable

(* A journal that ran out of slots is an incomplete scan and is not        *)
(* applied to the replica: documentation.md says the journal keeps the     *)
(* replica in a prefix consistent state at all times.                      *)
OverflownScanNotApplied ==
  overflow => pc \notin {"validate_sync", "apply_blocks", "apply_writes", "apply_sync", "apply_invalid"}

Applying == {"apply_blocks", "apply_writes", "apply_sync"}
Copying == {"copy_blocks", "copy_writes", "copy_sync"}

(* The replica is changed by a replay only once the whole journal, header  *)
(* included, is durable: Validate before the loops of                      *)
(* WriteJournalToReplica, Invalidate after them.  It holds whatever fails. *)
WriteAhead ==
  pc \in Applying \union Copying =>
    /\ stable.valid
    /\ stable.writes = cache.writes
    /\ stable.blocks = cache.blocks

(* The replay at the end of a scan and a replay after a crash in the       *)
(* middle of it work on the same entries: the counters WriteOffset and     *)
(* CorrectOffset agree with the first empty slots OpenJournal finds.       *)
ReplaysAgree ==
  pc \in Applying /\ HasFree(stable.writes) /\ HasFree(stable.blocks) =>
    /\ offs.write = FirstAvailable(stable.writes)
    /\ offs.correct = FirstAvailable(stable.blocks)

(* A scan that found no difference and met no write leaves the replica     *)
(* alone, also if the machine stops while Validate writes the header.  The *)
(* slots ResetTo cleared are not durable yet at that point.                *)
EmptyScanChangesNothing ==
  pc = "validate_sync" /\ offs.write = 0 /\ offs.correct = 0 => Recoverable
=============================================================================
