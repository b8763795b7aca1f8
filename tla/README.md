# A verification of BDR in TLA+

BDR replicates a block device to another machine. A device-mapper target in the
kernel copies every write into a ring buffer shared with userspace; the client
daemon sends the writes to the server, which applies them to the replica. When
the ring buffer overflows, after a reconnection and at startup, the client and the
server compare the devices by hashes and repair the differences through a journal,
so that the replica is always a state the source once had. A full scan and a full
replication do the same without the journal.

## Parts of the system

| part | source | module | state of the model |
|---|---|---|---|
| ring buffer | `kern/ring-buffer.c` | `BdrRingBuffer`, `OverflowQueue` | modelled |
| device-mapper map | `kern/main.c` 372-444 | `BdrRingBuffer`, `ReplicationState` | modelled |
| overflow bitmap | `kern/bitmap.c` | `BdrRingBuffer` | set and read-and-clear; sizes not |
| character device | `kern/main.c` 99-206 | `BdrRingBuffer` | READ_BUFFER_INFO, RESET_BUFFER, read |
| target construction and removal | `kern/main.c` 222-367 | none | not modelled |
| client monitor, listener, hash workers, reconnection, replication | `user/client/client.go` | `ReplicationClient` | modelled |
| pause controller | `user/pause/pause.go` | `PauseController` | modelled |
| server sessions, main loop and queue workers | `user/server/server.go` | `ReplicationServer` | modelled |
| hashing of the disk | `server.go` 202-395 | `HashDisk` | modelled |
| journal and recovery | `user/journal/journal.go`, `server.go` 618-709, 1025-1075 | `ServerJournal`, `JournalLayout` | modelled |
| packets | `user/networking/networking.go` | `ReplicationState` | order and loss; encoding not |
| ioctl wrappers, configuration, utilities | `user/client/ioctl.go`, `config.go`, `user/utils` | `ReplicationState` | the flags for the first scan only |
| benchmark statistics | `user/benchmark` | none | nothing depends on them |

`PROJECT.json` lists the same parts, the lines each definition stands for, and the
hazards of the code, each with the properties that would catch it.

How the modules fit together:

    applications -> BdrRingBuffer ==implements==> OverflowQueue
                                                      | used by
    PauseController (its calls as steps) ---> ReplicationState/Client/Server = Replication
    HashDisk (its outcome) -------------------------^        ^
    JournalLayout -> ServerJournal (two lists applied as a whole)

## Modules

**`BdrRingBuffer`** has any number of kernel threads in `bdr_target_map`. `info`
is `buffer_info`; whatever the spinlock protects is one step. `bdr_ring_buffer_put`
is three: the locked part (`PutReserved` or `PutRefused`) and, after the unlock, the
copy of the header and of the data. `bdr_buffer_read_routine` and
`bdr_ring_buffer_reset` come from userspace at any time; `ReadSlot` is the client
walking through its batch. A put whose slot was released before it finished
copying is *stale*, and the slots such a put wrote to are *stained*; the
properties about contents do not speak of stained slots, because there the code
gives no guarantee (see `ReaderFindsWrite` below for the simplest case).

**`OverflowQueue`** is what the ring buffer promises: a bounded queue whose batches
are handed out whole and in order, and an overflow flag that only a reset lowers.
`BdrRingBuffer` implements it (`ImplementsQueue`: `fresh` are the writes accepted
and not handed out, `held` the distance from `last` to `offset`), and
`ReplicationState` uses it in place of the ring.

**`PauseController`** has the lock, the one-place channel and one waiter, as the
client has: only the monitor calls `IsPaused` and `WaitIfPaused`.

**`HashDisk`** is the pipeline of goroutines of one scan: a generator, three pools
(readers, hashers, senders) and the channels between them. The goroutines of a pool
are alike, so a pool is a number and the chunks in its hands. Reads fail, the scan is
terminated and the connection breaks at any time. A send on a closed channel is a
panic, after which nothing runs.

**`JournalLayout`** is the arithmetic of `NewJournal` in bytes: the header, the
section of buffer writes, as large as the ring buffer of the client, and the section
of correct blocks that takes the rest.

**`ServerJournal`** takes its numbers of slots from `JournalLayout` and has two
devices behind write caches. `cache` is what the server reads, `stable` what a Sync
made durable; each write and each Sync is a step. A process crash leaves `cache`; a
power loss leaves, for every slot, block and the header separately, the cached or the
stable contents. Entries and blocks are atomic: a tear inside a 4 KiB write or a
256 KiB block is not modelled. The client is the environment. `image` is what a
recovery should produce, `prev` what it should have produced before the update that
is not durable yet. With `"io"` among the faults the application of a scan may fail
half-way; the server goes on with a valid header, and until the next start (`broken`)
no image is promised.

**`ReplicationState`, `ReplicationClient`, `ReplicationServer`, `Replication`** are
the whole system: the applications, the ring (as `OverflowQueue`), every goroutine of
the client and of the server with the bounded channels between them, and the
connections. Contents are numbers of writes. A connection is two bounded sequences;
when it breaks, each side still receives some prefix of what was on its way, and the
listener dials the next one. The server may be killed and started again. Each
goroutine's program counter is a field of its variable (`mon`, `lis`, `failer`,
`repl`, `main`, `hasher`, `writer`), and a blocked channel or connection is a guard.
`writeQueue` and `correctQueue` are kept per session because their workers are not
waited for (`wg.Done` is the first statement of both). The journal is two bounded
lists applied in one step, and `HashDisk` is its outcome. Applications do not have
two writes to one block in flight. The history variables record what a scan cannot
promise; see `PrefixConsistent`.

Mutated forms of definitions stand before them, marked "Mutant"; nothing uses them.

## Runs

| run | bounds | states | what it shows |
|---|---|---|---|
| `ring` | 2 threads, 3 slots, 4 accepted writes, bios of 1 and 2 segments | 1.3 M | `DistinctTargets`, `ReaderBatchKept`, `NoSilentRefusal`, `ImplementsQueue` |
| `pause` | 6 calls | 234 | `LastCommandObeyed`, `CallsReturn`, `ResumeArrives` |
| `journal` | 2 blocks, 2 values, 3+2 slots, process crash, power loss, I/O errors | 1.7 M | `RecoverableUnlessFull`, `WriteAhead`, `ReplaysAgree` |
| `hash_disk` | 4 chunks, 2 goroutines per pool | 0.6 M | `EveryChunkOnce`, `ScanComplete`, `NoPanic`, `Returns`, `NoGoroutineLeft` |
| `scan` | 2 blocks, 3 writes, 3 ring slots, 3+3 journal slots, 1 session | 3.2 M | `PrefixConsistent`, `Converged`, `MonitorNotInterrupted` |
| `rest` | 1 block, 2 writes, 2 ring slots, 1+1 journal slots, all four ways to start, 1 failing read, clients that are refused | 0.6 M | `ComesToRest`, `Converged` |
| `session` | 2 blocks, 2 writes, 3 ring slots, 2+2 journal slots, queues of 1, 1 break or restart | 2.4 M | `PrefixConsistent`, `Converged` |
| `recover` | 1 block, 1 write, 1 break or restart, clients that are refused | 0.2 M | `RecoversFromBreak` |

Each module's `TypeOK` is checked in one run as well; in `Replication` it bounds every
queue, connection and journal section.

Why the bounds are enough. Four accepted writes make the ring of three slots wrap
around with a batch still held; two threads are enough for two copies outside the lock
to meet. Two blocks are the fewest that can be inconsistent with each other, and
three writes give an old, a lost and a newer one. Three ring slots take two writes, so
three writes overflow it; in `rest` two slots take one. Two values tell an old block
from a new one. Crashes in `ServerJournal` are not bounded. Four chunks are more than
the two places of a channel and the two goroutines of a pool can each hold, so that
every pool has to wait for the next. One break leads to a second session next to the
workers and packets of the first. `session` starts with equal devices, because after
the break a scan follows anyway. The queues of `scan` never fill; those of `rest`,
`session` and `recover` have one place.

Larger instances were run once: `session` with two ring slots and 1+1 journal slots
(37.6 M states, depth 91, 20 minutes), and the journal without symmetry (3.4 M).

Deadlock is checked in `ring` and `journal`. `pause` stops when the calls are used up
and the waiter returned, `hash_disk` when all returned or a panic ended it, and the
runs of `Replication` when the client stopped or the writes are used up.

Four more runs show where the code does not do what a document or a comment says.
Each finding in `PROJECT.json` quotes the line.

| run | property | what happens |
|---|---|---|
| `ring_reader` | `ReaderFindsWrite` | a location is handed out before the write was copied to it |
| `journal_full` | `Recoverable` | a valid journal with a full section is not replayed |
| `reconnect` | `ReconnectsIfNecessary` | a listener that sends when the connection breaks retries for ever; nobody reconnects |
| `overflow_deadlock` | `OverflowStopsClient` | with all queues and both directions full, journal worker, main loop, hash workers and listener wait for each other |

`overflow_deadlock` is the one run in which connections fill up (`Window` is 1; it
stands for the socket buffers). In the other liveness runs `Window` is 8, which their
few packets never fill: what they show holds as long as the connections have room.

### Stronger statements that do not hold

The properties above leave some cases out, each because TLC refutes the statement
without the exception. The statements are in the modules; put one in place of the
`INVARIANTS` of the cfg named to see the behaviour.

- `ScanRecoversStraddlingWrites` (`ReplicationScan.cfg`): a write that is past the
  ring and not on the device when `StartHashing` resets the ring is lost if the block
  is read before it arrives.
- `PrefixConsistentWithQueuedWrites` (`ReplicationScan.cfg`): a write that left the
  server's queue before the scan is written after it and undoes a newer one.
- `ScanRepairs` (`ReplicationScan.cfg`): the completion of one scan cuts the next one
  short, which was requested by the monitor after it was resumed.
- `FullScanConverges` (`ReplicationRest.cfg`): the state is `StateWriting` again while
  `correctQueue` still holds older blocks.
- `OverflownScanNotApplied` (`MCServerJournal.cfg`): an overflown, incomplete journal is
  applied.
- `EmptyScanChangesNothing` (`MCServerJournal.cfg`): `ResetTo` clears slots without a
  Sync; if the scan adds no entry, a power loss while the valid header is written may
  bring entries of an earlier scan back.
- `RefusedIsMarked` (`MCBdrRingBuffer.cfg`): the write that raises the overflow flag is
  dropped without a bit in the overflow bitmap.

`PrefixConsistent` and `Converged` excuse the blocks of exactly the writes concerned
(`straddling`, `snatched`, `rewound`, `stray`, `dropped`) and promise nothing after a
scan that was cut short, overflowed or saw a second reset (`synced`). So within the
bounds there is no further way to diverge. `RecoverableUnlessFull` leaves out a valid
journal with a full section or without entries, and the time after a failed
application. `RecoversFromBreak` leaves out a running `InitReplication`, which goes on
into the next session, where nobody takes its blocks out of the queue.

## Fairness

`Replication`: every goroutine that can go on does (the Go scheduler), a connection that
is up delivers, the device completes its writes. Applications need not write, and
nothing has to break or fail. Fairness is weak and per goroutine: a goroutine that waits
for room or for a packet is not enabled, and one that can go on stays able to until it
does: each queue has one taker, and where several goroutines send on one connection it
has room for all their packets in these runs. A pool of workers counts as one goroutine;
it has a few packets to handle before it must wait for more, so none of its members is
passed over for ever. `HashDisk`: weak fairness per pool, for the same
reason. `PauseController`: a call that holds the lock goes on, and the waiter comes back
to `WaitIfPaused`, as the loop of `MonitorChanges` does; no fairness is assumed of
`Pause`, `Resume` or the termination. `BdrRingBuffer` and `ServerJournal` have no
liveness properties and no fairness.

## Proofs

All proofs hold for every value of the constants that satisfies the named assumptions.

**Ring buffer** (`BdrRingBufferProofs`): `TypeOK`, `NoSilentRefusal`, `DistinctTargets`
and `ReaderBatchKept`, for any set of writers, any buffer size, any bios and any bound
on the accepted writes, from `MaxWrites > 0` (`bdr_ring_buffer_init` rejects 0) and
non-empty bios. None of the last three is inductive. The invariant `IInv` adds:

- `Bounded`: batch and fresh writes fill the buffer exactly when it is overflown;
- `TargetsOwned`, `TargetWritesDistinct`: the i-th reserved slot after `last` belongs
  to the i-th reserved write, a live put copies its own write into that slot, and no
  two puts copy the same write;
- `HeaderCopied`, `Contents`: every reserved slot holds or is about to hold its write;
- `ReaderInBatch`: what the reader has left is the end of the batch held.

Distinctness of slots is then arithmetic modulo `MaxWrites` (`SlotOfDistinct`).

**Refinement** (`BdrRingBufferRefinement`): `RingImplementsQueue`, that is
`Spec => ImplementsQueue`. Every step of the ring is one of the queue or leaves it
unchanged: the locked part of a put is `Accept` or `Refuse`, the read routine `Take`
(or nothing, if the buffer is overflown), the reset `Discard`, and all copying a stutter.
`Bounded` tells that the ring refuses exactly when the queue is `Full`. The composed
model therefore rests on the abstraction by proof, not by one instance.

**Pause controller** (`PauseControllerProofs`): `TypeOK` and `LastCommandObeyed` for any
number of calls. The strengthening is that the channel is empty between a drain and the
send that follows, and while `IsPaused` holds the state it took.

**Hashing** (`HashDiskProofs`): `TypeOK`, `EveryChunkOnce`, `ScanComplete` and `NoPanic`
for any finite set of chunks and any positive number of goroutines. `ScanComplete` and
`NoPanic` need to know why a pool can be gone: each reader that returned did so because
the tasks ran out, the scan was terminated or a read of its own failed (`ReadersGone`),
failed chunks go past the hashers (`FailedPastHashers`), and a channel is closed only
when the pool before it is gone and what it held was taken (`ClosedInOrder`).

**Layout** (`JournalLayoutProofs`): `SlotsApart` for all sizes `NewJournal` accepts (a fact
about constants, so there is no run for it); and
with the sizes of the code, 4104 bytes for a write in the ring and 4108 in the journal,
the section has a slot for every write a full ring holds (`max_writes - 1`) if and only
if `max_writes` is at most 1027 (`RingFitsJournal`).

**Journal** (`ServerJournalProofs`): `TypeOK`, `WriteAhead`, `ReplaysAgree` and
`RecoverableUnlessFull` for any layout, replica and contents, with all faults. `IInv`
says, for each place the server may be at: which slots are used (`SlotsInv`: exactly
those below the offsets, or none above them), how far the replay is (`IndexInv`), whether
the header is valid and what is durable (`HeaderInv`, `UnbrokenHeaderInv`), and that
replaying the whole journal on the cached or on the stable replica, in whatever part it
was applied, gives `image` (`ImageInv`). The core is that a replay started again from the
beginning on a partly replayed replica ends in the same image, block by block, also if a
power loss kept some of its blocks and lost others.

Only model-checked: all properties of `Replication`; and all liveness (`CallsReturn`,
`ResumeArrives`, `Returns`, `NoGoroutineLeft`, `ComesToRest`, `RecoversFromBreak`),
since the prover handles neither fairness nor ENABLED. It has no induction over data
either; no definition here is recursive, and the replay of a journal is stated by the
last entry for each block rather than by a fold.

## Not modelled, and why

- Construction and removal of targets, minor numbers, `mmap`: run once per target under
  the device mapper's locks and share no state with the data path.
- The sizes and bit indices of the overflow bitmap, 32-bit sectors: the models name
  blocks. The client never reads the bitmap.
- The bytes of the gob stream. The read deadline of 500 ms may expire inside a packet,
  after which the decoder starts in the middle of it; packets are whole here.
- The `HashInfo` of Size 0 that follows a failed read of the replica, and the correct
  block of Size 0 the client makes of it. `HashDisk` counts it as sent.
- A reader of `HashDisk` that reads nothing and returns (`n == 0`): sizes were checked
  to be equal, so no chunk starts past the end.
- Failing writes of single packets to the replica (`HandleWritePackets` retries for
  ever). A failing application of the journal is in `ServerJournal`, where the
  `ErrJournalOverflow` sent to the client is not, since the client is the environment.
- Full scans and full replications in `ServerJournal`: they do not touch the journal.
- The orderly shutdown on a signal: it waits for the sessions and then is a kill.
- Two writes of applications to one block at once: the order in which they reach the
  device is not the order of the ring, and nothing in the code decides between them.
- The first error on a dead connection may be another than `io.EOF`; it is retried, and
  the next read returns `io.EOF`. Only the outcome is modelled.
- Packet encoding, memory mapping, flag parsing, logging and statistics.
