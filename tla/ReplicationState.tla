--------------------------- MODULE ReplicationState ---------------------------
(***************************************************************************)
(* The state shared by the modules that model the client, the server and   *)
(* the connections between them, the initial states, and the applications  *)
(* that write to the source through the kernel target.                     *)
(*                                                                         *)
(* The kernel's ring buffer is its abstraction OverflowQueue, which        *)
(* BdrRingBuffer implements; the journal is what ServerJournal makes of it *)
(* without a crash while it is applied: two bounded lists applied as a     *)
(* whole.  Write n is the n-th write any application issued, and the       *)
(* contents of a block are the number of its last write.  Applications do  *)
(* not have two writes to the same block on their way at once.             *)
(*                                                                         *)
(* Connection k is the k-th the client dialled.  Nothing is lost on it     *)
(* until it breaks; then each side still receives some prefix of what was  *)
(* on its way.                                                             *)
(***************************************************************************)
EXTENDS Integers, Sequences, FiniteSets, FiniteSetsExt, Functions

CONSTANTS Blocks,       \* blocks of the source and of the replica
          MaxWrites,    \* max_writes of the ring buffer
          WCount,       \* slots for buffer writes in the journal
          CCount,       \* slots for correct blocks in the journal
          Starts,       \* how the client may be started: "none" (--no-replication),
                        \* "scan" (the default), "full" (--full-scan),
                        \* "replicate" (--full-replication)
          Fits,         \* whether sizes and journal fit (WaitForInitInfo,
                        \* CheckValidSizes, CreateJournal): a set of Booleans
          Differs,      \* whether a block of the replica differs from the source
                        \* before the first scan: a set of Booleans
          QueueSize,    \* packets a channel between two goroutines holds
          Window,       \* packets a connection holds in each direction
          Workers,      \* goroutines of a worker pool
          MaxIssued,    \* bound: writes the applications issue
          MaxBreaks,    \* bound: times a connection breaks or the server dies
          MaxErrors     \* bound: times a read of the source fails

(* A connection has room for the first packet.                             *)
ASSUME ConstantsAssumption ==
  /\ MaxWrites \in Nat /\ WCount \in Nat /\ CCount \in Nat
  /\ QueueSize \in Nat /\ Window \in Nat \ {0} /\ Workers \in Nat
  /\ Starts \subseteq {"none", "scan", "full", "replicate"}
  /\ Fits \subseteq BOOLEAN /\ Differs \subseteq BOOLEAN
  /\ MaxIssued \in Nat /\ MaxBreaks \in Nat /\ MaxErrors \in Nat

VARIABLES
  log,        \* history: the block of each write issued, in the order of the puts
  flying,     \* the write to each block that passed the ring, not the device yet
  source,     \* contents of the source device
  fresh, held, overflown,     \* the ring buffer
  c2s, s2c,   \* packets on their way on each connection
  link,       \* whether each connection is not dialled yet, up, or dead
  cur,        \* the connection of the client's Encoder and Decoder
  cstate,     \* the client's state
  pause,      \* the state in the PauseController's channel, if any
  mon,        \* MonitorChanges: where it is, its batch or the request it makes
  lis,        \* ListenPackets: the same
  hashQueue,  \* hash packets the InitHashing workers have still to handle
  compared,   \* correct blocks the InitHashing workers have still to send
  failer,     \* an InitHashing worker that restarts the scan
  repl,       \* InitReplication: where it is, blocks to read and to send
  fits,       \* what CheckValidSizes and CreateJournal find
  ses,        \* the connection the server serves
  state,      \* the server's state
  main,       \* HandleConnections and HandleClient: where they are
  hasher,     \* HashDisk: where it is, the blocks to hash, its scan
  journalQueue, jWrites, jBlocks,   \* the journal and its queue
  writeQueue, writer,     \* per session: HandleWritePackets' queue and packet
  correctQueue,           \* per session: HandleCorrectPackets' queue
  replQueue, replOn,      \* HandleReplicationPackets' queue, whether it runs
  replica,    \* contents of the replica
  resets,     \* history: for each reset of the ring buffer, the blocks with a
              \* write on its way to the device (straddling) and those of the
              \* writes the monitor read before the scan was completed
              \* (snatched); the scan requested after the n-th reset is scan n
  current,    \* history: the scan the server was asked for last, whether it
              \* was cut short by the completion of another one, and
              \* whether it was completed
  synced,     \* history: what the last completed scan promises: nothing, a
              \* replica that converges, or one that is a prefix as well
  finished,   \* history: the scan the client completed last
  straddling, snatched,   \* history: the same blocks for the scan applied last
  rewound,    \* history: blocks to which a packet received before the last
              \* scan was applied after it; the same since they were hashed
  stray,      \* history: blocks of packets read before the reset of the scan
              \* they arrived in: in its journal, and applied
  dropped,    \* history: blocks of which a packet was thrown away
  breaks, errors      \* what the bounds count

Conns == 0..MaxBreaks

app == <<log, flying, source>>
ring == <<fresh, held, overflown>>
net == <<c2s, s2c, link, cur>>
workers == <<hashQueue, compared, failer, repl>>
client == <<cstate, pause, mon, lis, workers>>
journal == <<journalQueue, jWrites, jBlocks>>
direct == <<writeQueue, writer, correctQueue, replQueue, replOn>>
server == <<fits, ses, state, main, hasher, journal, direct, replica>>
excuses == <<straddling, snatched, rewound, stray, dropped>>
history == <<resets, finished, current, synced, excuses>>
bounds == <<breaks, errors>>
vars == <<app, ring, net, client, server, history, bounds>>

Ring == INSTANCE OverflowQueue WITH Writes <- 1..MaxIssued, Capacity <- MaxWrites

None == 0
Unknown == -1        \* contents of a replica block that was never replicated,
                     \* and the scan of a session that was not asked for one
epoch == Len(resets)
NoScan == [scan |-> Unknown, cut |-> FALSE, applied |-> FALSE]

(* What the client sends first on each connection (SendInitPacket).        *)
InitInfo == [type |-> "InfoInit"]

(* NewClient dialled; main sent the InitInfo.                              *)
NewClient ==
  /\ c2s = [k \in Conns |-> IF k = 0 THEN <<InitInfo>> ELSE <<>>]
  /\ s2c = [k \in Conns |-> <<>>]
  /\ link = [k \in Conns |-> IF k = 0 THEN "up" ELSE "none"]
  /\ cur = 0
  /\ cstate = "Writing" /\ pause = "empty"

NewServer == ses = -1 /\ state = "Disconnected" /\ main = "accept"

(* Run first starts the scan the flags ask for, on any replica, and then   *)
(* the listener; without a scan the replica is one that equals the source. *)
Init ==
  /\ log = <<>>
  /\ flying = [b \in Blocks |-> None]
  /\ source = [b \in Blocks |-> 0]
  /\ Ring!QueueInit
  /\ NewClient
  /\ hashQueue = {} /\ compared = {}
  /\ failer = [pc |-> "none", tag |-> 0]
  /\ repl = [pc |-> "off", todo |-> {}, read |-> {}, tag |-> 0]
  /\ NewServer
  /\ fits \in Fits
  /\ hasher = [pc |-> "idle", todo |-> {}, scan |-> 0]
  /\ journalQueue = <<>> /\ jWrites = <<>> /\ jBlocks = <<>>
  /\ writeQueue = [k \in Conns |-> <<>>] /\ writer = [k \in Conns |-> <<>>]
  /\ correctQueue = [k \in Conns |-> <<>>]
  /\ replQueue = <<>> /\ replOn = FALSE
  /\ resets = <<>> /\ finished = 0
  /\ straddling = {} /\ snatched = {}
  /\ rewound = [now |-> {}, applied |-> {}]
  /\ stray = [now |-> {}, applied |-> {}]
  /\ dropped = {}
  /\ breaks = 0 /\ errors = 0
  /\ \E start \in Starts :
       IF start = "none"
         THEN /\ mon = [pc |-> "wait", batch |-> <<>>, tag |-> 0, kind |-> "scan"]
              /\ lis = [pc |-> "receive", batch |-> <<>>, tag |-> 0, read |-> 0]
              /\ replica = source
              /\ synced = "prefix"
              /\ current = [NoScan EXCEPT !.scan = 0]
         ELSE /\ mon = [pc |-> "reset", batch |-> <<>>, tag |-> 0, kind |-> start]
              /\ lis = [pc |-> "starting", batch |-> <<>>, tag |-> 0, read |-> 0]
              /\ replica \in [Blocks -> {IF d THEN Unknown ELSE 0 : d \in Differs}]
              /\ synced = "no"
              /\ current = NoScan
-----------------------------------------------------------------------------
(* bdr_target_map: the write goes to the ring buffer, which takes or       *)
(* refuses it, and then to the device.                                     *)
IssueWrite(b) ==
  /\ Len(log) < MaxIssued
  /\ flying[b] = None
  /\ log' = Append(log, b)
  /\ flying' = [flying EXCEPT ![b] = Len(log')]
  /\ Ring!Accept(Len(log')) \/ Ring!Refuse
  /\ UNCHANGED <<source, net, client, server, history, bounds>>

CompleteWrite(b) ==
  /\ flying[b] # None
  /\ source' = [source EXCEPT ![b] = flying[b]]
  /\ flying' = [flying EXCEPT ![b] = None]
  /\ UNCHANGED <<log, ring, net, client, server, history, bounds>>

Applications == \E b \in Blocks : IssueWrite(b) \/ CompleteWrite(b)
-----------------------------------------------------------------------------
(* A send on a connection that is up waits for room; one on a dead         *)
(* connection fails with an error IsConnectionClosed knows.  A receive on  *)
(* it fails as well; whatever the first error is, the next one is io.EOF.  *)
Room(queue, k) == link[k] = "up" /\ Len(queue[k]) < Window
Dead(k) == link[k] = "dead"

(* A connection breaks: a prefix of what is on its way still arrives.      *)
Break(k) ==
  /\ link[k] = "up" /\ breaks < MaxBreaks
  /\ breaks' = breaks + 1
  /\ link' = [link EXCEPT ![k] = "dead"]
  /\ \E m \in 0..Len(c2s[k]), n \in 0..Len(s2c[k]) :
       /\ c2s' = [c2s EXCEPT ![k] = SubSeq(@, 1, m)]
       /\ s2c' = [s2c EXCEPT ![k] = SubSeq(@, 1, n)]
  /\ UNCHANGED <<app, ring, cur, client, server, history, errors>>
=============================================================================
