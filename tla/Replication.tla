----------------------------- MODULE Replication -----------------------------
(***************************************************************************)
(* The whole system: the applications, the client daemon, the connections, *)
(* which may break, and the server daemon, which may be restarted; and     *)
(* what it is to guarantee about the replica.                              *)
(***************************************************************************)
EXTENDS ReplicationClient, ReplicationServer

Next ==
  \/ Applications
  \/ Client
  \/ Server
  \/ (\E k \in Conns : Break(k)) \/ ServerRestart

(* Every goroutine that can go on is scheduled again, the network delivers *)
(* what was sent on a connection that does not break, and the device       *)
(* completes the writes it was given.  Applications need not write, and    *)
(* nothing has to fail.                                                    *)
Fairness ==
  /\ \A b \in Blocks : WF_vars(CompleteWrite(b))
  /\ WF_vars(Monitor)
  /\ WF_vars(Listener)
  /\ WF_vars(InitHashing)
  /\ WF_vars(InitReplication)
  /\ WF_vars(MainLoop)
  /\ WF_vars(HashDisk)
  /\ WF_vars(HandleJournalPacket)
  /\ WF_vars(HandleReplicationPacket)
  /\ \A k \in Conns : WF_vars(WritePackets(k)) /\ WF_vars(HandleCorrectPacket(k))

Spec == Init /\ [][Next]_vars
FairSpec == Spec /\ Fairness
-----------------------------------------------------------------------------
Issued == 1..Len(log)
Contents == 0..Len(log)
Scan == Nat \union {Unknown}

WritePacket == [type : {"BufferWrite"}, write : Issued, tag : Nat]

BlockPacket ==
  [type : {"CorrectBlock", "ReplicationBlock"}, blk : Blocks, val : Contents, tag : Nat]

Packet ==
  WritePacket \union BlockPacket
    \union [type : {"CmdStartHashing", "CmdStartFullScan", "InfoStartReplication",
                    "InfoReplicationCompleted"}, scan : Nat]
    \union [type : {"InfoHashingCompleted"}, scan : Scan]
    \union [type : {"InfoInit"}]

HashPacket == [type : {"PayloadHash"}, blk : Blocks, val : Unknown..Len(log)]

Reply ==
  HashPacket
    \union [type : {"InfoHashingCompleted"}, scan : Nat]
    \union [type : {"InfoStartHashing", "ErrJournalOverflow", "ErrInvalidSizes"}]

QueuedWrite == [write : Issued, scan : Scan]
BlockSets == [now : SUBSET Blocks, applied : SUBSET Blocks]

Bounded(q, S, max) == q \in Seq(S) /\ Len(q) <= max
AllBounded(qs, S, max) == qs \in [Conns -> Seq(S)] /\ \A k \in Conns : Len(qs[k]) <= max

AppType ==
  /\ Bounded(log, Blocks, MaxIssued)
  /\ flying \in [Blocks -> Contents]
  /\ source \in [Blocks -> Contents]
  /\ fresh \in Seq(Issued) /\ held \in Nat

NetType ==
  /\ cur \in Conns
  /\ link \in [Conns -> {"none", "up", "dead"}]
  /\ AllBounded(c2s, Packet, Window)
  /\ AllBounded(s2c, Reply, Window)

ClientType ==
  /\ cstate \in {"Writing", "Hashing", "Replicating", "Reconnecting"}
  /\ pause \in {"empty", "Paused", "Running"}
  /\ mon \in [pc : {"wait", "blocked", "read", "check", "encode", "reset", "pause", "request"},
              batch : Seq(Issued), tag : Nat, kind : {"scan", "full", "replicate"}]
  /\ mon.pc \in {"check", "encode"} => mon.batch # <<>>
  /\ lis \in [pc : {"starting", "receive", "buffer", "send", "resume", "complete",
                    "reset", "pause", "request", "dial", "stopped"},
              batch : Seq(Issued), tag : Nat, read : Nat]
  /\ lis.pc = "send" => lis.batch # <<>>

WorkersType ==
  /\ hashQueue \subseteq HashPacket
  /\ IsFiniteSet(hashQueue) /\ Cardinality(hashQueue) <= QueueSize
  /\ compared \subseteq BlockPacket
  /\ IsFiniteSet(compared) /\ Cardinality(compared) <= Workers
  /\ failer \in [pc : {"none", "reset", "pause", "request"}, tag : Nat]
  /\ repl \in [pc : {"off", "copy", "resume"}, todo : SUBSET Blocks,
               read : SUBSET BlockPacket, tag : Nat]
  /\ IsFiniteSet(repl.read) /\ Cardinality(repl.read) <= Workers

ServerType ==
  /\ fits \in BOOLEAN /\ ses \in -1..cur
  /\ state \in {"Disconnected", "Writing", "Hashing", "JournalOverflow",
                "DestroyingReplica", "Replicating"}
  /\ main \in {"accept", "init", "receive", "start", "startFull", "startCopy",
               "complete", "copied", "leave"}
  /\ main \in {"start", "startFull"} => current.scan \in Nat
  /\ hasher \in [pc : {"idle", "reset", "hash"}, todo : SUBSET Blocks, scan : Nat]
  /\ ses = -1 => main = "accept" /\ hasher.pc = "idle" /\ journalQueue = <<>>

QueuesType ==
  /\ Bounded(journalQueue, WritePacket \union BlockPacket, QueueSize)
  /\ Bounded(jWrites, Issued, WCount)
  /\ Bounded(jBlocks, BlockPacket, CCount)
  /\ AllBounded(writeQueue, QueuedWrite, QueueSize)
  /\ writer \in [Conns -> Seq(QueuedWrite)]
  /\ AllBounded(correctQueue, BlockPacket, QueueSize)
  /\ Bounded(replQueue, BlockPacket, QueueSize)
  /\ replOn \in BOOLEAN
  /\ replica \in [Blocks -> Unknown..Len(log)]

HistoryType ==
  /\ resets \in Seq([straddling : SUBSET Blocks, snatched : SUBSET Blocks])
  /\ finished \in Nat
  /\ current \in [scan : Scan, cut : BOOLEAN, applied : BOOLEAN]
  /\ synced \in {"no", "converging", "prefix"}
  /\ straddling \subseteq Blocks /\ snatched \subseteq Blocks
  /\ rewound \in BlockSets /\ stray \in BlockSets
  /\ dropped \subseteq Blocks
  /\ breaks \in 0..MaxBreaks /\ errors \in 0..MaxErrors

(* What the packets carry and where every goroutine may be; every queue,   *)
(* connection and journal section stays within its bound.  Nothing on its  *)
(* way, on a device or in the journal is a write that was not issued.      *)
TypeOK ==
  /\ AppType /\ NetType /\ ClientType /\ WorkersType
  /\ ServerType /\ QueuesType /\ HistoryType

(* The source after the first k writes.                                    *)
After(k) ==
  [b \in Blocks |-> Max({0} \union {n \in 1..k : log[n] = b})]

PrefixExcept(excused) ==
  \E k \in 0..Len(log) : \A b \in Blocks \ excused : replica[b] = After(k)[b]

Excused ==
  straddling \union snatched \union rewound.applied \union stray.applied
    \union dropped

(* Once a whole journal scan was applied, the replica is at all times the  *)
(* source as it was after some number of writes: during the direct         *)
(* replication, while the next scan runs and when its journal is applied   *)
(* (HandleJournalWriting), over broken connections and restarts of the     *)
(* server.  A scan during which the ring buffer was reset a second time    *)
(* promises nothing.  Excused are the blocks                               *)
(*   - of a write that was past the ring buffer and not yet on the device  *)
(*     when StartHashing reset the ring buffer (straddling);               *)
(*   - of a write the monitor read between that reset and the completion   *)
(*     (snatched);                                                         *)
(*   - to which a queue worker of the server applied a packet received     *)
(*     before the scan after the block was hashed (rewound);               *)
(*   - of a packet the client read before the reset and sent after it      *)
(*     (stray);                                                            *)
(*   - of a packet that was thrown away since (dropped).                   *)
PrefixConsistent == synced = "prefix" => PrefixExcept(Excused)

(* All is quiet: nothing is on its way anywhere.                           *)
Quiet ==
  /\ \A b \in Blocks : flying[b] = None
  /\ fresh = <<>> /\ ~overflown
  /\ mon.pc \in {"wait", "read"} /\ pause # "Paused"
  /\ lis.pc = "receive" /\ HashingDone /\ repl.pc = "off"
  /\ ses = cur /\ link[cur] = "up" /\ c2s[cur] = <<>> /\ s2c[cur] = <<>>
  /\ main = "receive" /\ hasher.pc = "idle"
  /\ journalQueue = <<>> /\ replQueue = <<>>
  /\ \A k \in Conns : writeQueue[k] = <<>> /\ writer[k] = <<>> /\ correctQueue[k] = <<>>

(* When all is quiet after a whole scan, full scan or full replication,    *)
(* the replica equals the source: no write is lost between the ring        *)
(* buffer, the scan and the journal.  Excused are the blocks of            *)
(* PrefixConsistent; a read that InitReplication skips counts as dropped.  *)
Converged ==
  Quiet /\ synced # "no" => \A b \in Blocks \ Excused : replica[b] = source[b]

(* In the first session nobody pauses the monitor in the middle of a       *)
(* batch, so ProcessBufferInfo never drops the rest of one; until a worker *)
(* of InitHashing cannot read the source, which pauses the monitor         *)
(* although the scan it restarts may be over.                              *)
MonitorNotInterrupted ==
  cur = 0 /\ errors = 0 /\ mon.pc \in {"check", "encode"} => pause # "Paused"

(* When the applications stop writing, the system comes to rest, through   *)
(* queues that fill up and reads that fail: the scan or the replication    *)
(* ends, the monitor is resumed (Resume, InitReplication) and the ring     *)
(* buffer is emptied; or the client stopped because the journal was too    *)
(* small, or the server refused it.                                        *)
ComesToRest == <>[](Quiet \/ lis.pc = "stopped" \/ ~fits)

(* A listener that finds the connection closed while it receives           *)
(* (ReceivePacket) reconnects, has a scan made in the new session, and the *)
(* system comes to rest again, provided InitReplication is not running:    *)
(* it goes on sending into the new session.                                *)
RecoversFromBreak ==
  (fits /\ lis.pc = "receive" /\ Dead(cur) /\ s2c[cur] = <<>> /\ repl.pc = "off")
    ~> (Quiet \/ lis.pc = "stopped")

(* "some writes are lost to BDR and need to be recovered through scanning" *)
(* (src/documentation.md:159): after a scan the replica equals the source, *)
(* a write that was on its way to the device when the ring buffer was      *)
(* reset included.                                                         *)
ScanRecoversStraddlingWrites ==
  Quiet /\ synced = "prefix" =>
    \A b \in Blocks \ (Excused \ straddling) : replica[b] = source[b]

(* "This approach ensures that the replica will stay in a prefix           *)
(* consistent state at all times" (src/documentation.md:169), also if the  *)
(* server still had writes in its write queue when the scan began.         *)
PrefixConsistentWithQueuedWrites == synced = "prefix" => PrefixExcept(straddling)

(* "BDR will need to perform a scan to ensure consistency"                 *)
(* (src/documentation.md:151): when all is quiet, the scans have made the  *)
(* replica equal to the source, however they followed each other.          *)
ScanRepairs == Quiet => \A b \in Blocks \ Excused : replica[b] = source[b]

(* "These approaches might temporarily corrupt the replica"                *)
(* (src/documentation.md:179), so not for good: when all is quiet after a  *)
(* full scan, the replica equals the source, also if the server still had  *)
(* correct blocks in its queue when the scan ended.                        *)
FullScanConverges ==
  Quiet /\ synced = "converging" =>
    \A b \in Blocks \ (straddling \union snatched \union stray.applied \union dropped) :
      replica[b] = source[b]

(* "receivePacket receives a network packet, reconnecting if necessary"    *)
(* (src/user/client/client.go:355): a client whose connection broke        *)
(* reconnects.                                                             *)
ReconnectsIfNecessary ==
  (fits /\ Dead(cur) /\ lis.pc # "starting") ~> (link[cur] = "up" \/ lis.pc = "stopped")

(* "Journal has overflown, stopping BDR deamon." (client.go:972): when a   *)
(* packet finds no room in the journal, the client stops.                  *)
OverflowStopsClient ==
  (/\ journalQueue # <<>> /\ state = "Hashing" /\ Head(journalQueue).type = "CorrectBlock"
   /\ hasher.pc = "hash" /\ Len(jBlocks) = CCount) ~> (lis.pc = "stopped")
=============================================================================
