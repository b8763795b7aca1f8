--------------------------- MODULE ReplicationServer ---------------------------
(***************************************************************************)
(* The server daemon (src/user/server/server.go): accepting a client,      *)
(* HandleClient's main loop and its end, HashDisk, and the goroutines that *)
(* take packets from the journal, write, correct-block and replication     *)
(* queues.  The workers of the write and the correct-block queue are not   *)
(* waited for at the end of a session, so those two queues are kept per    *)
(* session.                                                                *)
(***************************************************************************)
EXTENDS ReplicationState

(* SendPacket tries once.                                                  *)
ToClient(p) ==
  \/ Room(s2c, ses) /\ s2c' = [s2c EXCEPT ![ses] = Append(@, p)]
  \/ Dead(ses) /\ UNCHANGED s2c

(* HandleConnections serves one client at a time; the next connection      *)
(* waits in the listener's backlog.                                        *)
AcceptClient ==
  /\ main = "accept" /\ ses < cur
  /\ ses' = ses + 1
  /\ state' = "Writing"
  /\ main' = "init"
  /\ current' = IF ses' = 0 THEN current ELSE NoScan
  /\ UNCHANGED <<app, ring, net, client, fits, hasher, journal, direct, replica>>
  /\ UNCHANGED <<resets, finished, synced, excuses, bounds>>

WaitForInitInfo == c2s[ses] # <<>> /\ c2s' = [c2s EXCEPT ![ses] = Tail(@)]

(* A client whose device has another size, or whose ring buffer does not   *)
(* fit the journal (CreateJournal), is refused.                            *)
CheckValidSizes ==
  IF fits
    THEN main' = "receive" /\ UNCHANGED s2c
    ELSE main' = "leave" /\ ToClient([type |-> "ErrInvalidSizes"])

HandleInit ==
  /\ main = "init"
  /\ \/ WaitForInitInfo /\ CheckValidSizes
     \/ /\ c2s[ses] = <<>> /\ Dead(ses)
        /\ main' = "leave"
        /\ UNCHANGED <<c2s, s2c>>
  /\ UNCHANGED <<app, ring, link, cur, client, fits, ses, state, hasher, journal, direct, replica>>
  /\ UNCHANGED <<history, bounds>>

Arrived(type) ==
  /\ main = "receive"
  /\ c2s[ses] # <<>>
  /\ Head(c2s[ses]).type = type
  /\ c2s' = [c2s EXCEPT ![ses] = Tail(@)]
  /\ UNCHANGED <<app, ring, s2c, link, cur, client, fits, ses, hasher, jWrites, jBlocks>>
  /\ UNCHANGED <<writer, replOn, replica, resets, finished, synced, straddling, snatched, rewound, bounds>>

(* A command for a scan: the state changes at once, the main loop then     *)
(* waits for the goroutines of the one before.                             *)
HandleCommand(type, newState, wait) ==
  /\ Arrived(type)
  /\ state' = newState
  /\ main' = wait
  /\ current' = [NoScan EXCEPT !.scan = Head(c2s[ses]).scan]
  /\ stray' = [stray EXCEPT !.now = {}]
  /\ UNCHANGED <<journalQueue, writeQueue, correctQueue, replQueue, dropped>>

HandleCmdStartHashing == HandleCommand("CmdStartHashing", "Hashing", "start")
HandleCmdStartFullScan == HandleCommand("CmdStartFullScan", "DestroyingReplica", "startFull")
HandleInfoStartReplication == HandleCommand("InfoStartReplication", "Replicating", "startCopy")

StartScan ==
  /\ \/ main = "start" /\ journalQueue = <<>>
     \/ main = "startFull"
  /\ hasher.pc = "idle"
  /\ hasher' = [pc |-> "reset", todo |-> Blocks, scan |-> current.scan]
  /\ main' = "receive"
  /\ UNCHANGED <<app, ring, net, client, fits, ses, state, journal, direct, replica, history, bounds>>

(* A packet is a stray if it was read before the reset of the scan it      *)
(* arrives in.                                                             *)
Astray(blk, queued) ==
  stray' = IF Head(c2s[ses]).tag = current.scan THEN stray
           ELSE IF queued THEN [stray EXCEPT !.now = @ \union {blk}]
           ELSE [stray EXCEPT !.applied = @ \union {blk}]

ToJournal ==
  /\ Len(journalQueue) < QueueSize
  /\ journalQueue' = Append(journalQueue, Head(c2s[ses]))

(* Mutant: buffer writes are dropped while a scan runs.                    *)
HandleBufferWriteDropping ==
  /\ Arrived("BufferWrite")
  /\ LET p == Head(c2s[ses]) IN
       \/ /\ state = "Writing"
          /\ Len(writeQueue[ses]) < QueueSize
          /\ writeQueue' = [writeQueue EXCEPT ![ses] =
                              Append(@, [write |-> p.write, scan |-> current.scan])]
          /\ Astray(log[p.write], FALSE)
       \/ state # "Writing" /\ UNCHANGED <<writeQueue, stray>>
  /\ UNCHANGED <<state, main, journalQueue, correctQueue, replQueue, current, dropped>>

HandleBufferWrite ==
  /\ Arrived("BufferWrite")
  /\ LET p == Head(c2s[ses]) IN
       \/ /\ state = "Hashing"
          /\ ToJournal
          /\ Astray(log[p.write], TRUE)
          /\ UNCHANGED <<writeQueue, dropped>>
       \/ /\ state = "Writing"
          /\ Len(writeQueue[ses]) < QueueSize
          /\ writeQueue' = [writeQueue EXCEPT ![ses] =
                              Append(@, [write |-> p.write, scan |-> current.scan])]
          /\ Astray(log[p.write], FALSE)
          /\ UNCHANGED <<journalQueue, dropped>>
       \/ /\ state \notin {"Hashing", "Writing"}
          /\ dropped' = dropped \union {log[p.write]}
          /\ UNCHANGED <<journalQueue, writeQueue, stray>>
  /\ UNCHANGED <<state, main, correctQueue, replQueue, current>>

HandleCorrectBlock ==
  /\ Arrived("CorrectBlock")
  /\ LET p == Head(c2s[ses]) IN
       \/ /\ state = "Hashing"
          /\ ToJournal
          /\ Astray(p.blk, TRUE)
          /\ UNCHANGED correctQueue
       \/ /\ state = "DestroyingReplica"
          /\ Len(correctQueue[ses]) < QueueSize
          /\ correctQueue' = [correctQueue EXCEPT ![ses] = Append(@, p)]
          /\ Astray(p.blk, FALSE)
          /\ UNCHANGED journalQueue
       \/ /\ state \notin {"Hashing", "DestroyingReplica"}
          /\ UNCHANGED <<journalQueue, correctQueue, stray>>
  /\ UNCHANGED <<state, main, writeQueue, replQueue, current, dropped>>

(* Replication blocks are queued whether or not somebody takes them.       *)
HandleReplicationBlock ==
  /\ Arrived("ReplicationBlock")
  /\ Len(replQueue) < QueueSize
  /\ replQueue' = Append(replQueue, Head(c2s[ses]))
  /\ UNCHANGED <<state, main, journalQueue, writeQueue, correctQueue, current, stray, dropped>>

(* The completion of a scan the server has already left for another one    *)
(* cuts that one short.                                                    *)
HandleCompleted(type, wait) ==
  /\ Arrived(type)
  /\ main' = wait
  /\ current' = [current EXCEPT !.cut = @ \/ Head(c2s[ses]).scan # current.scan]
  /\ UNCHANGED <<state, journalQueue, writeQueue, correctQueue, replQueue, stray, dropped>>

HandleHashingCompleted == HandleCompleted("InfoHashingCompleted", "complete")
HandleReplicationCompleted == HandleCompleted("InfoReplicationCompleted", "copied")
-----------------------------------------------------------------------------
(* The replica after the journal: each block has its last buffer write, or *)
(* else its last correct block, or else it is left alone.                  *)
Journalled(b) ==
  LET writes == {i \in DOMAIN jWrites : log[jWrites[i]] = b}
      blocks == {i \in DOMAIN jBlocks : jBlocks[i].blk = b}
  IN IF writes # {} THEN jWrites[Max(writes)]
     ELSE IF blocks # {} THEN jBlocks[Max(blocks)].val
     ELSE replica[b]

ExcuseResets ==
  IF current.scan \in DOMAIN resets
    THEN /\ straddling' = resets[current.scan].straddling
         /\ snatched' = resets[current.scan].snatched
    ELSE UNCHANGED <<straddling, snatched>>

ApplyJournal ==
  /\ replica' = [b \in Blocks |-> Journalled(b)]
  /\ synced' = IF state = "Hashing" /\ ~current.cut THEN "prefix" ELSE "no"
  /\ ExcuseResets
  /\ rewound' = [rewound EXCEPT !.applied = rewound.now]
  /\ stray' = [now |-> {}, applied |-> stray.now]
  /\ dropped' = {}

ScanEnds ==
  /\ current' = [current EXCEPT !.applied = TRUE]
  /\ state' = "Writing"
  /\ main' = "receive"
  /\ UNCHANGED <<app, ring, net, client, fits, ses, hasher, journal, writeQueue, writer>>
  /\ UNCHANGED <<correctQueue, resets, finished, bounds>>

(* Mutant: journalWg.Wait is missing before the journal is applied.        *)
HandleJournalWritingEarly ==
  /\ main = "complete"
  /\ IF state = "DestroyingReplica"
       THEN /\ synced' = IF current.cut THEN "no" ELSE "converging"
            /\ ExcuseResets
            /\ UNCHANGED <<replica, rewound, stray, dropped>>
       ELSE ApplyJournal
  /\ ScanEnds
  /\ UNCHANGED <<replQueue, replOn>>

(* HandleJournalWriting: nothing is to be applied after a full scan.       *)
HandleJournalWriting ==
  /\ main = "complete"
  /\ journalQueue = <<>>
  /\ IF state = "DestroyingReplica"
       THEN /\ synced' = IF current.cut THEN "no" ELSE "converging"
            /\ ExcuseResets
            /\ UNCHANGED <<replica, rewound, stray, dropped>>
       ELSE ApplyJournal
  /\ ScanEnds
  /\ UNCHANGED <<replQueue, replOn>>

(* close(replicationQueue) and replicationWg.Wait: the workers write what  *)
(* is in the queue; without workers it is thrown away.                     *)
ReplicationDrained == replOn => replQueue = <<>>

HandleReplicationWriting ==
  /\ main = "copied"
  /\ ReplicationDrained
  /\ replQueue' = <<>> /\ replOn' = FALSE
  /\ synced' = IF state = "Replicating" /\ ~current.cut THEN "converging" ELSE "no"
  /\ ExcuseResets
  /\ ScanEnds
  /\ UNCHANGED <<replica, rewound, stray, dropped>>

StartReplication ==
  /\ main = "startCopy"
  /\ ReplicationDrained
  /\ replQueue' = <<>> /\ replOn' = TRUE
  /\ main' = "receive"
  /\ UNCHANGED <<app, ring, net, client, fits, ses, state, hasher, journal, writeQueue, writer>>
  /\ UNCHANGED <<correctQueue, replica, history, bounds>>
-----------------------------------------------------------------------------
(* Mutant: any error of Decode is taken for a time-out and tried again.    *)
DetectDisconnectRetrying ==
  /\ main = "receive" /\ c2s[ses] = <<>> /\ Dead(ses)
  /\ UNCHANGED vars

(* Decode finds the connection closed.  The session ends when replication, *)
(* journal and hashing goroutines have ended.                              *)
DetectDisconnect ==
  /\ main = "receive" /\ c2s[ses] = <<>> /\ Dead(ses)
  /\ main' = "leave"
  /\ UNCHANGED <<app, ring, net, client, fits, ses, state, hasher, journal, direct, replica>>
  /\ UNCHANGED <<history, bounds>>

(* Closing a connection with unread packets resets it.                     *)
LeaveClient ==
  /\ main = "leave"
  /\ ReplicationDrained /\ journalQueue = <<>> /\ hasher.pc = "idle"
  /\ replQueue' = <<>> /\ replOn' = FALSE
  /\ state' = "Disconnected"
  /\ main' = "accept"
  /\ link' = [link EXCEPT ![ses] = "dead"]
  /\ c2s' = [c2s EXCEPT ![ses] = <<>>]
  /\ \E n \in 0..Len(s2c[ses]) :
       /\ n = Len(s2c[ses]) \/ c2s[ses] # <<>>
       /\ s2c' = [s2c EXCEPT ![ses] = SubSeq(@, 1, n)]
  /\ UNCHANGED <<app, ring, cur, client, fits, ses, hasher, journal, writeQueue, writer>>
  /\ UNCHANGED <<correctQueue, replica, history, bounds>>

(* The server dies and is started again.  What CheckJournal does with a    *)
(* journal that was being applied is the subject of ServerJournal.         *)
ServerRestart ==
  /\ breaks < MaxBreaks
  /\ breaks' = breaks + 1
  /\ ses' = cur /\ state' = "Disconnected" /\ main' = "accept"
  /\ link' = [k \in Conns |-> IF link[k] = "up" THEN "dead" ELSE link[k]]
  /\ c2s' = [k \in Conns |-> <<>>]
  /\ \E n \in 0..Len(s2c[cur]) : s2c' = [s2c EXCEPT ![cur] = SubSeq(@, 1, n)]
  /\ hasher' = [pc |-> "idle", todo |-> {}, scan |-> 0]
  /\ journalQueue' = <<>>
  /\ writeQueue' = [k \in Conns |-> <<>>] /\ writer' = [k \in Conns |-> <<>>]
  /\ correctQueue' = [k \in Conns |-> <<>>]
  /\ replQueue' = <<>> /\ replOn' = FALSE
  /\ UNCHANGED <<app, ring, cur, client, fits, jWrites, jBlocks, replica, history, errors>>
-----------------------------------------------------------------------------
(* Mutant: the journal's limits are not looked at.                         *)
HandleJournalPacketUnbounded ==
  /\ journalQueue # <<>>
  /\ journalQueue' = Tail(journalQueue)
  /\ LET p == Head(journalQueue)
         isWrite == p.type = "BufferWrite"
     IN /\ jWrites' = IF isWrite THEN Append(jWrites, p.write) ELSE jWrites
        /\ jBlocks' = IF isWrite THEN jBlocks ELSE Append(jBlocks, p)
  /\ UNCHANGED <<app, ring, net, client, fits, ses, state, main, hasher, direct, replica>>
  /\ UNCHANGED <<history, bounds>>

(* Mutant: a correct block is written to the replica instead of the journal. *)
HandleJournalPacketWritingThrough ==
  /\ journalQueue # <<>>
  /\ journalQueue' = Tail(journalQueue)
  /\ LET p == Head(journalQueue)
     IN IF p.type = "BufferWrite"
          THEN jWrites' = Append(jWrites, p.write) /\ UNCHANGED replica
          ELSE replica' = [replica EXCEPT ![p.blk] = p.val] /\ UNCHANGED jWrites
  /\ UNCHANGED <<app, ring, net, client, fits, ses, state, main, hasher, jBlocks, direct>>
  /\ UNCHANGED <<history, bounds>>

(* HandleJournalPackets: a packet that has no slot left is reported to the *)
(* client, and every later one is thrown away.                             *)
HandleJournalPacket ==
  /\ journalQueue # <<>>
  /\ journalQueue' = Tail(journalQueue)
  /\ LET p == Head(journalQueue)
         isWrite == p.type = "BufferWrite"
         overflow == IF isWrite THEN Len(jWrites) >= WCount ELSE Len(jBlocks) >= CCount
     IN \/ /\ state # "JournalOverflow" /\ ~overflow
           /\ jWrites' = IF isWrite THEN Append(jWrites, p.write) ELSE jWrites
           /\ jBlocks' = IF isWrite THEN jBlocks ELSE Append(jBlocks, p)
           /\ UNCHANGED <<s2c, state>>
        \/ /\ state # "JournalOverflow" /\ overflow
           /\ ToClient([type |-> "ErrJournalOverflow"])
           /\ state' = "JournalOverflow"
           /\ UNCHANGED <<jWrites, jBlocks>>
        \/ /\ state = "JournalOverflow"
           /\ UNCHANGED <<jWrites, jBlocks, s2c, state>>
  /\ UNCHANGED <<app, ring, c2s, link, cur, client, fits, ses, main, hasher, direct, replica>>
  /\ UNCHANGED <<history, bounds>>

(* HandleWritePackets: the state is looked at when the packet leaves the   *)
(* queue; the write to the replica follows.                                *)
TakeWritePacket(k) ==
  /\ writer[k] = <<>>
  /\ writeQueue[k] # <<>>
  /\ writeQueue' = [writeQueue EXCEPT ![k] = Tail(@)]
  /\ writer' = [writer EXCEPT ![k] = IF state = "Writing" THEN <<Head(writeQueue[k])>> ELSE <<>>]
  /\ UNCHANGED <<app, ring, net, client, fits, ses, state, main, hasher, journal>>
  /\ UNCHANGED <<correctQueue, replQueue, replOn, replica, history, bounds>>

Rewind(blk) == [now |-> rewound.now \union {blk}, applied |-> rewound.applied \union {blk}]

HandleWritePacket(k) ==
  /\ writer[k] # <<>>
  /\ LET e == Head(writer[k]) IN
       /\ replica' = [replica EXCEPT ![log[e.write]] = e.write]
       /\ rewound' = IF \/ k # ses
                        \/ /\ e.scan # current.scan
                           /\ current.applied \/ e.scan = Unknown \/ replica[log[e.write]] > e.write
                       THEN Rewind(log[e.write])
                       ELSE rewound
  /\ writer' = [writer EXCEPT ![k] = <<>>]
  /\ UNCHANGED <<app, ring, net, client, fits, ses, state, main, hasher, journal, writeQueue>>
  /\ UNCHANGED <<correctQueue, replQueue, replOn, resets, finished, current, synced, straddling, snatched, stray>>
  /\ UNCHANGED <<dropped, bounds>>

(* HandleCorrectPackets: the state is not looked at.                       *)
HandleCorrectPacket(k) ==
  /\ correctQueue[k] # <<>>
  /\ LET p == Head(correctQueue[k]) IN
       /\ replica' = [replica EXCEPT ![p.blk] = p.val]
       /\ rewound' = IF k = ses /\ state = "DestroyingReplica" THEN rewound ELSE Rewind(p.blk)
  /\ correctQueue' = [correctQueue EXCEPT ![k] = Tail(@)]
  /\ UNCHANGED <<app, ring, net, client, fits, ses, state, main, hasher, journal, writeQueue>>
  /\ UNCHANGED <<writer, replQueue, replOn, resets, finished, current, synced, straddling, snatched, stray>>
  /\ UNCHANGED <<dropped, bounds>>

(* HandleReplicationPackets: the blocks of one replication are distinct,   *)
(* so the order in which its workers write them does not matter.           *)
HandleReplicationPacket ==
  /\ replOn /\ replQueue # <<>>
  /\ replQueue' = Tail(replQueue)
  /\ replica' = [replica EXCEPT ![Head(replQueue).blk] = Head(replQueue).val]
  /\ UNCHANGED <<app, ring, net, client, fits, ses, state, main, hasher, journal, writeQueue>>
  /\ UNCHANGED <<writer, correctQueue, replOn, history, bounds>>
-----------------------------------------------------------------------------
(* HashDisk: the journal is emptied unless the scan is a full one, the     *)
(* blocks are read, hashed and sent in any order, and the end is announced *)
(* even if the hashing was terminated.                                     *)
HashDiskReset ==
  /\ hasher.pc = "reset"
  /\ IF state = "DestroyingReplica"
       THEN UNCHANGED <<jWrites, jBlocks>>
       ELSE jWrites' = <<>> /\ jBlocks' = <<>>
  /\ ToClient([type |-> "InfoStartHashing"])
  /\ hasher' = [hasher EXCEPT !.pc = IF Dead(ses) THEN "idle" ELSE "hash"]
  /\ UNCHANGED <<app, ring, c2s, link, cur, client, fits, ses, state, main, journalQueue>>
  /\ UNCHANGED <<direct, replica, history, bounds>>

HashBlock(b) ==
  /\ hasher.pc = "hash"
  /\ b \in hasher.todo
  /\ Room(s2c, ses)
  /\ ToClient([type |-> "PayloadHash", blk |-> b, val |-> replica[b]])
  /\ hasher' = [hasher EXCEPT !.todo = @ \ {b}]
  /\ rewound' = [rewound EXCEPT !.now = @ \ {b}]
  /\ UNCHANGED <<app, ring, c2s, link, cur, client, fits, ses, state, main, journal, direct>>
  /\ UNCHANGED <<replica, resets, finished, current, synced, straddling, snatched, stray, dropped, bounds>>

HashTerminated ==
  \/ main = "start" /\ journalQueue = <<>>
  \/ main \in {"startFull", "leave"}

HashDiskEnd ==
  /\ hasher.pc = "hash"
  /\ hasher.todo = {} \/ HashTerminated \/ Dead(ses)
  /\ ToClient([type |-> "InfoHashingCompleted", scan |-> hasher.scan])
  /\ hasher' = [hasher EXCEPT !.pc = "idle", !.todo = {}]
  /\ UNCHANGED <<app, ring, c2s, link, cur, client, fits, ses, state, main, journal, direct>>
  /\ UNCHANGED <<replica, history, bounds>>
-----------------------------------------------------------------------------
MainLoop ==
  \/ AcceptClient \/ HandleInit \/ DetectDisconnect \/ LeaveClient
  \/ HandleCmdStartHashing \/ HandleCmdStartFullScan \/ HandleInfoStartReplication
  \/ StartScan \/ StartReplication
  \/ HandleBufferWrite \/ HandleCorrectBlock \/ HandleReplicationBlock
  \/ HandleHashingCompleted \/ HandleReplicationCompleted
  \/ HandleJournalWriting \/ HandleReplicationWriting

HashDisk == HashDiskReset \/ (\E b \in Blocks : HashBlock(b)) \/ HashDiskEnd

WritePackets(k) == TakeWritePacket(k) \/ HandleWritePacket(k)

QueueWorkers ==
  \/ HandleJournalPacket \/ HandleReplicationPacket
  \/ \E k \in Conns : WritePackets(k) \/ HandleCorrectPacket(k)

Server == MainLoop \/ HashDisk \/ QueueWorkers
=============================================================================
