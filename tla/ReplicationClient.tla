--------------------------- MODULE ReplicationClient ---------------------------
(***************************************************************************)
(* The client daemon (src/user/client/client.go): the monitor, the         *)
(* listener, the workers of InitHashing and InitReplication, and the       *)
(* reconnection.  Every goroutine sends with the Encoder of the connection *)
(* that is the current one when it tries; SendPacket tries until it        *)
(* succeeds, so on a dead connection it waits for a reconnection.          *)
(***************************************************************************)
EXTENDS ReplicationState

Running == lis.pc # "stopped"

CanSend == Room(c2s, cur)
ToServer(p) == CanSend /\ c2s' = [c2s EXCEPT ![cur] = Append(@, p)]

(* WaitIfPaused and waitUntilResumed: the state is taken out of the        *)
(* channel; Paused makes the monitor wait for Running.                     *)
WaitIfPaused ==
  /\ Running
  /\ \/ mon.pc = "wait"
     \/ mon.pc = "blocked" /\ pause # "empty"
  /\ mon' = [mon EXCEPT !.pc = IF pause = "Paused" THEN "blocked" ELSE "read"]
  /\ pause' = "empty"
  /\ UNCHANGED <<app, ring, net, cstate, lis, workers, server, history, bounds>>

(* READ_BUFFER_INFO: a batch, nothing, or an overflow that makes the       *)
(* monitor request a scan.                                                 *)
MonitorRead ==
  /\ Running
  /\ mon.pc = "read"
  /\ \/ /\ Ring!Take
        /\ mon' = [mon EXCEPT !.pc = IF fresh = <<>> THEN "wait" ELSE "check",
                              !.batch = fresh,
                              !.tag = IF fresh = <<>> THEN 0 ELSE epoch]
        /\ resets' = IF finished < epoch
                       THEN [resets EXCEPT ![epoch].snatched = @ \union {log[w] : w \in Range(fresh)}]
                       ELSE resets
     \/ /\ overflown
        /\ mon' = [mon EXCEPT !.pc = "reset"]
        /\ UNCHANGED <<ring, resets>>
  /\ UNCHANGED <<app, net, cstate, pause, lis, workers, server, bounds>>
  /\ UNCHANGED <<finished, current, synced, excuses>>

(* ProcessBufferInfo in the monitor: the rest of the batch is left out     *)
(* when the monitor was paused or the listener reconnects; else the write  *)
(* is sent, on the connection there is when an attempt succeeds.           *)
MonitorDone == mon' = [mon EXCEPT !.pc = "wait", !.batch = <<>>, !.tag = 0]

MonitorCheck ==
  /\ Running
  /\ mon.pc = "check"
  /\ IF pause = "Paused" THEN MonitorDone ELSE mon' = [mon EXCEPT !.pc = "encode"]
  /\ UNCHANGED <<app, ring, net, cstate, pause, lis, workers, server, history, bounds>>

MonitorSend ==
  /\ Running
  /\ mon.pc = "encode"
  /\ \/ /\ ToServer([type |-> "BufferWrite", write |-> Head(mon.batch), tag |-> mon.tag])
        /\ IF Len(mon.batch) = 1
             THEN MonitorDone
             ELSE mon' = [mon EXCEPT !.pc = "check", !.batch = Tail(@)]
     \/ /\ Dead(cur) /\ cstate = "Reconnecting"
        /\ MonitorDone
        /\ UNCHANGED c2s
  /\ UNCHANGED <<app, ring, s2c, link, cur, cstate, pause, lis, workers, server, history, bounds>>
-----------------------------------------------------------------------------
(* StartHashing, FullScan and FullReplicate: the ring buffer is reset, the *)
(* monitor paused, and the server asked for the scan.                      *)
ResetRing ==
  /\ Ring!Discard
  /\ resets' = Append(resets, [straddling |-> {b \in Blocks : flying[b] # None},
                               snatched |-> {}])
  /\ UNCHANGED <<app, net, cstate, pause, hashQueue, compared, repl, server>>
  /\ UNCHANGED <<finished, current, synced, excuses, bounds>>

PauseMonitor(kind) ==
  /\ pause' = "Paused"
  /\ cstate' = IF kind = "replicate" THEN "Replicating" ELSE "Hashing"
  /\ UNCHANGED <<app, ring, net, hashQueue, compared, repl, server, history, bounds>>

Command(kind) == CASE kind = "scan" -> "CmdStartHashing"
                   [] kind = "full" -> "CmdStartFullScan"
                   [] kind = "replicate" -> "InfoStartReplication"

RequestScan(kind, n) ==
  /\ ToServer([type |-> Command(kind), scan |-> n])
  /\ UNCHANGED <<app, ring, s2c, link, cur, cstate, pause, hashQueue, compared>>
  /\ UNCHANGED <<server, history, bounds>>

(* Run makes the first request, and only then starts the goroutines; the   *)
(* monitor makes one when the ring buffer overflowed.                      *)
MonitorStartHashing ==
  /\ Running
  /\ UNCHANGED failer
  /\ \/ /\ mon.pc = "reset" /\ mon' = [mon EXCEPT !.pc = "pause", !.tag = epoch + 1]
        /\ ResetRing /\ UNCHANGED lis
     \/ /\ mon.pc = "pause" /\ mon' = [mon EXCEPT !.pc = "request"]
        /\ PauseMonitor(mon.kind) /\ UNCHANGED lis
     \/ /\ mon.pc = "request"
        /\ RequestScan(mon.kind, mon.tag)
        /\ mon' = [mon EXCEPT !.pc = "wait", !.tag = 0, !.kind = "scan"]
        /\ lis' = [lis EXCEPT !.pc = IF @ = "starting" THEN "receive" ELSE @]
        /\ repl' = IF mon.kind = "replicate"
                     THEN [pc |-> "copy", todo |-> Blocks, read |-> {}, tag |-> mon.tag]
                     ELSE repl

ListenerStartHashing ==
  /\ UNCHANGED <<mon, failer>>
  /\ \/ lis.pc = "reset" /\ lis' = [lis EXCEPT !.pc = "pause", !.tag = epoch + 1] /\ ResetRing
     \/ lis.pc = "pause" /\ lis' = [lis EXCEPT !.pc = "request"] /\ PauseMonitor("scan")
     \/ /\ lis.pc = "request" /\ lis' = [lis EXCEPT !.pc = "receive", !.tag = 0]
        /\ RequestScan("scan", lis.tag) /\ UNCHANGED repl

(* A worker of InitHashing that could not read its block.                  *)
WorkerStartHashing ==
  /\ UNCHANGED <<mon, lis>>
  /\ \/ failer.pc = "reset" /\ failer' = [pc |-> "pause", tag |-> epoch + 1] /\ ResetRing
     \/ failer.pc = "pause" /\ failer' = [failer EXCEPT !.pc = "request"] /\ PauseMonitor("scan")
     \/ /\ failer.pc = "request" /\ failer' = [pc |-> "none", tag |-> 0]
        /\ RequestScan("scan", failer.tag) /\ UNCHANGED repl
-----------------------------------------------------------------------------
(* ListenPackets.  The listener waits for the InitHashing workers          *)
(* (hashWg.Wait) before it handles any packet but a hash.                  *)
HashingDone == hashQueue = {} /\ compared = {} /\ failer.pc = "none"

Received(types) ==
  /\ lis.pc = "receive"
  /\ s2c[cur] # <<>>
  /\ Head(s2c[cur]).type \in types
  /\ s2c' = [s2c EXCEPT ![cur] = Tail(@)]
  /\ UNCHANGED <<app, ring, c2s, link, cur, cstate, mon, compared, failer, repl>>
  /\ UNCHANGED <<server, history, bounds>>

ReceiveHash ==
  /\ Received({"PayloadHash"})
  /\ Cardinality(hashQueue) < QueueSize
  /\ hashQueue' = hashQueue \union {Head(s2c[cur])}
  /\ UNCHANGED <<pause, lis>>

ReceiveStartHashing ==
  /\ Received({"InfoStartHashing"})
  /\ HashingDone
  /\ UNCHANGED <<pause, lis, hashQueue>>

(* Mutant: the monitor is resumed before the ring buffer was looked at.    *)
ReceiveHashingCompletedResuming ==
  /\ Received({"InfoHashingCompleted"})
  /\ HashingDone
  /\ lis' = [lis EXCEPT !.pc = "buffer", !.tag = Head(s2c[cur]).scan]
  /\ pause' = "Running"
  /\ UNCHANGED hashQueue

ReceiveHashingCompleted ==
  /\ Received({"InfoHashingCompleted"})
  /\ HashingDone
  /\ lis' = [lis EXCEPT !.pc = "buffer", !.tag = Head(s2c[cur]).scan]
  /\ UNCHANGED <<pause, hashQueue>>

(* The journal overflowed, or the server refused the client: the client    *)
(* shuts down.  Before a refusal no hash was received.                     *)
ReceiveError ==
  /\ Received({"ErrJournalOverflow", "ErrInvalidSizes"})
  /\ HashingDone
  /\ lis' = [lis EXCEPT !.pc = "stopped", !.tag = 0]
  /\ UNCHANGED <<pause, hashQueue>>

(* Run closes the connection; the server may not get what it did not read. *)
CloseClientConn ==
  /\ lis.pc = "stopped" /\ link[cur] = "up"
  /\ link' = [link EXCEPT ![cur] = "dead"]
  /\ \E m \in 0..Len(c2s[cur]) : c2s' = [c2s EXCEPT ![cur] = SubSeq(@, 1, m)]
  /\ UNCHANGED <<app, ring, s2c, cur, client, server, history, bounds>>

(* ProcessBuffer: SendBuffer reads the ring buffer; on an overflow the     *)
(* scan starts again, else the writes are sent, the monitor is resumed,    *)
(* and the server is told that the scan is complete.                       *)
SendBuffer ==
  /\ lis.pc = "buffer"
  /\ \/ /\ Ring!Take
        /\ lis' = [lis EXCEPT !.pc = IF fresh = <<>> THEN "resume" ELSE "send",
                              !.batch = fresh, !.read = epoch]
     \/ /\ overflown
        /\ lis' = [lis EXCEPT !.pc = "reset", !.tag = 0]
        /\ UNCHANGED ring
  /\ UNCHANGED <<app, net, cstate, pause, mon, workers, server, history, bounds>>

ListenerSend ==
  /\ lis.pc = "send"
  /\ ToServer([type |-> "BufferWrite", write |-> Head(lis.batch), tag |-> lis.read])
  /\ lis' = [lis EXCEPT !.pc = IF Len(lis.batch) = 1 THEN "resume" ELSE "send",
                        !.batch = Tail(lis.batch)]
  /\ UNCHANGED <<app, ring, s2c, link, cur, cstate, pause, mon, workers, server, history, bounds>>

(* Mutant: the monitor is not resumed after a scan.                        *)
ResumeForgotten ==
  /\ lis.pc = "resume"
  /\ cstate' = "Writing"
  /\ lis' = [lis EXCEPT !.pc = "complete"]
  /\ finished' = lis.tag
  /\ UNCHANGED <<app, ring, net, pause, mon, workers, server, bounds>>
  /\ UNCHANGED <<resets, current, synced, excuses>>

Resume ==
  /\ lis.pc = "resume"
  /\ cstate' = "Writing"
  /\ pause' = "Running"
  /\ lis' = [lis EXCEPT !.pc = "complete"]
  /\ finished' = lis.tag
  /\ UNCHANGED <<app, ring, net, mon, workers, server, bounds>>
  /\ UNCHANGED <<resets, current, synced, excuses>>

(* A scan in the middle of which the ring buffer was reset once more is    *)
(* nobody's (Unknown): it promises nothing.                                *)
SendHashingCompleted ==
  /\ lis.pc = "complete"
  /\ ToServer([type |-> "InfoHashingCompleted",
               scan |-> IF lis.read = lis.tag THEN lis.tag ELSE Unknown])
  /\ lis' = [lis EXCEPT !.pc = "receive", !.tag = 0, !.read = 0]
  /\ UNCHANGED <<app, ring, s2c, link, cur, cstate, pause, mon, workers, server, history, bounds>>
-----------------------------------------------------------------------------
(* ReceivePacket finds the connection closed: reconnectToServer.  Only the *)
(* listener does this, and only when it receives.                          *)
DetectClosed ==
  /\ lis.pc = "receive" /\ Dead(cur) /\ s2c[cur] = <<>>
  /\ cstate' = "Reconnecting"
  /\ lis' = [lis EXCEPT !.pc = "dial"]
  /\ UNCHANGED <<app, ring, net, pause, mon, workers, server, history, bounds>>

(* Mutant: no scan is requested after the reconnection.                    *)
ReconnectWithoutScan ==
  /\ lis.pc = "dial" /\ cur + 1 \in Conns
  /\ cur' = cur + 1
  /\ link' = [link EXCEPT ![cur + 1] = "up"]
  /\ c2s' = [c2s EXCEPT ![cur + 1] = <<InitInfo>>]
  /\ lis' = [lis EXCEPT !.pc = "receive"]
  /\ cstate' = "Writing"
  /\ UNCHANGED <<app, ring, s2c, pause, mon, workers, server, history, bounds>>

(* A new connection, on which InfoInit is sent before the Encoder and the  *)
(* Decoder are replaced; in whichever state the client was, it requests a  *)
(* scan next.                                                              *)
Reconnect ==
  /\ lis.pc = "dial" /\ cur + 1 \in Conns
  /\ cur' = cur + 1
  /\ link' = [link EXCEPT ![cur + 1] = "up"]
  /\ c2s' = [c2s EXCEPT ![cur + 1] = <<InitInfo>>]
  /\ lis' = [lis EXCEPT !.pc = "reset"]
  /\ UNCHANGED <<app, ring, s2c, cstate, pause, mon, workers, server, history, bounds>>
-----------------------------------------------------------------------------
(* InitHashing: a worker reads the block from the source and compares its  *)
(* hash; if they differ the block is sent later.  A read that fails starts *)
(* the scan again.                                                         *)
CompareHash(h) ==
  /\ h \in hashQueue
  /\ Cardinality(compared) < Workers
  /\ hashQueue' = hashQueue \ {h}
  /\ \/ /\ compared' = IF source[h.blk] = h.val
                         THEN compared
                         ELSE compared \union {[type |-> "CorrectBlock", blk |-> h.blk,
                                                val |-> source[h.blk], tag |-> epoch]}
        /\ UNCHANGED <<failer, errors>>
     \/ /\ errors < MaxErrors /\ failer.pc = "none"
        /\ errors' = errors + 1
        /\ failer' = [failer EXCEPT !.pc = "reset"]
        /\ UNCHANGED compared
  /\ UNCHANGED <<app, ring, net, cstate, pause, mon, lis, repl, server, history, breaks>>

SendCorrectBlock(p) ==
  /\ p \in compared
  /\ ToServer(p)
  /\ compared' = compared \ {p}
  /\ UNCHANGED <<app, ring, s2c, link, cur, cstate, pause, mon, lis, hashQueue, failer, repl>>
  /\ UNCHANGED <<server, history, bounds>>

InitHashing ==
  \/ \E h \in hashQueue : CompareHash(h)
  \/ \E p \in compared : SendCorrectBlock(p)
  \/ WorkerStartHashing

(* InitReplication: every block is read, or left out if the read fails,    *)
(* and sent; then the completion is sent and the monitor resumed.          *)
ReadBlock(b) ==
  /\ repl.pc = "copy" /\ b \in repl.todo
  /\ Cardinality(repl.read) < Workers
  /\ \/ /\ repl' = [repl EXCEPT !.todo = @ \ {b},
                                !.read = @ \union {[type |-> "ReplicationBlock", blk |-> b,
                                                    val |-> source[b], tag |-> repl.tag]}]
        /\ UNCHANGED <<errors, dropped>>
     \/ /\ errors < MaxErrors
        /\ errors' = errors + 1
        /\ repl' = [repl EXCEPT !.todo = @ \ {b}]
        /\ dropped' = dropped \union {b}
  /\ UNCHANGED <<app, ring, net, cstate, pause, mon, lis, hashQueue, compared, failer, server>>
  /\ UNCHANGED <<resets, finished, current, synced, straddling, snatched, rewound, stray, breaks>>

SendReplicationBlock(p) ==
  /\ p \in repl.read
  /\ ToServer(p)
  /\ repl' = [repl EXCEPT !.read = @ \ {p}]
  /\ UNCHANGED <<app, ring, s2c, link, cur, cstate, pause, mon, lis, hashQueue, compared, failer>>
  /\ UNCHANGED <<server, history, bounds>>

SendReplicationCompleted ==
  /\ repl.pc = "copy" /\ repl.todo = {} /\ repl.read = {}
  /\ ToServer([type |-> "InfoReplicationCompleted", scan |-> repl.tag])
  /\ repl' = [repl EXCEPT !.pc = "resume"]
  /\ UNCHANGED <<app, ring, s2c, link, cur, cstate, pause, mon, lis, hashQueue, compared, failer>>
  /\ UNCHANGED <<server, history, bounds>>

ReplicationResume ==
  /\ repl.pc = "resume"
  /\ cstate' = "Writing" /\ pause' = "Running"
  /\ repl' = [repl EXCEPT !.pc = "off", !.tag = 0]
  /\ finished' = Max({finished, repl.tag})
  /\ UNCHANGED <<app, ring, net, mon, lis, hashQueue, compared, failer, server, bounds>>
  /\ UNCHANGED <<resets, current, synced, excuses>>

InitReplication ==
  /\ Running
  /\ \/ \E b \in repl.todo : ReadBlock(b)
     \/ \E p \in repl.read : SendReplicationBlock(p)
     \/ SendReplicationCompleted \/ ReplicationResume
-----------------------------------------------------------------------------
Monitor == WaitIfPaused \/ MonitorRead \/ MonitorCheck \/ MonitorSend \/ MonitorStartHashing

Listener ==
  \/ ReceiveHash \/ ReceiveStartHashing \/ ReceiveHashingCompleted \/ ReceiveError
  \/ SendBuffer \/ ListenerSend \/ Resume \/ SendHashingCompleted \/ ListenerStartHashing
  \/ DetectClosed \/ Reconnect \/ CloseClientConn

Client == Monitor \/ Listener \/ InitHashing \/ InitReplication
=============================================================================
