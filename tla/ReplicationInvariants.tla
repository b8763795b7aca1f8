------------------------- MODULE ReplicationInvariants -------------------------
(***************************************************************************)
(* The inductive invariants of the first session of a client: from its     *)
(* start to the first reconnection or the first read of the source that    *)
(* fails, however often the ring buffer overflows and the scan is          *)
(* repeated.  They say where a scan is and that there is one at most, what *)
(* number it has, and, for PrefixConsistent, how far every part of the     *)
(* system has got in the writes that the applications issued.              *)
(***************************************************************************)
EXTENDS Replication

(* Packets of certain types in a connection.                               *)
Holds(q, types) == \E i \in 1..Len(q) : q[i].type \in types
Once(q, types) ==
  \A i, j \in 1..Len(q) : q[i].type \in types /\ q[j].type \in types => i = j

Scans == {"CmdStartHashing", "CmdStartFullScan"}
Copies == {"CmdStartFullScan", "InfoStartReplication"}
Commands == Scans \union Copies
Ends == {"InfoHashingCompleted"}

FirstSession == cur = 0 /\ errors = 0
Up == link[0] = "up"

(* Where a scan may be, from the decision to request it to the moment the  *)
(* monitor is resumed.                                                     *)
Requesting == mon.pc \in {"reset", "pause", "request"}
Asked == Holds(c2s[0], Scans)
Accepted == main \in {"start", "startFull"}
Hashing == hasher.pc # "idle"
Announced == Holds(s2c[0], Ends)
Completing == lis.pc \in {"buffer", "send", "resume", "reset", "pause", "request"}
Copying == repl.pc # "off"

(* It is at one of these places, once.                                     *)
OneScan ==
  /\ Once(c2s[0], Scans) /\ Once(s2c[0], Ends)
  /\ Asked => ~Requesting
  /\ Accepted => ~Requesting /\ ~Asked
  /\ Hashing => ~Requesting /\ ~Asked /\ ~Accepted
  /\ Announced => ~Requesting /\ ~Asked /\ ~Accepted /\ ~Hashing
  /\ Completing => ~Requesting /\ ~Asked /\ ~Accepted /\ ~Hashing /\ ~Announced
  /\ Copying => ~Requesting /\ ~Asked /\ ~Accepted /\ ~Hashing /\ ~Announced /\ ~Completing

(* While it is, the monitor waits or is about to; when the monitor works   *)
(* on a batch, no pause is in the channel.                                 *)
MonitorHeld ==
  /\ Asked \/ Accepted \/ Hashing \/ Announced \/ Completing \/ Copying =>
       \/ mon.pc = "blocked" /\ pause # "Running"
       \/ mon.pc = "wait" /\ pause = "Paused"
  /\ mon.pc = "request" => pause = "Paused"
  /\ mon.pc \in {"read", "check", "encode"} => pause # "Paused"

SessionInv == FirstSession => failer.pc = "none" /\ OneScan /\ MonitorHeld
-----------------------------------------------------------------------------
(* The ring buffer was reset for a scan that is not requested yet.         *)
Resetting == mon.pc \in {"pause", "request"} \/ lis.pc \in {"pause", "request"}

(* The workers of InitHashing have still something to do.                  *)
Comparing == hashQueue # {} \/ compared # {} \/ Holds(s2c[0], {"PayloadHash"})

(* The completion of the current scan is on its way to the server, or it   *)
(* has arrived.                                                            *)
Completion(p) == p.type = "InfoHashingCompleted" /\ p.scan = current.scan
Finishing ==
  \/ Up /\ lis.pc \in {"send", "resume", "complete"} /\ lis.tag = current.scan
  \/ \E i \in 1..Len(c2s[0]) : Completion(c2s[0][i])
  \/ main = "complete" /\ ~current.cut

(* The number of a scan at each place; a command carries a number the      *)
(* server has not seen, a completion one it has.                           *)
Numbered(p) ==
  /\ p.type \in Commands => current.scan < p.scan /\ p.scan <= epoch
  /\ p.type \in Scans => p.scan = epoch
  /\ p.type = "InfoHashingCompleted" => p.scan <= current.scan

ScanNumbers ==
  /\ current.scan <= epoch
  /\ mon.pc \in {"pause", "request"} => mon.tag = epoch /\ current.scan < epoch
  /\ lis.pc \in {"pause", "request"} => lis.tag = epoch /\ current.scan < epoch
  /\ \A i \in 1..Len(c2s[0]) : Numbered(c2s[0][i])
  /\ Resetting =>
       \A i \in 1..Len(c2s[0]) : c2s[0][i].type \in Commands => c2s[0][i].scan < epoch
  /\ Accepted \/ Hashing \/ Announced => current.scan = epoch
  /\ Hashing => hasher.scan = epoch
  /\ \A i \in 1..Len(s2c[0]) : s2c[0][i].type \in Ends => s2c[0][i].scan = epoch
  /\ lis.pc \in {"buffer", "send", "resume"} => lis.tag = epoch /\ current.scan = epoch
  /\ lis.pc \in {"send", "resume"} => lis.read = epoch
  /\ lis.pc = "complete" => lis.tag = lis.read /\ lis.tag <= current.scan

(* The writes on their way to the replica: those of the current scan were  *)
(* received after it.                                                      *)
Entries == Range(writeQueue[0]) \union Range(writer[0])
EntryInv ==
  /\ Len(writer[0]) <= 1
  /\ ses = -1 => writeQueue[0] = <<>> /\ writer[0] = <<>>
  /\ \A e \in Entries : e.scan <= current.scan
  /\ state \notin {"Writing", "Disconnected", "JournalOverflow"} => \A e \in Entries : e.scan # current.scan
  /\ state = "Writing" /\ ~current.applied => \A e \in Entries : e.scan = current.scan

(* A batch is sent as a whole before the next one is read, and the workers *)
(* send blocks of their own kind.                                          *)
BatchInv ==
  /\ mon.pc \notin {"check", "encode"} => mon.batch = <<>>
  /\ lis.pc # "send" => lis.batch = <<>>
  /\ \A p \in compared : p.type = "CorrectBlock"
  /\ \A p \in repl.read : p.type = "ReplicationBlock"

(* Hashes are compared while HashDisk runs or before its end is received,  *)
(* and the correct blocks are sent before the completion; a copy is only   *)
(* requested first.                                                        *)
Ordered(p, q) ==
  /\ Completion(p) \/ p.type \in Scans => q.type # "CorrectBlock"
  /\ q.type \in Copies => p.type \notin Commands \union {"InfoReplicationCompleted"}
  /\ p.type \in Commands /\ q.type \in Commands => p.scan < q.scan
InOrder == \A i, j \in 1..Len(c2s[0]) : i < j => Ordered(c2s[0][i], c2s[0][j])
EndsLast(q) ==
  \A i, j \in 1..Len(q) : i < j /\ q[i].type \in Ends => q[j].type # "PayloadHash"

HashInv ==
  /\ hasher.pc = "reset" => hasher.todo = Blocks
  /\ main \in {"init", "leave"} /\ Up => hasher.pc = "idle"
  /\ Up /\ Comparing => hasher.pc = "hash" \/ Announced
  /\ Finishing \/ lis.pc = "buffer" => ~Comparing
  /\ Finishing => ~Accepted /\ ~Hashing /\ ~Announced /\ lis.pc # "buffer"
  /\ EndsLast(s2c[0]) /\ InOrder
  /\ Accepted \/ hasher.pc = "reset" \/ (main = "complete" /\ ~current.cut) =>
       ~Holds(c2s[0], {"CorrectBlock"})

(* A full scan or a full replication is only requested first, and nothing  *)
(* of it is left when a scan with a journal runs.                          *)
CopyOpen ==
  \/ replOn /\ main # "copied"
  \/ main = "startCopy"
  \/ Holds(c2s[0], {"InfoStartReplication"})

CopyEnded(q) ==
  \A i \in 1..Len(q) : q[i].type \in Scans =>
    \E j \in 1..i-1 : q[j].type = "InfoReplicationCompleted"

CopyInv ==
  /\ synced = "prefix" \/ state = "Hashing" =>
       /\ mon.kind = "scan" /\ ~Holds(c2s[0], Copies)
       /\ main \notin {"startCopy", "startFull"} /\ ~replOn /\ state # "DestroyingReplica"
  /\ mon.kind # "scan" =>
       /\ Requesting /\ ~replOn /\ main # "startCopy"
       /\ ~Holds(c2s[0], Commands \union {"InfoReplicationCompleted"})
  /\ CopyOpen => CopyEnded(c2s[0])
  /\ CopyOpen /\ Up /\ repl.pc # "copy" => Holds(c2s[0], {"InfoReplicationCompleted"})

ControlInv == ScanNumbers /\ EntryInv /\ BatchInv /\ HashInv /\ CopyInv

(* The first packet the server takes is the InitInfo.                      *)
InitInv ==
  main \in {"accept", "init"} /\ (Up \/ c2s[0] # <<>>) =>
    c2s[0] # <<>> /\ c2s[0][1].type = "InfoInit"
-----------------------------------------------------------------------------
(* v is the last of the first n writes that went to block b.               *)
LastWrite(v, b, n) ==
  /\ v \in 0..n /\ (v # 0 => log[v] = b)
  /\ \A w \in v+1..n : log[w] # b
NoWrite(b, m, n) == \A w \in m+1..n : log[w] # b

(* The source has every write but those still on their way to it.          *)
SourceInv ==
  \A b \in Blocks :
    /\ flying[b] = None => LastWrite(source[b], b, Len(log))
    /\ flying[b] # None => /\ LastWrite(flying[b], b, Len(log))
                           /\ LastWrite(source[b], b, flying[b] - 1)

(* m[i] is the last write before or at the i-th packet of q: the buffer    *)
(* writes are consecutive, and only a reset of the ring buffer, which a    *)
(* command follows, leaves some out.                                       *)
Marks(q, m) ==
  /\ m \in [0..Len(q) -> Nat]
  /\ \A i \in 1..Len(q) :
       /\ q[i].type = "BufferWrite" => m[i] = m[i-1] + 1 /\ q[i].write = m[i]
       /\ q[i].type \in Commands => m[i-1] <= m[i]
       /\ q[i].type \notin Commands \union {"BufferWrite"} => m[i] = m[i-1]

(* The writes after the f-th are in the ring buffer; those before were     *)
(* read from it, and follow those on the connection.                       *)
StreamInv(m, f) ==
  LET sent == m[Len(c2s[0])]
  IN /\ Marks(c2s[0], m) /\ sent <= Len(log)
     /\ f \in Nat /\ f + Len(fresh) <= Len(log)
     /\ \A i \in 1..Len(fresh) : fresh[i] = f + i
     /\ ~overflown => f + Len(fresh) = Len(log)
     /\ Up /\ Resetting => sent <= f
     /\ Up /\ ~Resetting =>
          /\ f = sent + Len(mon.batch) + Len(lis.batch)
          /\ \A i \in 1..Len(mon.batch) : mon.batch[i] = sent + i
          /\ \A i \in 1..Len(lis.batch) : lis.batch[i] = sent + i

(* From the command to the end of the comparison no write is sent.         *)
Scanning == Accepted \/ Hashing \/ Announced \/ lis.pc = "buffer"
SilentInv(m) ==
  /\ \A i, j \in 1..Len(c2s[0]) : c2s[0][i].type \in Scans /\ i <= j => m[j] = m[i]
  /\ Scanning => \A j \in 0..Len(c2s[0]) : m[j] = m[0]

(* Whatever was not on its way to the source when the ring buffer was      *)
(* reset for the scan comes after the f-th write.                          *)
LandedInv(f) ==
  Up /\ (Resetting \/ Asked \/ Scanning) =>
    \A b \in Blocks \ resets[epoch].straddling : flying[b] = None \/ flying[b] > f

(* The journal of a scan that was not cut short has the writes after the   *)
(* base-th, which was the last one before the scan.                        *)
Journalling == state = "Hashing" /\ ~current.cut
JournalInv(m, base, jm) ==
  Journalling =>
    /\ base \in Nat /\ base <= m[0]
    /\ Scanning => base = m[0]
    /\ \A e \in Range(writer[0]) : e.write <= base
    /\ hasher.pc = "reset" => journalQueue = <<>>
    /\ ~Accepted /\ hasher.pc # "reset" =>
         /\ \A i \in 1..Len(jWrites) : jWrites[i] = base + i
         /\ Marks(journalQueue, jm)
         /\ jm[0] = base + Len(jWrites) /\ jm[Len(journalQueue)] = m[0]

(* Hashes the client has not compared, and correct blocks that are not in  *)
(* the replica.                                                            *)
Hashes == hashQueue \union {p \in Range(s2c[0]) : p.type = "PayloadHash"}
Corrects ==
  compared \union {p \in Range(c2s[0]) : p.type = "CorrectBlock"}
    \union {p \in Range(journalQueue) : p.type # "BufferWrite"} \union Range(jBlocks)

(* The scan finds out that block b is to be what it was after the base-th  *)
(* write.                                                                  *)
Settled(b, base) ==
  \A v \in 0..base : LastWrite(v, b, base) =>
    /\ \A p \in Corrects : p.blk = b => p.val = v
    /\ \A h \in Hashes : h.blk = b /\ h.val = v => replica[b] = v
    /\ b \notin hasher.todo /\ (\A h \in Hashes : h.blk # b) =>
         replica[b] = v \/ \E p \in Corrects : p.blk = b

(* It does so for each block that is not written until the ring buffer is  *)
(* read, after the last-th write, and that is not excused.                 *)
Unsettled == resets[current.scan].straddling \union rewound.now \union stray.now
Compared == hasher.pc = "hash" \/ Announced \/ lis.pc = "buffer"
ScanInv(m, base, last) ==
  /\ Journalling /\ Up /\ Compared =>
       /\ \A b \in Blocks \ Unsettled : NoWrite(b, base, Len(log)) => Settled(b, base)
       /\ \A p \in Corrects \union Hashes : p.blk \notin hasher.todo
       /\ hasher.pc # "hash" => hasher.todo = {}
  /\ Journalling /\ Finishing =>
       /\ last \in Nat /\ base <= last
       /\ \A b \in Blocks \ Unsettled : NoWrite(b, base, last) => Settled(b, base)
       /\ hasher.todo = {}
       /\ Up /\ lis.pc \in {"send", "resume", "complete"} /\ lis.tag = current.scan =>
            last <= m[Len(c2s[0])] + Len(lis.batch)
       /\ \A i \in 1..Len(c2s[0]) : Completion(c2s[0][i]) => last <= m[i]
       /\ main = "complete" => last <= m[0]

(* The replica has the first k writes, and the write queue the next ones.  *)
QueueMarks(q, m) ==
  /\ m \in [0..Len(q) -> Nat]
  /\ \A i \in 1..Len(q) :
       /\ q[i].scan = current.scan => m[i] = m[i-1] + 1 /\ q[i].write = m[i]
       /\ q[i].scan # current.scan => m[i] = m[i-1]

PrefixInv(m, k, qm) ==
  synced = "prefix" =>
    /\ k \in Nat /\ k <= m[0]
    /\ \A b \in Blocks \ Excused : LastWrite(replica[b], b, k)
    /\ state # "Writing" => \A e \in Range(writer[0]) : e.write <= k + 1
    /\ \A e \in Range(writer[0]) : e.scan = current.scan => e.write = k + 1
    /\ state = "Writing" =>
         /\ QueueMarks(writeQueue[0], qm)
         /\ qm[Len(writeQueue[0])] = m[0]
         /\ (\A e \in Range(writer[0]) : e.scan # current.scan) => qm[0] = k
         /\ (\E e \in Range(writer[0]) : e.scan = current.scan) => qm[0] = k + 1

(* Every queued write was received.                                        *)
ReceivedInv(m) == \A e \in Entries : e.write <= m[0]

DataInv(m, f, base, jm, last, k, qm) ==
  /\ StreamInv(m, f) /\ SilentInv(m) /\ LandedInv(f) /\ ReceivedInv(m)
  /\ JournalInv(m, base, jm) /\ ScanInv(m, base, last) /\ PrefixInv(m, k, qm)

FirstSessionInv ==
  FirstSession =>
    /\ ControlInv /\ InitInv /\ SourceInv
    /\ \E m, f, base, jm, last, k, qm : DataInv(m, f, base, jm, last, k, qm)
=============================================================================
