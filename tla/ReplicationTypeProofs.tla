------------------------- MODULE ReplicationTypeProofs -------------------------
(***************************************************************************)
(* Type correctness of the whole system, for every number of blocks,       *)
(* queues of every length and any number of breaks and errors: every       *)
(* queue, connection, worker pool and journal section stays within its     *)
(* bound, and nothing on its way, on a device or in the journal is a write *)
(* that was not issued.  TypeOK is inductive.  Its seven parts each have a *)
(* lemma for the steps that leave them alone, and every action one for     *)
(* those it disturbs.                                                      *)
(***************************************************************************)
EXTENDS Replication, SequenceTheorems, FiniteSetTheorems, TLAPS

(* Most leaves are first-order: Zenon unless a leaf names another prover.  *)
USE Zenon

(* What appending, taking and cutting do to a bounded queue.               *)
LEMMA AppendBounded ==
  ASSUME NEW S, NEW max \in Nat, NEW q, Bounded(q, S, max), Len(q) < max, NEW e \in S
  PROVE  Bounded(Append(q, e), S, max)
<1>1. Append(q, e) \in Seq(S) /\ Len(Append(q, e)) = Len(q) + 1 /\ Len(q) \in Nat
  BY AppendProperties, LenProperties DEF Bounded
<1>. QED
  BY <1>1, SMT DEF Bounded

LEMMA TailBounded ==
  ASSUME NEW S, NEW max \in Nat, NEW q, Bounded(q, S, max), q # <<>>
  PROVE  Bounded(Tail(q), S, max) /\ Head(q) \in S
<1>1. Tail(q) \in Seq(S) /\ Head(q) \in S /\ Len(Tail(q)) = Len(q) - 1 /\ Len(q) \in Nat
  BY HeadTailProperties, LenProperties DEF Bounded
<1>. QED
  BY <1>1, SMT DEF Bounded

LEMMA PrefixBounded ==
  ASSUME NEW S, NEW max \in Nat, NEW q, Bounded(q, S, max), NEW m \in 0..Len(q)
  PROVE  Bounded(SubSeq(q, 1, m), S, max)
<1>1. Len(q) \in Nat /\ \A i \in 1..m : q[i] \in S
  BY LenProperties, ElementOfSeq, SMT DEF Bounded
<1>2. /\ SubSeq(q, 1, m) \in Seq(S)
      /\ Len(SubSeq(q, 1, m)) = IF 1 <= m THEN m - 1 + 1 ELSE 0
  BY <1>1, SubSeqProperties, SMT
<1>. QED
  BY <1>1, <1>2, SMT DEF Bounded

LEMMA TailNonEmpty ==
  ASSUME NEW S, NEW q \in Seq(S), q # <<>>, Len(q) # 1
  PROVE  Tail(q) # <<>>
<1>1. Len(q) \in Nat /\ Len(Tail(q)) = Len(q) - 1
  BY LenProperties, HeadTailProperties
<1>2. \A t : t = <<>> => Len(t) = 0
  BY EmptySeq
<1>3. Tail(q) = <<>> => Len(Tail(q)) = 0
  BY <1>2
<1>. QED
  BY <1>1, <1>3, SMT

LEMMA EmptyBounded ==
  ASSUME NEW S, NEW max \in Nat
  PROVE  Bounded(<<>>, S, max)
BY EmptySeq, SMT DEF Bounded

LEMMA UpdateBounded ==
  ASSUME NEW S, NEW max \in Nat, NEW qs, AllBounded(qs, S, max),
         NEW k \in Conns, NEW q, Bounded(q, S, max)
  PROVE  AllBounded([qs EXCEPT ![k] = q], S, max)
BY DEF AllBounded, Bounded

LEMMA MemberBounded ==
  ASSUME NEW S, NEW max \in Nat, NEW qs, AllBounded(qs, S, max), NEW k \in Conns
  PROVE  Bounded(qs[k], S, max)
BY DEF AllBounded, Bounded

(* What may be on its way depends on the log alone.                        *)
LEMMA SameLog ==
  ASSUME UNCHANGED log
  PROVE  /\ Issued' = Issued /\ Contents' = Contents
         /\ WritePacket' = WritePacket /\ BlockPacket' = BlockPacket
         /\ Packet' = Packet /\ HashPacket' = HashPacket /\ Reply' = Reply
         /\ QueuedWrite' = QueuedWrite
<1>1. Issued' = Issued /\ Contents' = Contents /\ Len(log') = Len(log)
  BY DEF Issued, Contents
<1>2. /\ WritePacket' = WritePacket /\ BlockPacket' = BlockPacket
      /\ HashPacket' = HashPacket /\ QueuedWrite' = QueuedWrite
  BY <1>1 DEF WritePacket, BlockPacket, HashPacket, QueuedWrite
<1>. QED
  BY <1>1, <1>2 DEF Packet, Reply

(* Each part of the type invariant, when its variables are left alone.     *)
LEMMA AppKept ==
  ASSUME AppType, UNCHANGED <<app, ring>>
  PROVE  AppType'
BY SameLog DEF AppType, app, ring

LEMMA NetKept ==
  ASSUME NetType, UNCHANGED <<app, net>>
  PROVE  NetType'
BY SameLog DEF NetType, app, net

LEMMA ClientKept ==
  ASSUME ClientType, UNCHANGED <<log, cstate, pause, mon, lis>>
  PROVE  ClientType'
BY SameLog, SMT DEF ClientType

LEMMA WorkersKept ==
  ASSUME WorkersType, UNCHANGED <<log, workers>>
  PROVE  WorkersType'
BY SameLog DEF WorkersType, workers

LEMMA ServerKept ==
  ASSUME ServerType, UNCHANGED <<cur, fits, ses, state, main, hasher, journal, current>>
  PROVE  ServerType'
BY DEF ServerType, journal

LEMMA QueuesKept ==
  ASSUME QueuesType, UNCHANGED <<log, journal, direct, replica>>
  PROVE  QueuesType'
BY SameLog DEF QueuesType, journal, direct

LEMMA HistoryKept ==
  ASSUME HistoryType, UNCHANGED <<history, bounds>>
  PROVE  HistoryType'
BY DEF HistoryType, history, excuses, bounds

(* A packet is sent, received, taken by the server, answered or cut off.   *)
LEMMA SendKeepsNet ==
  ASSUME NetType, NEW p \in Packet, ToServer(p), UNCHANGED <<log, s2c, link, cur>>
  PROVE  NetType'
<1>1. /\ cur \in Conns /\ AllBounded(c2s, Packet, Window)
      /\ Len(c2s[cur]) < Window
      /\ c2s' = [c2s EXCEPT ![cur] = Append(c2s[cur], p)]
  BY DEF NetType, ToServer, CanSend, Room
<1>2. AllBounded(c2s', Packet, Window)
  BY <1>1, MemberBounded, AppendBounded, UpdateBounded, ConstantsAssumption
<1>. QED
  BY <1>2, SameLog DEF NetType

LEMMA ReceiveKeepsNet ==
  ASSUME NetType, s2c[cur] # <<>>, s2c' = [s2c EXCEPT ![cur] = Tail(@)],
         UNCHANGED <<log, c2s, link, cur>>
  PROVE  NetType' /\ Head(s2c[cur]) \in Reply
<1>1. cur \in Conns /\ Bounded(s2c[cur], Reply, Window)
  BY MemberBounded, ConstantsAssumption DEF NetType
<1>2. Bounded(Tail(s2c[cur]), Reply, Window) /\ Head(s2c[cur]) \in Reply
  BY <1>1, TailBounded, ConstantsAssumption
<1>3. AllBounded(s2c', Reply, Window)
  BY <1>1, <1>2, UpdateBounded, ConstantsAssumption DEF NetType
<1>. QED
  BY <1>2, <1>3, SameLog DEF NetType

LEMMA ArriveKeepsC2S ==
  ASSUME NetType, ses \in Conns, c2s[ses] # <<>>, c2s' = [c2s EXCEPT ![ses] = Tail(@)]
  PROVE  AllBounded(c2s', Packet, Window) /\ Head(c2s[ses]) \in Packet
<1>1. Bounded(c2s[ses], Packet, Window)
  BY MemberBounded, ConstantsAssumption DEF NetType
<1>2. Bounded(Tail(c2s[ses]), Packet, Window) /\ Head(c2s[ses]) \in Packet
  BY <1>1, TailBounded, ConstantsAssumption
<1>. QED
  BY <1>2, UpdateBounded, ConstantsAssumption DEF NetType

LEMMA AnswerKeepsS2C ==
  ASSUME NetType, ses \in Conns, NEW p \in Reply, ToClient(p)
  PROVE  AllBounded(s2c', Reply, Window)
<1>1. AllBounded(s2c, Reply, Window) /\ Bounded(s2c[ses], Reply, Window)
  BY MemberBounded, ConstantsAssumption DEF NetType
<1>2. CASE UNCHANGED s2c
  BY <1>1, <1>2
<1>3. CASE Room(s2c, ses) /\ s2c' = [s2c EXCEPT ![ses] = Append(@, p)]
  <2>1. Len(s2c[ses]) < Window
    BY <1>3 DEF Room
  <2>2. Bounded(Append(s2c[ses], p), Reply, Window)
    BY <1>1, <2>1, AppendBounded, ConstantsAssumption
  <2>. QED
    BY <1>1, <1>3, <2>2, UpdateBounded, ConstantsAssumption
<1>. QED
  BY <1>2, <1>3 DEF ToClient

LEMMA CutBounded ==
  ASSUME NEW S, NEW max \in Nat, NEW qs, AllBounded(qs, S, max), NEW k \in Conns,
         NEW m \in 0..Len(qs[k])
  PROVE  AllBounded([qs EXCEPT ![k] = SubSeq(@, 1, m)], S, max)
<1>1. Bounded(SubSeq(qs[k], 1, m), S, max)
  BY MemberBounded, PrefixBounded
<1>. QED
  BY <1>1, UpdateBounded
-----------------------------------------------------------------------------
(* The monitor and the requests for a scan.                                *)
LEMMA WaitIfPausedType ==
  ASSUME TypeOK, WaitIfPaused
  PROVE  TypeOK'
<1>1. ClientType'
  BY SameLog DEF TypeOK, ClientType, WaitIfPaused, app
<1>. QED
  BY <1>1, AppKept, NetKept, WorkersKept, ServerKept, QueuesKept, HistoryKept
  DEF TypeOK, WaitIfPaused, app, net, server, history

LEMMA MonitorReadType ==
  ASSUME TypeOK, MonitorRead
  PROVE  TypeOK'
<1>0. UNCHANGED <<app, net, cstate, pause, lis, workers, server, bounds>>
      /\ UNCHANGED <<finished, current, synced, excuses>>
  BY DEF MonitorRead
<1>1. /\ fresh \in Seq(Issued) /\ log \in Seq(Blocks) /\ finished \in Nat
      /\ resets \in Seq([straddling : SUBSET Blocks, snatched : SUBSET Blocks])
      /\ epoch \in Nat
  BY LenProperties DEF TypeOK, AppType, HistoryType, Bounded, epoch
<1>2. AppType' /\ resets' \in Seq([straddling : SUBSET Blocks, snatched : SUBSET Blocks]) /\ ClientType'
  <2>1. CASE overflown /\ mon' = [mon EXCEPT !.pc = "reset"] /\ UNCHANGED <<ring, resets>>
    <3>1. ClientType'
      BY <1>0, <2>1, SameLog DEF TypeOK, ClientType, app
    <3>. QED
      BY <1>0, <1>1, <2>1, <3>1, AppKept DEF TypeOK
  <2>2. CASE /\ Ring!Take
             /\ mon' = [mon EXCEPT !.pc = IF fresh = <<>> THEN "wait" ELSE "check",
                                   !.batch = fresh,
                                   !.tag = IF fresh = <<>> THEN 0 ELSE epoch]
             /\ resets' = IF finished < epoch
                            THEN [resets EXCEPT ![epoch].snatched = @ \union {log[w] : w \in Range(fresh)}]
                            ELSE resets
    <3>1. fresh' = <<>> /\ held' = Len(fresh)
      BY <2>2 DEF Ring!Take
    <3>2. AppType'
      BY <1>0, <1>1, <3>1, SameLog, EmptySeq, LenProperties DEF TypeOK, AppType, app
    <3>3. ClientType'
      BY <1>0, <1>1, <2>2, SameLog DEF TypeOK, ClientType, app
    <3>4. {log[w] : w \in Range(fresh)} \subseteq Blocks
      <4>1. \A w \in Range(fresh) : w \in 1..Len(log)
        BY <1>1, RangeOfSeq DEF Issued
      <4>. QED
        BY <1>1, <4>1, ElementOfSeq
    <3>5. CASE finished < epoch
      <4>1. epoch \in 1..Len(resets)
        BY <1>1, <3>5, SMT DEF epoch
      <4>2. resets[epoch] \in [straddling : SUBSET Blocks, snatched : SUBSET Blocks]
        BY <1>1, <4>1, ElementOfSeq
      <4>3. [resets[epoch] EXCEPT !.snatched = @ \union {log[w] : w \in Range(fresh)}]
              \in [straddling : SUBSET Blocks, snatched : SUBSET Blocks]
        BY <3>4, <4>2
      <4>4. resets' = [resets EXCEPT ![epoch] =
                         [resets[epoch] EXCEPT !.snatched = @ \union {log[w] : w \in Range(fresh)}]]
        BY <2>2, <3>5
      <4>5. PICK r \in [straddling : SUBSET Blocks, snatched : SUBSET Blocks] :
               resets' = [resets EXCEPT ![epoch] = r]
        BY <4>3, <4>4
      <4>6. resets' \in Seq([straddling : SUBSET Blocks, snatched : SUBSET Blocks])
        BY <1>1, <4>1, <4>5, ExceptSeq
      <4>. QED
        BY <3>2, <3>3, <4>6
    <3>6. CASE ~(finished < epoch)
      BY <1>1, <2>2, <3>2, <3>3, <3>6
    <3>. QED
      BY <3>5, <3>6
  <2>. QED
    BY <2>1, <2>2 DEF MonitorRead
<1>3. HistoryType'
  BY <1>0, <1>2 DEF TypeOK, HistoryType, bounds, excuses
<1>. QED
  BY <1>0, <1>2, <1>3, NetKept, WorkersKept, ServerKept, QueuesKept
  DEF TypeOK, app, net, server

LEMMA MonitorCheckType ==
  ASSUME TypeOK, MonitorCheck
  PROVE  TypeOK'
<1>1. ClientType'
  <2>1. UNCHANGED <<log, cstate, pause, lis>> /\ mon.pc = "check"
    BY DEF MonitorCheck, app
  <2>2. CASE MonitorDone
    BY <2>1, <2>2, SameLog, EmptySeq DEF TypeOK, ClientType, MonitorDone
  <2>3. CASE mon' = [mon EXCEPT !.pc = "encode"]
    BY <2>1, <2>3, SameLog DEF TypeOK, ClientType
  <2>. QED
    BY <2>2, <2>3 DEF MonitorCheck
<1>. QED
  BY <1>1, AppKept, NetKept, WorkersKept, ServerKept, QueuesKept, HistoryKept
  DEF TypeOK, MonitorCheck, app, net, server, history

LEMMA MonitorSendType ==
  ASSUME TypeOK, MonitorSend
  PROVE  TypeOK'
<1>1. /\ mon.batch \in Seq(Issued) /\ mon.batch # <<>> /\ mon.tag \in Nat
      /\ Head(mon.batch) \in Issued /\ Tail(mon.batch) \in Seq(Issued)
  BY HeadTailProperties DEF TypeOK, ClientType, MonitorSend
<1>2. [type |-> "BufferWrite", write |-> Head(mon.batch), tag |-> mon.tag] \in Packet
  BY <1>1 DEF Packet, WritePacket
<1>3. NetType'
  BY <1>2, SendKeepsNet, NetKept DEF TypeOK, MonitorSend, app, net
<1>4. ClientType'
  <2>1. UNCHANGED <<log, cstate, pause, lis>>
    BY DEF MonitorSend, app
  <2>2. CASE MonitorDone
    BY <2>1, <2>2, SameLog, EmptySeq DEF TypeOK, ClientType, MonitorDone
  <2>3. CASE Len(mon.batch) # 1 /\ mon' = [mon EXCEPT !.pc = "check", !.batch = Tail(@)]
    <3>1. Tail(mon.batch) # <<>>
      BY <1>1, <2>3, TailNonEmpty
    <3>. QED
      BY <1>1, <2>1, <2>3, <3>1, SameLog DEF TypeOK, ClientType
  <2>. QED
    BY <2>2, <2>3 DEF MonitorSend
<1>. QED
  BY <1>3, <1>4, AppKept, WorkersKept, ServerKept, QueuesKept, HistoryKept
  DEF TypeOK, MonitorSend, app, server, history
-----------------------------------------------------------------------------
LEMMA ResetRingType ==
  ASSUME TypeOK, ResetRing
  PROVE  /\ AppType' /\ NetType' /\ ServerType' /\ QueuesType' /\ HistoryType'
         /\ epoch \in Nat
<1>1. /\ UNCHANGED <<app, net, server, finished, current, synced, excuses, bounds>>
      /\ fresh' = <<>> /\ held' = 0
      /\ resets' = Append(resets, [straddling |-> {b \in Blocks : flying[b] # None},
                                   snatched |-> {}])
  BY DEF ResetRing, Ring!Discard
<1>2. AppType'
  BY <1>1, SameLog, EmptySeq DEF TypeOK, AppType, app
<1>3. resets \in Seq([straddling : SUBSET Blocks, snatched : SUBSET Blocks]) /\ epoch \in Nat
  BY LenProperties DEF TypeOK, HistoryType, epoch
<1>4. resets' \in Seq([straddling : SUBSET Blocks, snatched : SUBSET Blocks])
  <2>1. [straddling |-> {b \in Blocks : flying[b] # None}, snatched |-> {}]
          \in [straddling : SUBSET Blocks, snatched : SUBSET Blocks]
    OBVIOUS
  <2>. QED
    BY <1>1, <1>3, <2>1, AppendProperties
<1>5. HistoryType'
  BY <1>1, <1>4 DEF TypeOK, HistoryType, bounds, excuses
<1>. QED
  BY <1>1, <1>2, <1>3, <1>5, NetKept, ServerKept, QueuesKept DEF TypeOK, app, server, net

LEMMA PauseMonitorType ==
  ASSUME TypeOK, NEW kind, PauseMonitor(kind)
  PROVE  /\ AppType' /\ NetType' /\ ServerType' /\ QueuesType' /\ HistoryType'
         /\ pause' = "Paused" /\ cstate' \in {"Hashing", "Replicating"}
BY AppKept, NetKept, ServerKept, QueuesKept, HistoryKept
DEF TypeOK, PauseMonitor, app, server, net, history

LEMMA RequestScanType ==
  ASSUME TypeOK, NEW kind \in {"scan", "full", "replicate"}, NEW n \in Nat, RequestScan(kind, n)
  PROVE  /\ AppType' /\ NetType' /\ ServerType' /\ QueuesType' /\ HistoryType'
<1>1. [type |-> Command(kind), scan |-> n] \in Packet
  BY DEF Packet, Command
<1>2. NetType'
  BY <1>1, SendKeepsNet DEF TypeOK, RequestScan, app
<1>. QED
  BY <1>2, AppKept, ServerKept, QueuesKept, HistoryKept
  DEF TypeOK, RequestScan, app, server, history

LEMMA MonitorStartHashingType ==
  ASSUME TypeOK, MonitorStartHashing
  PROVE  TypeOK'
<1>1. CASE /\ mon.pc = "reset" /\ mon' = [mon EXCEPT !.pc = "pause", !.tag = epoch + 1]
           /\ ResetRing /\ UNCHANGED <<lis, failer>>
  <2>1. UNCHANGED <<log, cstate, pause, lis, workers>>
    BY <1>1 DEF ResetRing, app, workers
  <2>2. ClientType'
    <3>1. epoch + 1 \in Nat
      BY <1>1, ResetRingType, SMT
    <3>. QED
      BY <1>1, <2>1, <3>1, SameLog DEF TypeOK, ClientType
  <2>. QED
    BY <1>1, <2>1, <2>2, ResetRingType, WorkersKept DEF TypeOK
<1>2. CASE /\ mon.pc = "pause" /\ mon' = [mon EXCEPT !.pc = "request"]
           /\ PauseMonitor(mon.kind) /\ UNCHANGED <<lis, failer>>
  <2>1. UNCHANGED <<log, lis, workers>>
    BY <1>2 DEF PauseMonitor, app, workers
  <2>2. PICK kind : kind = mon.kind /\ PauseMonitor(kind)
    BY <1>2
  <2>3. ClientType'
    BY <1>2, <2>1, <2>2, PauseMonitorType, SameLog DEF TypeOK, ClientType
  <2>. QED
    BY <2>1, <2>2, <2>3, PauseMonitorType, WorkersKept DEF TypeOK
<1>3. CASE /\ mon.pc = "request"
           /\ RequestScan(mon.kind, mon.tag)
           /\ mon' = [mon EXCEPT !.pc = "wait", !.tag = 0, !.kind = "scan"]
           /\ lis' = [lis EXCEPT !.pc = IF @ = "starting" THEN "receive" ELSE @]
           /\ repl' = IF mon.kind = "replicate"
                        THEN [pc |-> "copy", todo |-> Blocks, read |-> {}, tag |-> mon.tag]
                        ELSE repl
           /\ UNCHANGED failer
  <2>1. UNCHANGED <<log, cstate, pause, hashQueue, compared, failer>>
    BY <1>3 DEF RequestScan, app
  <2>2. mon.kind \in {"scan", "full", "replicate"} /\ mon.tag \in Nat
    BY DEF TypeOK, ClientType
  <2>3. PICK kind \in {"scan", "full", "replicate"}, n \in Nat : RequestScan(kind, n)
    BY <1>3, <2>2
  <2>4. ClientType'
    BY <1>3, <2>1, SameLog DEF TypeOK, ClientType
  <2>5. WorkersType'
    BY <1>3, <2>1, <2>2, SameLog, FS_EmptySet, ConstantsAssumption, SMT DEF TypeOK, WorkersType
  <2>. QED
    BY <2>3, <2>4, <2>5, RequestScanType DEF TypeOK
<1>. QED
  BY <1>1, <1>2, <1>3 DEF MonitorStartHashing

LEMMA ListenerStartHashingType ==
  ASSUME TypeOK, ListenerStartHashing
  PROVE  TypeOK'
<1>1. CASE lis.pc = "reset" /\ lis' = [lis EXCEPT !.pc = "pause", !.tag = epoch + 1] /\ ResetRing
  <2>1. UNCHANGED <<log, cstate, pause, mon, workers>>
    BY <1>1 DEF ListenerStartHashing, ResetRing, app, workers
  <2>2. ClientType'
    <3>1. epoch + 1 \in Nat
      BY <1>1, ResetRingType, SMT
    <3>. QED
      BY <1>1, <2>1, <3>1, SameLog DEF TypeOK, ClientType
  <2>. QED
    BY <1>1, <2>1, <2>2, ResetRingType, WorkersKept DEF TypeOK
<1>2. CASE lis.pc = "pause" /\ lis' = [lis EXCEPT !.pc = "request"] /\ PauseMonitor("scan")
  <2>1. UNCHANGED <<log, mon, workers>>
    BY <1>2 DEF ListenerStartHashing, PauseMonitor, app, workers
  <2>2. ClientType'
    BY <1>2, <2>1, PauseMonitorType, SameLog DEF TypeOK, ClientType
  <2>. QED
    BY <1>2, <2>1, <2>2, PauseMonitorType, WorkersKept DEF TypeOK
<1>3. CASE /\ lis.pc = "request" /\ lis' = [lis EXCEPT !.pc = "receive", !.tag = 0]
           /\ RequestScan("scan", lis.tag) /\ UNCHANGED repl
  <2>1. UNCHANGED <<log, cstate, pause, mon, workers>>
    BY <1>3 DEF ListenerStartHashing, RequestScan, app, workers
  <2>2. PICK n \in Nat : RequestScan("scan", n)
    BY <1>3 DEF TypeOK, ClientType
  <2>3. ClientType'
    BY <1>3, <2>1, SameLog DEF TypeOK, ClientType
  <2>. QED
    BY <2>1, <2>2, <2>3, RequestScanType, WorkersKept DEF TypeOK
<1>. QED
  BY <1>1, <1>2, <1>3 DEF ListenerStartHashing

LEMMA WorkerStartHashingType ==
  ASSUME TypeOK, WorkerStartHashing
  PROVE  TypeOK'
<1>1. CASE failer.pc = "reset" /\ failer' = [pc |-> "pause", tag |-> epoch + 1] /\ ResetRing
  <2>1. UNCHANGED <<log, cstate, pause, mon, lis, hashQueue, compared, repl>>
    BY <1>1 DEF WorkerStartHashing, ResetRing, app
  <2>2. WorkersType'
    BY <1>1, <2>1, ResetRingType, SameLog, SMT DEF TypeOK, WorkersType
  <2>. QED
    BY <1>1, <2>1, <2>2, ResetRingType, ClientKept DEF TypeOK
<1>2. CASE failer.pc = "pause" /\ failer' = [failer EXCEPT !.pc = "request"] /\ PauseMonitor("scan")
  <2>1. UNCHANGED <<log, mon, lis, hashQueue, compared, repl>>
    BY <1>2 DEF WorkerStartHashing, PauseMonitor, app
  <2>2. WorkersType'
    BY <1>2, <2>1, SameLog DEF TypeOK, WorkersType
  <2>3. ClientType'
    BY <1>2, <2>1, PauseMonitorType, SameLog DEF TypeOK, ClientType
  <2>. QED
    BY <1>2, <2>2, <2>3, PauseMonitorType DEF TypeOK
<1>3. CASE /\ failer.pc = "request" /\ failer' = [pc |-> "none", tag |-> 0]
           /\ RequestScan("scan", failer.tag) /\ UNCHANGED repl
  <2>1. UNCHANGED <<log, cstate, pause, mon, lis, hashQueue, compared, repl>>
    BY <1>3 DEF WorkerStartHashing, RequestScan, app
  <2>2. PICK n \in Nat : RequestScan("scan", n)
    BY <1>3 DEF TypeOK, WorkersType
  <2>3. WorkersType'
    BY <1>3, <2>1, SameLog DEF TypeOK, WorkersType
  <2>. QED
    BY <2>1, <2>2, <2>3, RequestScanType, ClientKept DEF TypeOK
<1>. QED
  BY <1>1, <1>2, <1>3 DEF WorkerStartHashing
-----------------------------------------------------------------------------
(* The listener.                                                           *)
LEMMA ReceivedType ==
  ASSUME TypeOK, NEW types, Received(types)
  PROVE  /\ AppType' /\ NetType' /\ ServerType' /\ QueuesType' /\ HistoryType'
         /\ Head(s2c[cur]) \in Reply /\ Head(s2c[cur]).type \in types
         /\ UNCHANGED <<log, cstate, mon, compared, failer, repl>>
<1>1. /\ s2c[cur] # <<>> /\ s2c' = [s2c EXCEPT ![cur] = Tail(@)]
      /\ Head(s2c[cur]).type \in types
      /\ UNCHANGED <<app, ring, c2s, link, cur, cstate, mon, compared, failer, repl>>
      /\ UNCHANGED <<server, history, bounds>>
  BY DEF Received
<1>2. NetType' /\ Head(s2c[cur]) \in Reply
  BY <1>1, ReceiveKeepsNet DEF TypeOK, app
<1>. QED
  BY <1>1, <1>2, AppKept, ServerKept, QueuesKept, HistoryKept
  DEF TypeOK, app, server, history

LEMMA ReceiveHashType ==
  ASSUME TypeOK, ReceiveHash
  PROVE  TypeOK'
<1>1. /\ Received({"PayloadHash"}) /\ Cardinality(hashQueue) < QueueSize
      /\ hashQueue' = hashQueue \union {Head(s2c[cur])}
      /\ UNCHANGED <<pause, lis>>
  BY DEF ReceiveHash
<1>2. Head(s2c[cur]) \in HashPacket
  <2>1. Head(s2c[cur]) \in Reply /\ Head(s2c[cur]).type = "PayloadHash"
    BY <1>1, ReceivedType, SMT
  <2>2. \A p \in Reply : p.type = "PayloadHash" => p \in HashPacket
    BY DEF Reply
  <2>. QED
    BY <2>1, <2>2
<1>3. IsFiniteSet(hashQueue') /\ Cardinality(hashQueue') <= QueueSize
  <2>1. IsFiniteSet(hashQueue) /\ Cardinality(hashQueue) \in Nat
    BY FS_CardinalityType DEF TypeOK, WorkersType
  <2>2. /\ IsFiniteSet(hashQueue')
        /\ Cardinality(hashQueue') = Cardinality(hashQueue) \/ Cardinality(hashQueue') = Cardinality(hashQueue) + 1
    BY <1>1, <2>1, FS_AddElement
  <2>. QED
    BY <1>1, <2>1, <2>2, ConstantsAssumption, SMT
<1>4. WorkersType'
  BY <1>1, <1>2, <1>3, ReceivedType, SameLog DEF TypeOK, WorkersType
<1>. QED
  BY <1>1, <1>4, ReceivedType, ClientKept DEF TypeOK

LEMMA ReceiveStartHashingType ==
  ASSUME TypeOK, ReceiveStartHashing
  PROVE  TypeOK'
BY ReceivedType, ClientKept, WorkersKept DEF TypeOK, ReceiveStartHashing, workers

LEMMA ReceiveHashingCompletedType ==
  ASSUME TypeOK, ReceiveHashingCompleted
  PROVE  TypeOK'
<1>1. /\ Received({"InfoHashingCompleted"})
      /\ lis' = [lis EXCEPT !.pc = "buffer", !.tag = Head(s2c[cur]).scan]
      /\ UNCHANGED <<pause, hashQueue>>
  BY DEF ReceiveHashingCompleted
<1>2. Head(s2c[cur]).scan \in Nat
  BY <1>1, ReceivedType, SMT DEF Reply, HashPacket
<1>3. ClientType'
  BY <1>1, <1>2, ReceivedType, SameLog DEF TypeOK, ClientType
<1>. QED
  BY <1>1, <1>3, ReceivedType, WorkersKept DEF TypeOK, workers

LEMMA ReceiveErrorType ==
  ASSUME TypeOK, ReceiveError
  PROVE  TypeOK'
<1>1. /\ Received({"ErrJournalOverflow", "ErrInvalidSizes"})
      /\ lis' = [lis EXCEPT !.pc = "stopped", !.tag = 0]
      /\ UNCHANGED <<pause, hashQueue>>
  BY DEF ReceiveError
<1>2. ClientType'
  BY <1>1, ReceivedType, SameLog DEF TypeOK, ClientType
<1>. QED
  BY <1>1, <1>2, ReceivedType, WorkersKept DEF TypeOK, workers

LEMMA CloseClientConnType ==
  ASSUME TypeOK, CloseClientConn
  PROVE  TypeOK'
<1>1. PICK m \in 0..Len(c2s[cur]) : c2s' = [c2s EXCEPT ![cur] = SubSeq(@, 1, m)]
  BY  DEF CloseClientConn
<1>2. link' = [link EXCEPT ![cur] = "dead"] /\ UNCHANGED <<log, s2c, cur>>
  BY DEF CloseClientConn, app
<1>3. AllBounded(c2s', Packet, Window)
  BY <1>1, CutBounded, ConstantsAssumption DEF TypeOK, NetType
<1>4. NetType'
  BY <1>2, <1>3, SameLog DEF TypeOK, NetType
<1>. QED
  BY <1>4, AppKept, ClientKept, WorkersKept, ServerKept, QueuesKept, HistoryKept
  DEF TypeOK, CloseClientConn, app, client, server, history

LEMMA SendBufferType ==
  ASSUME TypeOK, SendBuffer
  PROVE  TypeOK'
<1>1. UNCHANGED <<app, net, cstate, pause, mon, workers, server, history, bounds>>
  BY DEF SendBuffer
<1>2. AppType' /\ ClientType'
  <2>1. CASE /\ Ring!Take
             /\ lis' = [lis EXCEPT !.pc = IF fresh = <<>> THEN "resume" ELSE "send",
                                   !.batch = fresh, !.read = epoch]
    <3>1. fresh' = <<>> /\ held' = Len(fresh)
      BY <2>1 DEF Ring!Take
    <3>2. fresh \in Seq(Issued) /\ Len(fresh) \in Nat
      BY LenProperties DEF TypeOK, AppType
    <3>3. epoch \in Nat
      BY LenProperties DEF TypeOK, HistoryType, epoch
    <3>4. AppType'
      BY <1>1, <3>1, <3>2, SameLog, EmptySeq DEF TypeOK, AppType, app
    <3>5. ClientType'
      BY <1>1, <2>1, <3>2, <3>3, SameLog DEF TypeOK, ClientType, app
    <3>. QED
      BY <3>4, <3>5
  <2>2. CASE overflown /\ lis' = [lis EXCEPT !.pc = "reset", !.tag = 0] /\ UNCHANGED ring
    <3>1. ClientType'
      BY <1>1, <2>2, SameLog DEF TypeOK, ClientType, app
    <3>. QED
      BY <1>1, <2>2, <3>1, AppKept DEF TypeOK
  <2>. QED
    BY <2>1, <2>2 DEF SendBuffer
<1>. QED
  BY <1>1, <1>2, NetKept, WorkersKept, ServerKept, QueuesKept, HistoryKept
  DEF TypeOK, app, net, server, history

LEMMA ListenerSendType ==
  ASSUME TypeOK, ListenerSend
  PROVE  TypeOK'
<1>1. /\ lis.batch \in Seq(Issued) /\ lis.batch # <<>> /\ lis.read \in Nat
      /\ Head(lis.batch) \in Issued /\ Tail(lis.batch) \in Seq(Issued)
  BY HeadTailProperties DEF TypeOK, ClientType, ListenerSend
<1>2. [type |-> "BufferWrite", write |-> Head(lis.batch), tag |-> lis.read] \in Packet
  BY <1>1 DEF Packet, WritePacket
<1>3. NetType'
  BY <1>2, SendKeepsNet DEF TypeOK, ListenerSend, app
<1>4. ClientType'
  <2>1. /\ UNCHANGED <<log, cstate, pause, mon>>
        /\ lis' = [lis EXCEPT !.pc = IF Len(lis.batch) = 1 THEN "resume" ELSE "send",
                              !.batch = Tail(lis.batch)]
    BY DEF ListenerSend, app
  <2>2. Len(lis.batch) # 1 => Tail(lis.batch) # <<>>
    BY <1>1, TailNonEmpty
  <2>. QED
    BY <1>1, <2>1, <2>2, SameLog DEF TypeOK, ClientType
<1>. QED
  BY <1>3, <1>4, AppKept, WorkersKept, ServerKept, QueuesKept, HistoryKept
  DEF TypeOK, ListenerSend, app, server, history

LEMMA ResumeType ==
  ASSUME TypeOK, Resume
  PROVE  TypeOK'
<1>1. ClientType'
  BY SameLog DEF TypeOK, ClientType, Resume, app
<1>2. HistoryType'
  BY DEF TypeOK, ClientType, HistoryType, Resume, excuses, bounds
<1>. QED
  BY <1>1, <1>2, AppKept, NetKept, WorkersKept, ServerKept, QueuesKept
  DEF TypeOK, Resume, app, net, server

LEMMA SendHashingCompletedType ==
  ASSUME TypeOK, SendHashingCompleted
  PROVE  TypeOK'
<1>1. lis.tag \in Nat
  BY DEF TypeOK, ClientType
<1>2. PICK p \in Packet : ToServer(p)
  <2>1. [type |-> "InfoHashingCompleted", scan |-> IF lis.read = lis.tag THEN lis.tag ELSE Unknown]
          \in Packet
    BY <1>1 DEF Packet, Scan
  <2>. QED
    BY <2>1 DEF SendHashingCompleted
<1>3. NetType'
  BY <1>2, SendKeepsNet DEF TypeOK, SendHashingCompleted, app
<1>4. ClientType'
  BY SameLog DEF TypeOK, ClientType, SendHashingCompleted, app
<1>. QED
  BY <1>3, <1>4, AppKept, WorkersKept, ServerKept, QueuesKept, HistoryKept
  DEF TypeOK, SendHashingCompleted, app, server, history

LEMMA DetectClosedType ==
  ASSUME TypeOK, DetectClosed
  PROVE  TypeOK'
<1>1. ClientType'
  BY SameLog DEF TypeOK, ClientType, DetectClosed, app
<1>. QED
  BY <1>1, AppKept, NetKept, WorkersKept, ServerKept, QueuesKept, HistoryKept
  DEF TypeOK, DetectClosed, app, net, server, history

LEMMA ReconnectType ==
  ASSUME TypeOK, Reconnect
  PROVE  TypeOK'
<1>1. /\ cur + 1 \in Conns /\ cur' = cur + 1
      /\ link' = [link EXCEPT ![cur + 1] = "up"]
      /\ c2s' = [c2s EXCEPT ![cur + 1] = <<InitInfo>>]
      /\ lis' = [lis EXCEPT !.pc = "reset"]
      /\ UNCHANGED <<app, ring, s2c, cstate, pause, mon, workers, server, history, bounds>>
  BY DEF Reconnect
<1>2. Bounded(<<InitInfo>>, Packet, Window)
  <2>1. InitInfo \in Packet
    BY DEF InitInfo, Packet
  <2>. QED
    BY <2>1, ConstantsAssumption, SMT DEF Bounded
<1>3. AllBounded(c2s', Packet, Window)
  BY <1>1, <1>2, UpdateBounded, ConstantsAssumption DEF TypeOK, NetType
<1>4. NetType'
  BY <1>1, <1>3, SameLog DEF TypeOK, NetType, app
<1>5. ClientType'
  BY <1>1, SameLog DEF TypeOK, ClientType, app
<1>6. ServerType'
  BY <1>1, SMT DEF TypeOK, NetType, ServerType, Conns, server, journal, history
<1>. QED
  BY <1>1, <1>4, <1>5, <1>6, AppKept, WorkersKept, QueuesKept, HistoryKept
  DEF TypeOK, app, server
-----------------------------------------------------------------------------
(* The worker pools: a set of packets that grows and shrinks by one.       *)
LEMMA AddWithin ==
  ASSUME NEW S, IsFiniteSet(S), NEW max \in Nat, Cardinality(S) < max, NEW x
  PROVE  IsFiniteSet(S \union {x}) /\ Cardinality(S \union {x}) <= max
<1>1. Cardinality(S) \in Nat
  BY FS_CardinalityType
<1>2. /\ IsFiniteSet(S \union {x})
      /\ \/ Cardinality(S \union {x}) = Cardinality(S)
         \/ Cardinality(S \union {x}) = Cardinality(S) + 1
  BY FS_AddElement
<1>. QED
  BY <1>1, <1>2, SMT

LEMMA RemoveWithin ==
  ASSUME NEW S, IsFiniteSet(S), NEW max \in Nat, Cardinality(S) <= max, NEW x
  PROVE  IsFiniteSet(S \ {x}) /\ Cardinality(S \ {x}) <= max
<1>1. Cardinality(S) \in Nat
  BY FS_CardinalityType
<1>2. /\ IsFiniteSet(S \ {x})
      /\ \/ Cardinality(S \ {x}) = Cardinality(S)
         \/ Cardinality(S \ {x}) = Cardinality(S) - 1
  BY FS_RemoveElement
<1>. QED
  BY <1>1, <1>2, SMT

LEMMA CompareHashType ==
  ASSUME TypeOK, NEW h \in hashQueue, CompareHash(h)
  PROVE  TypeOK'
<1>1. /\ Cardinality(compared) < Workers /\ hashQueue' = hashQueue \ {h}
      /\ UNCHANGED <<app, ring, net, cstate, pause, mon, lis, repl, server, history, breaks>>
  BY DEF CompareHash
<1>2. /\ hashQueue \subseteq HashPacket /\ IsFiniteSet(hashQueue)
      /\ Cardinality(hashQueue) <= QueueSize
      /\ compared \subseteq BlockPacket /\ IsFiniteSet(compared)
      /\ Cardinality(compared) <= Workers
      /\ failer \in [pc : {"none", "reset", "pause", "request"}, tag : Nat]
  BY DEF TypeOK, WorkersType
<1>3. hashQueue' \subseteq HashPacket /\ IsFiniteSet(hashQueue') /\ Cardinality(hashQueue') <= QueueSize
  BY <1>1, <1>2, RemoveWithin, ConstantsAssumption
<1>4. h.blk \in Blocks /\ source[h.blk] \in Contents /\ epoch \in Nat
  <2>1. h.blk \in Blocks
    BY <1>2 DEF HashPacket
  <2>2. source \in [Blocks -> Contents]
    BY DEF TypeOK, AppType
  <2>. QED
    BY <2>1, <2>2, LenProperties DEF TypeOK, HistoryType, epoch
<1>5. [type |-> "CorrectBlock", blk |-> h.blk, val |-> source[h.blk], tag |-> epoch] \in BlockPacket
  BY <1>4 DEF BlockPacket
<1>6. WorkersType' /\ errors' \in 0..MaxErrors
  <2>1. CASE /\ compared' = IF source[h.blk] = h.val
                              THEN compared
                              ELSE compared \union {[type |-> "CorrectBlock", blk |-> h.blk,
                                                     val |-> source[h.blk], tag |-> epoch]}
             /\ UNCHANGED <<failer, errors>>
    <3>1. compared' \subseteq BlockPacket /\ IsFiniteSet(compared') /\ Cardinality(compared') <= Workers
      BY <1>1, <1>2, <1>5, <2>1, AddWithin, ConstantsAssumption
    <3>. QED
      BY <1>1, <1>3, <2>1, <3>1, SameLog DEF TypeOK, WorkersType, HistoryType, app
  <2>2. CASE /\ errors < MaxErrors /\ errors' = errors + 1
             /\ failer' = [failer EXCEPT !.pc = "reset"]
             /\ UNCHANGED compared
    <3>1. failer' \in [pc : {"none", "reset", "pause", "request"}, tag : Nat]
      BY <1>2, <2>2
    <3>2. errors' \in 0..MaxErrors
      BY <2>2, ConstantsAssumption, SMT DEF TypeOK, HistoryType
    <3>. QED
      BY <1>1, <1>2, <1>3, <2>2, <3>1, <3>2, SameLog DEF TypeOK, WorkersType, app
  <2>. QED
    BY <2>1, <2>2 DEF CompareHash
<1>7. HistoryType'
  BY <1>1, <1>6 DEF TypeOK, HistoryType, history, excuses
<1>. QED
  BY <1>1, <1>6, <1>7, AppKept, NetKept, ClientKept, ServerKept, QueuesKept
  DEF TypeOK, app, net, server, history

LEMMA SendCorrectBlockType ==
  ASSUME TypeOK, NEW p \in compared, SendCorrectBlock(p)
  PROVE  TypeOK'
<1>1. /\ ToServer(p) /\ compared' = compared \ {p}
      /\ UNCHANGED <<app, ring, s2c, link, cur, cstate, pause, mon, lis, hashQueue, failer, repl>>
      /\ UNCHANGED <<server, history, bounds>>
  BY DEF SendCorrectBlock
<1>2. p \in Packet
  BY DEF TypeOK, WorkersType, Packet
<1>3. NetType'
  BY <1>1, <1>2, SendKeepsNet DEF TypeOK, app
<1>4. compared' \subseteq BlockPacket /\ IsFiniteSet(compared') /\ Cardinality(compared') <= Workers
  BY <1>1, RemoveWithin, ConstantsAssumption DEF TypeOK, WorkersType
<1>5. WorkersType'
  BY <1>1, <1>4, SameLog DEF TypeOK, WorkersType, app
<1>. QED
  BY <1>1, <1>3, <1>5, AppKept, ClientKept, ServerKept, QueuesKept, HistoryKept
  DEF TypeOK, app, server, history

LEMMA ReadBlockType ==
  ASSUME TypeOK, NEW b \in repl.todo, ReadBlock(b)
  PROVE  TypeOK'
<1>1. /\ Cardinality(repl.read) < Workers
      /\ UNCHANGED <<app, ring, net, cstate, pause, mon, lis, hashQueue, compared, failer, server>>
      /\ UNCHANGED <<resets, finished, current, synced, straddling, snatched, rewound, stray, breaks>>
  BY DEF ReadBlock
<1>2. /\ repl \in [pc : {"off", "copy", "resume"}, todo : SUBSET Blocks,
                   read : SUBSET BlockPacket, tag : Nat]
      /\ IsFiniteSet(repl.read) /\ Cardinality(repl.read) <= Workers
  BY DEF TypeOK, WorkersType
<1>3. b \in Blocks /\ source[b] \in Contents
  BY <1>2 DEF TypeOK, AppType
<1>4. WorkersType' /\ errors' \in 0..MaxErrors /\ dropped' \subseteq Blocks
  <2>1. CASE /\ repl' = [repl EXCEPT !.todo = @ \ {b},
                                     !.read = @ \union {[type |-> "ReplicationBlock", blk |-> b,
                                                         val |-> source[b], tag |-> repl.tag]}]
             /\ UNCHANGED <<errors, dropped>>
    <3>1. PICK p \in BlockPacket :
            repl' = [repl EXCEPT !.todo = @ \ {b}, !.read = @ \union {p}]
      <4>1. [type |-> "ReplicationBlock", blk |-> b, val |-> source[b], tag |-> repl.tag] \in BlockPacket
        BY <1>2, <1>3 DEF BlockPacket
      <4>. QED
        BY <2>1, <4>1
    <3>2. IsFiniteSet(repl.read \union {p}) /\ Cardinality(repl.read \union {p}) <= Workers
      BY <1>1, <1>2, AddWithin, ConstantsAssumption
    <3>3. /\ repl' \in [pc : {"off", "copy", "resume"}, todo : SUBSET Blocks,
                        read : SUBSET BlockPacket, tag : Nat]
          /\ repl'.read = repl.read \union {p}
      BY <1>2, <3>1
    <3>. QED
      BY <1>1, <2>1, <3>2, <3>3, SameLog DEF TypeOK, WorkersType, HistoryType, app
  <2>2. CASE /\ errors < MaxErrors /\ errors' = errors + 1
             /\ repl' = [repl EXCEPT !.todo = @ \ {b}]
             /\ dropped' = dropped \union {b}
    <3>1. /\ repl' \in [pc : {"off", "copy", "resume"}, todo : SUBSET Blocks,
                        read : SUBSET BlockPacket, tag : Nat]
          /\ repl'.read = repl.read
      BY <1>2, <2>2
    <3>2. errors' \in 0..MaxErrors /\ dropped' \subseteq Blocks
      BY <1>3, <2>2, ConstantsAssumption, SMT DEF TypeOK, HistoryType
    <3>. QED
      BY <1>1, <1>2, <3>1, <3>2, SameLog DEF TypeOK, WorkersType, app
  <2>. QED
    BY <2>1, <2>2 DEF ReadBlock
<1>5. HistoryType'
  BY <1>1, <1>4 DEF TypeOK, HistoryType
<1>. QED
  BY <1>1, <1>4, <1>5, AppKept, NetKept, ClientKept, ServerKept, QueuesKept
  DEF TypeOK, app, net, server

LEMMA SendReplicationBlockType ==
  ASSUME TypeOK, NEW p \in repl.read, SendReplicationBlock(p)
  PROVE  TypeOK'
<1>1. /\ ToServer(p) /\ repl' = [repl EXCEPT !.read = @ \ {p}]
      /\ UNCHANGED <<app, ring, s2c, link, cur, cstate, pause, mon, lis, hashQueue, compared, failer>>
      /\ UNCHANGED <<server, history, bounds>>
  BY DEF SendReplicationBlock
<1>2. /\ repl \in [pc : {"off", "copy", "resume"}, todo : SUBSET Blocks,
                   read : SUBSET BlockPacket, tag : Nat]
      /\ IsFiniteSet(repl.read) /\ Cardinality(repl.read) <= Workers
  BY DEF TypeOK, WorkersType
<1>3. NetType'
  <2>1. p \in Packet
    BY <1>2 DEF Packet
  <2>. QED
    BY <1>1, <2>1, SendKeepsNet DEF TypeOK, app
<1>4. IsFiniteSet(repl.read \ {p}) /\ Cardinality(repl.read \ {p}) <= Workers
  BY <1>2, RemoveWithin, ConstantsAssumption
<1>5. /\ repl' \in [pc : {"off", "copy", "resume"}, todo : SUBSET Blocks,
                    read : SUBSET BlockPacket, tag : Nat]
      /\ repl'.read = repl.read \ {p}
  BY <1>1, <1>2
<1>6. WorkersType'
  BY <1>1, <1>4, <1>5, SameLog DEF TypeOK, WorkersType, app
<1>. QED
  BY <1>1, <1>3, <1>6, AppKept, ClientKept, ServerKept, QueuesKept, HistoryKept
  DEF TypeOK, app, server, history

LEMMA SendReplicationCompletedType ==
  ASSUME TypeOK, SendReplicationCompleted
  PROVE  TypeOK'
<1>1. repl.tag \in Nat
  BY DEF TypeOK, WorkersType
<1>2. PICK p \in Packet : ToServer(p)
  <2>1. [type |-> "InfoReplicationCompleted", scan |-> repl.tag] \in Packet
    BY <1>1 DEF Packet
  <2>. QED
    BY <2>1 DEF SendReplicationCompleted
<1>3. NetType'
  BY <1>2, SendKeepsNet DEF TypeOK, SendReplicationCompleted, app
<1>4. WorkersType'
  BY SameLog DEF TypeOK, WorkersType, SendReplicationCompleted, app
<1>. QED
  BY <1>3, <1>4, AppKept, ClientKept, ServerKept, QueuesKept, HistoryKept
  DEF TypeOK, SendReplicationCompleted, app, server, history

LEMMA ReplicationResumeType ==
  ASSUME TypeOK, ReplicationResume
  PROVE  TypeOK'
<1>1. finished \in Nat /\ repl.tag \in Nat
  BY DEF TypeOK, HistoryType, WorkersType
<1>2. Max({finished, repl.tag}) \in Nat
  <2>1. \E x \in {finished, repl.tag} : \A y \in {finished, repl.tag} : x >= y
    BY <1>1, SMT
  <2>. QED
    BY <1>1, <2>1 DEF Max
<1>3. HistoryType'
  BY <1>2 DEF TypeOK, HistoryType, ReplicationResume, excuses, bounds
<1>4. WorkersType'
  BY SameLog DEF TypeOK, WorkersType, ReplicationResume, app
<1>5. ClientType'
  BY SameLog DEF TypeOK, ClientType, ReplicationResume, app
<1>. QED
  BY <1>3, <1>4, <1>5, AppKept, NetKept, ServerKept, QueuesKept
  DEF TypeOK, ReplicationResume, app, net, server
-----------------------------------------------------------------------------
(* The log grows: what was issued before still was.                        *)
(* One more write: what was issued before still is.                        *)
LEMMA MoreIssued ==
  ASSUME TypeOK, NEW b \in Blocks, log' = Append(log, b)
  PROVE  /\ Len(log') = Len(log) + 1 /\ Len(log) \in Nat /\ log' \in Seq(Blocks)
         /\ Issued \subseteq Issued' /\ Contents \subseteq Contents'
         /\ WritePacket \subseteq WritePacket' /\ BlockPacket \subseteq BlockPacket'
         /\ Packet \subseteq Packet' /\ HashPacket \subseteq HashPacket' /\ Reply \subseteq Reply'
         /\ QueuedWrite \subseteq QueuedWrite'
<1>1. Len(log') = Len(log) + 1 /\ Len(log) \in Nat /\ log' \in Seq(Blocks)
  BY AppendProperties, LenProperties DEF TypeOK, AppType, Bounded
<1>2. Issued \subseteq Issued' /\ Contents \subseteq Contents' /\ Unknown..Len(log) \subseteq Unknown..Len(log')
  BY <1>1, SMT DEF Issued, Contents, Unknown
<1>3. /\ WritePacket \subseteq WritePacket' /\ BlockPacket \subseteq BlockPacket'
      /\ HashPacket \subseteq HashPacket' /\ QueuedWrite \subseteq QueuedWrite'
  BY <1>2 DEF WritePacket, BlockPacket, HashPacket, QueuedWrite
<1>. QED
  BY <1>1, <1>2, <1>3 DEF Packet, Reply

LEMMA BoundedInLarger ==
  ASSUME NEW S, NEW T, S \subseteq T, NEW max
  PROVE  /\ \A q : Bounded(q, S, max) => Bounded(q, T, max)
         /\ \A qs : AllBounded(qs, S, max) => AllBounded(qs, T, max)
<1>1. \A q \in Seq(S) : q \in Seq(T)
  BY SeqMonotonic
<1>. QED
  BY <1>1 DEF Bounded, AllBounded

LEMMA IssueWriteType ==
  ASSUME TypeOK, NEW b \in Blocks, IssueWrite(b)
  PROVE  TypeOK'
<1>1. /\ Len(log) < MaxIssued /\ log' = Append(log, b)
      /\ flying' = [flying EXCEPT ![b] = Len(log')]
      /\ UNCHANGED <<source, net, client, server, history, bounds>>
  BY DEF IssueWrite
<1>2. /\ Len(log') = Len(log) + 1 /\ Len(log) \in Nat /\ log' \in Seq(Blocks)
      /\ Issued \subseteq Issued' /\ Contents \subseteq Contents'
      /\ WritePacket \subseteq WritePacket' /\ BlockPacket \subseteq BlockPacket'
      /\ Packet \subseteq Packet' /\ HashPacket \subseteq HashPacket' /\ Reply \subseteq Reply'
      /\ QueuedWrite \subseteq QueuedWrite'
  BY <1>1, MoreIssued
<1>3. Len(log') \in Issued' /\ Len(log') \in Contents'
  BY <1>2, SMT DEF Issued, Contents
<1>4. AppType'
  <2>1. fresh' \in Seq(Issued') /\ held' \in Nat
    <3>1. fresh \in Seq(Issued') /\ held \in Nat
      BY <1>2, SeqMonotonic DEF TypeOK, AppType
    <3>2. CASE Ring!Accept(Len(log'))
      <4>1. fresh' = Append(fresh, Len(log')) /\ UNCHANGED held
        BY <3>2 DEF Ring!Accept
      <4>. QED
        BY <1>3, <3>1, <4>1, AppendProperties
    <3>3. CASE Ring!Refuse
      BY <3>1, <3>3 DEF Ring!Refuse
    <3>. QED
      BY <3>2, <3>3 DEF IssueWrite
  <2>2. flying' \in [Blocks -> Contents'] /\ source' \in [Blocks -> Contents']
    BY <1>1, <1>2, <1>3 DEF TypeOK, AppType
  <2>3. Bounded(log', Blocks, MaxIssued)
    BY <1>1, <1>2, ConstantsAssumption, SMT DEF Bounded
  <2>. QED
    BY <2>1, <2>2, <2>3 DEF AppType
<1>5. NetType'
  BY <1>1, <1>2, BoundedInLarger DEF TypeOK, NetType, net
<1>6. ClientType'
  <2>1. Seq(Issued) \subseteq Seq(Issued')
    BY <1>2, SeqMonotonic
  <2>. QED
    BY <1>1, <2>1, SMT DEF TypeOK, ClientType, client
<1>7. WorkersType'
  <2>1. UNCHANGED <<hashQueue, compared, failer, repl>>
    BY <1>1 DEF client, workers
  <2>2. /\ hashQueue \subseteq HashPacket' /\ compared \subseteq BlockPacket'
        /\ repl \in [pc : {"off", "copy", "resume"}, todo : SUBSET Blocks,
                     read : SUBSET BlockPacket', tag : Nat]
    BY <1>2 DEF TypeOK, WorkersType
  <2>. QED
    BY <2>1, <2>2 DEF TypeOK, WorkersType
<1>8. QueuesType'
  <2>1. UNCHANGED <<journalQueue, jWrites, jBlocks, writeQueue, writer, correctQueue, replQueue, replOn, replica>>
    BY <1>1 DEF server, journal, direct
  <2>2. WritePacket \union BlockPacket \subseteq WritePacket' \union BlockPacket'
    BY <1>2
  <2>3. /\ Bounded(journalQueue, WritePacket' \union BlockPacket', QueueSize)
        /\ Bounded(jWrites, Issued', WCount)
        /\ Bounded(jBlocks, BlockPacket', CCount)
        /\ AllBounded(writeQueue, QueuedWrite', QueueSize)
        /\ AllBounded(correctQueue, BlockPacket', QueueSize)
        /\ Bounded(replQueue, BlockPacket', QueueSize)
    BY <1>2, <2>2, BoundedInLarger DEF TypeOK, QueuesType
  <2>4. writer \in [Conns -> Seq(QueuedWrite')]
    <3>1. Seq(QueuedWrite) \subseteq Seq(QueuedWrite')
      BY <1>2, SeqMonotonic
    <3>. QED
      BY <3>1 DEF TypeOK, QueuesType
  <2>5. replica \in [Blocks -> Unknown..Len(log')]
    <3>1. Unknown..Len(log) \subseteq Unknown..Len(log')
      BY <1>2, SMT DEF Unknown
    <3>. QED
      BY <3>1 DEF TypeOK, QueuesType
  <2>. QED
    BY <2>1, <2>3, <2>4, <2>5 DEF TypeOK, QueuesType
<1>. QED
  BY <1>1, <1>4, <1>5, <1>6, <1>7, <1>8, ServerKept, HistoryKept
  DEF TypeOK, net, server, history

LEMMA CompleteWriteType ==
  ASSUME TypeOK, NEW b \in Blocks, CompleteWrite(b)
  PROVE  TypeOK'
<1>1. 0 \in Contents
  BY LenProperties, SMT DEF TypeOK, AppType, Bounded, Contents
<1>2. AppType'
  BY <1>1, SameLog DEF TypeOK, AppType, CompleteWrite, ring, None
<1>3. NetType'
  BY SameLog DEF TypeOK, NetType, CompleteWrite, net
<1>. QED
  BY <1>2, <1>3, ClientKept, WorkersKept, ServerKept, QueuesKept, HistoryKept
  DEF TypeOK, CompleteWrite, net, client, server, history

LEMMA BreakType ==
  ASSUME TypeOK, NEW k \in Conns, Break(k)
  PROVE  TypeOK'
<1>1. PICK m \in 0..Len(c2s[k]), n \in 0..Len(s2c[k]) :
        /\ c2s' = [c2s EXCEPT ![k] = SubSeq(@, 1, m)]
        /\ s2c' = [s2c EXCEPT ![k] = SubSeq(@, 1, n)]
  BY  DEF Break
<1>2. AllBounded(c2s', Packet, Window) /\ AllBounded(s2c', Reply, Window)
  BY <1>1, CutBounded, ConstantsAssumption DEF TypeOK, NetType
<1>3. NetType'
  BY <1>2, SameLog DEF TypeOK, NetType, Break, app
<1>4. HistoryType'
  <2>1. breaks' \in 0..MaxBreaks
    BY ConstantsAssumption, SMT DEF TypeOK, HistoryType, Break
  <2>. QED
    BY <2>1 DEF TypeOK, HistoryType, Break, history, excuses
<1>. QED
  BY <1>3, <1>4, AppKept, ClientKept, WorkersKept, ServerKept, QueuesKept
  DEF TypeOK, Break, app, client, server, history
-----------------------------------------------------------------------------
(* The server: a session it serves was dialled.                            *)
LEMMA ServingConn ==
  ASSUME TypeOK, main # "accept" \/ hasher.pc # "idle" \/ journalQueue # <<>>
  PROVE  ses \in Conns
<1>1. ses \in -1..cur /\ cur \in 0..MaxBreaks /\ ses # -1
  BY DEF TypeOK, NetType, ServerType, Conns
<1>. QED
  BY <1>1, ConstantsAssumption, SMT DEF Conns

LEMMA AcceptClientType ==
  ASSUME TypeOK, AcceptClient
  PROVE  TypeOK'
<1>1. /\ main = "accept" /\ ses < cur /\ ses' = ses + 1 /\ state' = "Writing" /\ main' = "init"
      /\ current' = current \/ current' = NoScan
      /\ UNCHANGED <<app, ring, net, client, fits, hasher, journal, direct, replica>>
      /\ UNCHANGED <<resets, finished, synced, excuses, bounds>>
  BY DEF AcceptClient
<1>2. cur \in Nat
  BY ConstantsAssumption, SMT DEF TypeOK, NetType, Conns
<1>3. ServerType'
  BY <1>1, <1>2, SMT DEF TypeOK, ServerType, net, journal
<1>4. NoScan \in [scan : Scan, cut : BOOLEAN, applied : BOOLEAN]
  BY DEF NoScan, Scan
<1>5. HistoryType'
  BY <1>1, <1>4 DEF TypeOK, HistoryType, excuses, bounds
<1>. QED
  BY <1>1, <1>3, <1>5, AppKept, NetKept, ClientKept, WorkersKept, QueuesKept
  DEF TypeOK, app, client

LEMMA HandleInitType ==
  ASSUME TypeOK, HandleInit
  PROVE  TypeOK'
<1>1. /\ main = "init"
      /\ UNCHANGED <<app, ring, link, cur, client, fits, ses, state, hasher, journal, direct, replica>>
      /\ UNCHANGED <<history, bounds>>
  BY DEF HandleInit
<1>2. ses \in Conns
  BY <1>1, ServingConn
<1>3. AllBounded(c2s', Packet, Window) /\ AllBounded(s2c', Reply, Window) /\ main' \in {"receive", "leave"}
  <2>1. CASE WaitForInitInfo /\ CheckValidSizes
    <3>1. AllBounded(c2s', Packet, Window)
      BY <1>2, <2>1, ArriveKeepsC2S DEF TypeOK, WaitForInitInfo
    <3>2. [type |-> "ErrInvalidSizes"] \in Reply
      BY DEF Reply
    <3>3. AllBounded(s2c', Reply, Window)
      BY <1>2, <2>1, <3>2, AnswerKeepsS2C DEF TypeOK, CheckValidSizes, NetType
    <3>. QED
      BY <2>1, <3>1, <3>3 DEF CheckValidSizes
  <2>2. CASE main' = "leave" /\ UNCHANGED <<c2s, s2c>>
    BY <2>2 DEF TypeOK, NetType
  <2>. QED
    BY <2>1, <2>2 DEF HandleInit
<1>4. NetType'
  BY <1>1, <1>3, SameLog DEF TypeOK, NetType, app
<1>5. ServerType'
  BY <1>1, <1>2, <1>3 DEF TypeOK, ServerType, Conns, journal, history
<1>. QED
  BY <1>1, <1>4, <1>5, AppKept, ClientKept, WorkersKept, QueuesKept, HistoryKept
  DEF TypeOK, app, client

(* What every step that takes a packet keeps.                              *)
LEMMA ArrivedType ==
  ASSUME TypeOK, NEW type, Arrived(type)
  PROVE  /\ AppType' /\ NetType' /\ ClientType' /\ WorkersType'
         /\ ses \in Conns /\ Head(c2s[ses]) \in Packet /\ Head(c2s[ses]).type = type
         /\ main = "receive" /\ log' = log
         /\ UNCHANGED <<cur, fits, ses, hasher, jWrites, jBlocks, writer, replOn, replica>>
         /\ UNCHANGED <<resets, finished, synced, straddling, snatched, rewound, bounds>>
<1>1. /\ main = "receive" /\ c2s[ses] # <<>> /\ Head(c2s[ses]).type = type
      /\ c2s' = [c2s EXCEPT ![ses] = Tail(@)]
      /\ UNCHANGED <<app, ring, s2c, link, cur, client, fits, ses, hasher, jWrites, jBlocks>>
      /\ UNCHANGED <<writer, replOn, replica, resets, finished, synced, straddling, snatched, rewound, bounds>>
  BY  DEF Arrived
<1>2. ses \in Conns
  BY <1>1, ServingConn
<1>3. AllBounded(c2s', Packet, Window) /\ Head(c2s[ses]) \in Packet
  BY <1>1, <1>2, ArriveKeepsC2S DEF TypeOK
<1>4. NetType'
  BY <1>1, <1>3, SameLog DEF TypeOK, NetType, app
<1>. QED
  BY <1>1, <1>2, <1>3, <1>4, AppKept, ClientKept, WorkersKept DEF TypeOK, app, client

(* The fields of a packet by its kind.                                     *)
LEMMA PacketFields ==
  ASSUME NEW p \in Packet
  PROVE  /\ p.type = "BufferWrite" => p \in WritePacket /\ p.write \in Issued /\ p.tag \in Nat
         /\ p.type \in {"CorrectBlock", "ReplicationBlock"} =>
              p \in BlockPacket /\ p.blk \in Blocks /\ p.val \in Contents /\ p.tag \in Nat
         /\ p.type \in {"CmdStartHashing", "CmdStartFullScan", "InfoStartReplication",
                        "InfoReplicationCompleted"} => p.scan \in Nat
         /\ p.type = "InfoHashingCompleted" => p.scan \in Scan
BY DEF Packet, WritePacket, BlockPacket

LEMMA HandleCommandType ==
  ASSUME TypeOK,
         NEW type \in {"CmdStartHashing", "CmdStartFullScan", "InfoStartReplication"},
         NEW newState \in {"Hashing", "DestroyingReplica", "Replicating"},
         NEW wait \in {"start", "startFull", "startCopy"},
         HandleCommand(type, newState, wait)
  PROVE  TypeOK'
<1>1. /\ Arrived(type) /\ state' = newState /\ main' = wait
      /\ current' = [NoScan EXCEPT !.scan = Head(c2s[ses]).scan]
      /\ stray' = [stray EXCEPT !.now = {}]
      /\ UNCHANGED <<journalQueue, writeQueue, correctQueue, replQueue, dropped>>
  BY DEF HandleCommand
<1>2. Head(c2s[ses]).scan \in Nat
  BY <1>1, ArrivedType, PacketFields
<1>3. /\ current' \in [scan : Scan, cut : BOOLEAN, applied : BOOLEAN]
      /\ current'.scan \in Nat
  BY <1>1, <1>2 DEF NoScan, Scan
<1>4. ServerType'
  BY <1>1, <1>3, ArrivedType DEF TypeOK, ServerType, Conns
<1>5. stray' \in BlockSets
  BY <1>1 DEF TypeOK, HistoryType, BlockSets
<1>6. HistoryType'
  BY <1>1, <1>3, <1>5, ArrivedType DEF TypeOK, HistoryType, bounds
<1>. QED
  BY <1>1, <1>4, <1>6, ArrivedType, QueuesKept DEF TypeOK, journal, direct

LEMMA StartScanType ==
  ASSUME TypeOK, StartScan
  PROVE  TypeOK'
<1>1. /\ main \in {"start", "startFull"}
      /\ hasher' = [pc |-> "reset", todo |-> Blocks, scan |-> current.scan]
      /\ main' = "receive"
      /\ UNCHANGED <<app, ring, net, client, fits, ses, state, journal, direct, replica, history, bounds>>
  BY DEF StartScan
<1>2. ServerType'
  BY <1>1 DEF TypeOK, ServerType, net, journal, history
<1>. QED
  BY <1>1, <1>2, AppKept, NetKept, ClientKept, WorkersKept, QueuesKept, HistoryKept
  DEF TypeOK, app, client

LEMMA AstrayType ==
  ASSUME TypeOK, NEW blk \in Blocks, NEW queued, Astray(blk, queued)
  PROVE  stray' \in BlockSets
<1>1. stray \in BlockSets
  BY DEF TypeOK, HistoryType
<1>2. \/ stray' = stray
      \/ stray' = [stray EXCEPT !.now = @ \union {blk}]
      \/ stray' = [stray EXCEPT !.applied = @ \union {blk}]
  BY DEF Astray
<1>. QED
  BY <1>1, <1>2 DEF BlockSets

LEMMA ToJournalType ==
  ASSUME TypeOK, ToJournal, Head(c2s[ses]) \in WritePacket \union BlockPacket
  PROVE  Bounded(journalQueue', WritePacket \union BlockPacket, QueueSize)
BY AppendBounded, ConstantsAssumption DEF TypeOK, QueuesType, ToJournal

LEMMA HandleBufferWriteType ==
  ASSUME TypeOK, HandleBufferWrite
  PROVE  TypeOK'
<1> DEFINE p == Head(c2s[ses])
<1>1. /\ Arrived("BufferWrite")
      /\ UNCHANGED <<state, main, correctQueue, replQueue, current>>
  BY  DEF HandleBufferWrite
<1>2. p \in WritePacket /\ p.write \in Issued
  BY <1>1, ArrivedType, PacketFields
<1>3. log[p.write] \in Blocks /\ current.scan \in Scan
  BY <1>2, ElementOfSeq DEF TypeOK, AppType, HistoryType, Bounded, Issued
<1>4. QueuesType' /\ stray' \in BlockSets /\ dropped' \subseteq Blocks
  <2>1. CASE /\ ToJournal
             /\ Astray(log[p.write], TRUE)
             /\ UNCHANGED <<writeQueue, dropped>>
    <3>1. Bounded(journalQueue', WritePacket \union BlockPacket, QueueSize)
      BY <1>2, <2>1, ToJournalType
    <3>2. stray' \in BlockSets
      <4>1. PICK blk \in Blocks : Astray(blk, TRUE)
        BY <1>3, <2>1
      <4>. QED
        BY <4>1, AstrayType
    <3>. QED
      BY <1>1, <2>1, <3>1, <3>2, ArrivedType, SameLog DEF TypeOK, QueuesType, HistoryType
  <2>2. CASE /\ Len(writeQueue[ses]) < QueueSize
             /\ writeQueue' = [writeQueue EXCEPT ![ses] =
                                 Append(@, [write |-> p.write, scan |-> current.scan])]
             /\ Astray(log[p.write], FALSE)
             /\ UNCHANGED <<journalQueue, dropped>>
    <3>1. stray' \in BlockSets
      <4>1. PICK blk \in Blocks : Astray(blk, FALSE)
        BY <1>3, <2>2
      <4>. QED
        BY <4>1, AstrayType
    <3>2. PICK e \in QueuedWrite :
            writeQueue' = [writeQueue EXCEPT ![ses] = Append(writeQueue[ses], e)]
      <4>1. [write |-> p.write, scan |-> current.scan] \in QueuedWrite
        BY <1>2, <1>3 DEF QueuedWrite
      <4>. QED
        BY <2>2, <4>1
    <3>3. ses \in Conns
      BY <1>1, ArrivedType
    <3>4. AllBounded(writeQueue, QueuedWrite, QueueSize)
      BY DEF TypeOK, QueuesType
    <3>5. Bounded(Append(writeQueue[ses], e), QueuedWrite, QueueSize)
      BY <2>2, <3>3, <3>4, MemberBounded, AppendBounded, ConstantsAssumption
    <3>6. AllBounded(writeQueue', QueuedWrite, QueueSize)
      BY <3>2, <3>3, <3>4, <3>5, UpdateBounded, ConstantsAssumption
    <3>. QED
      BY <1>1, <2>2, <3>1, <3>6, ArrivedType, SameLog DEF TypeOK, QueuesType, HistoryType
  <2>3. CASE /\ dropped' = dropped \union {log[p.write]}
             /\ UNCHANGED <<journalQueue, writeQueue, stray>>
    BY <1>1, <1>3, <2>3, ArrivedType, SameLog DEF TypeOK, QueuesType, HistoryType
  <2>. QED
    BY <2>1, <2>2, <2>3 DEF HandleBufferWrite
<1>5. ServerType'
  BY <1>1, ArrivedType DEF TypeOK, ServerType, Conns
<1>6. HistoryType'
  BY <1>1, <1>4, ArrivedType DEF TypeOK, HistoryType, bounds
<1>. QED
  BY <1>1, <1>4, <1>5, <1>6, ArrivedType DEF TypeOK

LEMMA HandleCorrectBlockType ==
  ASSUME TypeOK, HandleCorrectBlock
  PROVE  TypeOK'
<1> DEFINE p == Head(c2s[ses])
<1>1. /\ Arrived("CorrectBlock")
      /\ UNCHANGED <<state, main, writeQueue, replQueue, current, dropped>>
  BY DEF HandleCorrectBlock
<1>2. p \in BlockPacket /\ p.blk \in Blocks
  BY <1>1, ArrivedType, PacketFields
<1>4. QueuesType' /\ stray' \in BlockSets
  <2>1. CASE ToJournal /\ Astray(p.blk, TRUE) /\ UNCHANGED correctQueue
    <3>1. Bounded(journalQueue', WritePacket \union BlockPacket, QueueSize)
      BY <1>2, <2>1, ToJournalType
    <3>2. stray' \in BlockSets
      <4>1. PICK blk \in Blocks : Astray(blk, TRUE)
        BY <1>2, <2>1
      <4>. QED
        BY <4>1, AstrayType
    <3>. QED
      BY <1>1, <2>1, <3>1, <3>2, ArrivedType, SameLog DEF TypeOK, QueuesType, HistoryType
  <2>2. CASE /\ Len(correctQueue[ses]) < QueueSize
             /\ correctQueue' = [correctQueue EXCEPT ![ses] = Append(@, p)]
             /\ Astray(p.blk, FALSE)
             /\ UNCHANGED journalQueue
    <3>1. stray' \in BlockSets
      <4>1. PICK blk \in Blocks : Astray(blk, FALSE)
        BY <1>2, <2>2
      <4>. QED
        BY <4>1, AstrayType
    <3>2. ses \in Conns
      BY <1>1, ArrivedType
    <3>3. AllBounded(correctQueue, BlockPacket, QueueSize)
      BY DEF TypeOK, QueuesType
    <3>4. Bounded(Append(correctQueue[ses], p), BlockPacket, QueueSize)
      BY <1>2, <2>2, <3>2, <3>3, MemberBounded, AppendBounded, ConstantsAssumption
    <3>5. AllBounded(correctQueue', BlockPacket, QueueSize)
      BY <2>2, <3>2, <3>3, <3>4, UpdateBounded, ConstantsAssumption
    <3>. QED
      BY <1>1, <2>2, <3>1, <3>5, ArrivedType, SameLog DEF TypeOK, QueuesType, HistoryType
  <2>3. CASE UNCHANGED <<journalQueue, correctQueue, stray>>
    BY <1>1, <2>3, ArrivedType, SameLog DEF TypeOK, QueuesType, HistoryType
  <2>. QED
    BY <2>1, <2>2, <2>3 DEF HandleCorrectBlock
<1>5. ServerType'
  BY <1>1, ArrivedType DEF TypeOK, ServerType, Conns
<1>6. HistoryType'
  BY <1>1, <1>4, ArrivedType DEF TypeOK, HistoryType, bounds
<1>. QED
  BY <1>1, <1>4, <1>5, <1>6, ArrivedType DEF TypeOK

LEMMA HandleReplicationBlockType ==
  ASSUME TypeOK, HandleReplicationBlock
  PROVE  TypeOK'
<1>1. /\ Arrived("ReplicationBlock") /\ Len(replQueue) < QueueSize
      /\ replQueue' = Append(replQueue, Head(c2s[ses]))
      /\ UNCHANGED <<state, main, journalQueue, writeQueue, correctQueue, current, stray, dropped>>
  BY DEF HandleReplicationBlock
<1>2. Head(c2s[ses]) \in BlockPacket
  BY <1>1, ArrivedType, PacketFields
<1>3. Bounded(replQueue', BlockPacket, QueueSize)
  BY <1>1, <1>2, AppendBounded, ConstantsAssumption DEF TypeOK, QueuesType
<1>4. QueuesType'
  BY <1>1, <1>3, ArrivedType, SameLog DEF TypeOK, QueuesType
<1>5. ServerType'
  BY <1>1, ArrivedType DEF TypeOK, ServerType, Conns
<1>6. HistoryType'
  BY <1>1, ArrivedType DEF TypeOK, HistoryType, bounds
<1>. QED
  BY <1>1, <1>4, <1>5, <1>6, ArrivedType DEF TypeOK

LEMMA HandleCompletedType ==
  ASSUME TypeOK, NEW type \in {"InfoHashingCompleted", "InfoReplicationCompleted"},
         NEW wait \in {"complete", "copied"}, HandleCompleted(type, wait)
  PROVE  TypeOK'
<1>1. /\ Arrived(type) /\ main' = wait
      /\ current' = [current EXCEPT !.cut = @ \/ Head(c2s[ses]).scan # current.scan]
      /\ UNCHANGED <<state, journalQueue, writeQueue, correctQueue, replQueue, stray, dropped>>
  BY DEF HandleCompleted
<1>2. current' \in [scan : Scan, cut : BOOLEAN, applied : BOOLEAN]
  <2>1. current \in [scan : Scan, cut : BOOLEAN, applied : BOOLEAN]
    BY DEF TypeOK, HistoryType
  <2>2. PICK c \in BOOLEAN : current' = [current EXCEPT !.cut = c]
    BY <1>1
  <2>. QED
    BY <2>1, <2>2
<1>3. ServerType'
  BY <1>1, ArrivedType DEF TypeOK, ServerType, Conns
<1>4. HistoryType'
  BY <1>1, <1>2, ArrivedType DEF TypeOK, HistoryType, bounds
<1>. QED
  BY <1>1, <1>3, <1>4, ArrivedType, QueuesKept DEF TypeOK, journal, direct
-----------------------------------------------------------------------------
(* A set of naturals has a smallest element, a bounded one a largest.       *)
Less == OpToRel(<, Nat)

LEMMA SmallestExists ==
  ASSUME NEW S \in SUBSET Nat, S # {}
  PROVE  \E x \in S : \A y \in S : x <= y
<1>1. IsWellFoundedOn(Less, Nat)
  BY NatLessThanWellFounded DEF Less
<1>2. PICK x \in S : \A y \in S : ~ (<<y, x>> \in Less)
  BY <1>1, WFMin
<1>3. \A i, j \in Nat : <<i, j>> \in Less <=> i < j
  BY DEF Less, OpToRel
<1>4. \A y \in S : ~ (y < x)
  BY <1>2, <1>3
<1>. QED
  BY <1>4, SMT

LEMMA LargestExists ==
  ASSUME NEW n \in Nat, NEW S \in SUBSET (0..n), S # {}
  PROVE  Max(S) \in S /\ \A y \in S : y <= Max(S)
<1> DEFINE T == {n - y : y \in S}
<1>1. T \in SUBSET Nat /\ T # {}
  <2>1. \A y \in S : n - y \in Nat
    BY SMT
  <2>2. PICK s \in S : TRUE
    OBVIOUS
  <2>3. n - s \in T
    OBVIOUS
  <2>. QED
    BY <2>1, <2>3
<1>2. PICK x \in T : \A y \in T : x <= y
  BY <1>1, SmallestExists
<1>3. PICK m \in S : x = n - m
  OBVIOUS
<1>4. \A y \in S : n - y \in T
  OBVIOUS
<1>5. ASSUME NEW y \in S
      PROVE  m >= y
  <2>1. x <= n - y
    BY <1>2, <1>4
  <2>2. m \in 0..n /\ y \in 0..n
    OBVIOUS
  <2>. QED
    BY <1>3, <2>1, <2>2, SMT
<1>6. \E z \in S : \A y \in S : z >= y
  BY <1>5
<1>7. Max(S) \in S /\ \A y \in S : Max(S) >= y
  BY <1>6 DEF Max
<1>. QED
  BY <1>7

(* What the journal leaves on a block is a write or what was there.        *)
LEMMA JournalledType ==
  ASSUME TypeOK, NEW b \in Blocks
  PROVE  Journalled(b) \in Unknown..Len(log)
<1> DEFINE W == {i \in DOMAIN jWrites : log[jWrites[i]] = b}
           C == {i \in DOMAIN jBlocks : jBlocks[i].blk = b}
<1>1. Len(log) \in Nat /\ replica[b] \in Unknown..Len(log)
  BY LenProperties DEF TypeOK, AppType, QueuesType, Bounded
<1>2. CASE W # {}
  <2>1. jWrites \in Seq(Issued) /\ Len(jWrites) \in Nat /\ DOMAIN jWrites = 1..Len(jWrites)
    BY LenProperties DEF TypeOK, QueuesType, Bounded
  <2>2. W \in SUBSET (0..Len(jWrites))
    BY <2>1, SMT
  <2>3. Max(W) \in W
    BY <1>2, <2>1, <2>2, LargestExists
  <2>4. jWrites[Max(W)] \in Issued
    BY <2>1, <2>3, ElementOfSeq
  <2>5. Journalled(b) = jWrites[Max(W)]
    BY <1>2 DEF Journalled
  <2>. QED
    BY <1>1, <2>4, <2>5, SMT DEF Issued, Unknown
<1>3. CASE W = {} /\ C # {}
  <2>1. jBlocks \in Seq(BlockPacket) /\ Len(jBlocks) \in Nat /\ DOMAIN jBlocks = 1..Len(jBlocks)
    BY LenProperties DEF TypeOK, QueuesType, Bounded
  <2>2. C \in SUBSET (0..Len(jBlocks))
    BY <2>1, SMT
  <2>3. Max(C) \in C
    BY <1>3, <2>1, <2>2, LargestExists
  <2>4. jBlocks[Max(C)] \in BlockPacket
    BY <2>1, <2>3, ElementOfSeq
  <2>5. jBlocks[Max(C)].val \in Contents
    BY <2>4 DEF BlockPacket
  <2>6. Journalled(b) = jBlocks[Max(C)].val
    BY <1>3 DEF Journalled
  <2>. QED
    BY <1>1, <2>5, <2>6, SMT DEF Contents, Unknown
<1>4. CASE W = {} /\ C = {}
  BY <1>1, <1>4 DEF Journalled
<1>. QED
  BY <1>2, <1>3, <1>4

LEMMA ExcuseResetsType ==
  ASSUME TypeOK, ExcuseResets
  PROVE  straddling' \subseteq Blocks /\ snatched' \subseteq Blocks
<1>1. resets \in Seq([straddling : SUBSET Blocks, snatched : SUBSET Blocks])
  BY DEF TypeOK, HistoryType
<1>2. CASE current.scan \in DOMAIN resets
  <2>1. resets[current.scan] \in [straddling : SUBSET Blocks, snatched : SUBSET Blocks]
    BY <1>1, <1>2, LenProperties, ElementOfSeq
  <2>. QED
    BY <1>2, <2>1 DEF ExcuseResets
<1>3. CASE current.scan \notin DOMAIN resets
  BY <1>3 DEF TypeOK, HistoryType, ExcuseResets
<1>. QED
  BY <1>2, <1>3

LEMMA ScanEndsType ==
  ASSUME TypeOK, main # "accept", ScanEnds
  PROVE  /\ AppType' /\ NetType' /\ ClientType' /\ WorkersType' /\ ServerType'
         /\ current' \in [scan : Scan, cut : BOOLEAN, applied : BOOLEAN]
<1>1. /\ current' = [current EXCEPT !.applied = TRUE] /\ state' = "Writing" /\ main' = "receive"
      /\ UNCHANGED <<app, ring, net, client, fits, ses, hasher, journal>>
  BY DEF ScanEnds
<1>2. current' \in [scan : Scan, cut : BOOLEAN, applied : BOOLEAN]
  BY <1>1 DEF TypeOK, HistoryType
<1>3. ServerType'
  BY <1>1 DEF TypeOK, ServerType, net, journal
<1>. QED
  BY <1>1, <1>2, <1>3, AppKept, NetKept, ClientKept, WorkersKept DEF TypeOK, app, client

LEMMA HandleJournalWritingType ==
  ASSUME TypeOK, HandleJournalWriting
  PROVE  TypeOK'
<1>1. /\ main = "complete" /\ ScanEnds /\ ExcuseResets
      /\ UNCHANGED <<replQueue, replOn>>
  BY DEF HandleJournalWriting, ApplyJournal
<1>2. replica' \in [Blocks -> Unknown..Len(log)] /\ rewound' \in BlockSets
      /\ stray' \in BlockSets /\ dropped' \subseteq Blocks /\ synced' \in {"no", "converging", "prefix"}
  <2>1. CASE ApplyJournal
    <3>1. replica' \in [Blocks -> Unknown..Len(log)]
      BY <2>1, JournalledType DEF ApplyJournal
    <3>2. rewound \in BlockSets /\ stray \in BlockSets
      BY DEF TypeOK, HistoryType
    <3>. QED
      BY <2>1, <3>1, <3>2 DEF ApplyJournal, BlockSets
  <2>2. CASE /\ synced' = IF current.cut THEN "no" ELSE "converging"
             /\ UNCHANGED <<replica, rewound, stray, dropped>>
    BY <2>2 DEF TypeOK, QueuesType, HistoryType
  <2>. QED
    BY <2>1, <2>2 DEF HandleJournalWriting
<1>3. log' = log
  BY <1>1 DEF ScanEnds, app
<1>4. QueuesType'
  BY <1>1, <1>2, <1>3, SameLog DEF TypeOK, QueuesType, ScanEnds, journal
<1>5. straddling' \subseteq Blocks /\ snatched' \subseteq Blocks
  BY <1>1, ExcuseResetsType
<1>6. HistoryType'
  BY <1>1, <1>2, <1>5, ScanEndsType DEF TypeOK, HistoryType, ScanEnds, bounds
<1>. QED
  BY <1>1, <1>4, <1>6, ScanEndsType DEF TypeOK

LEMMA HandleReplicationWritingType ==
  ASSUME TypeOK, HandleReplicationWriting
  PROVE  TypeOK'
<1>1. /\ main = "copied" /\ ScanEnds /\ ExcuseResets /\ replQueue' = <<>> /\ replOn' = FALSE
      /\ synced' = IF state = "Replicating" /\ ~current.cut THEN "converging" ELSE "no"
      /\ UNCHANGED <<replica, rewound, stray, dropped>>
  BY DEF HandleReplicationWriting
<1>2. log' = log
  BY <1>1 DEF ScanEnds, app
<1>3. QueuesType'
  BY <1>1, <1>2, SameLog, EmptyBounded, ConstantsAssumption DEF TypeOK, QueuesType, ScanEnds, journal
<1>4. straddling' \subseteq Blocks /\ snatched' \subseteq Blocks
  BY <1>1, ExcuseResetsType
<1>5. HistoryType'
  BY <1>1, <1>4, ScanEndsType DEF TypeOK, HistoryType, ScanEnds, bounds
<1>. QED
  BY <1>1, <1>3, <1>5, ScanEndsType DEF TypeOK

LEMMA StartReplicationType ==
  ASSUME TypeOK, StartReplication
  PROVE  TypeOK'
<1>1. /\ main = "startCopy" /\ replQueue' = <<>> /\ replOn' = TRUE /\ main' = "receive"
      /\ UNCHANGED <<app, ring, net, client, fits, ses, state, hasher, journal, writeQueue, writer>>
      /\ UNCHANGED <<correctQueue, replica, history, bounds>>
  BY DEF StartReplication
<1>2. QueuesType'
  BY <1>1, SameLog, EmptyBounded, ConstantsAssumption DEF TypeOK, QueuesType, app, journal
<1>3. ServerType'
  BY <1>1 DEF TypeOK, ServerType, net, journal, history
<1>. QED
  BY <1>1, <1>2, <1>3, AppKept, NetKept, ClientKept, WorkersKept, HistoryKept
  DEF TypeOK, app, client

LEMMA DetectDisconnectType ==
  ASSUME TypeOK, DetectDisconnect
  PROVE  TypeOK'
<1>1. ServerType'
  BY DEF TypeOK, ServerType, DetectDisconnect, net, journal, history
<1>. QED
  BY <1>1, AppKept, NetKept, ClientKept, WorkersKept, QueuesKept, HistoryKept
  DEF TypeOK, DetectDisconnect, app, client

LEMMA LeaveClientType ==
  ASSUME TypeOK, LeaveClient
  PROVE  TypeOK'
<1>1. /\ main = "leave" /\ replQueue' = <<>> /\ replOn' = FALSE
      /\ state' = "Disconnected" /\ main' = "accept"
      /\ link' = [link EXCEPT ![ses] = "dead"]
      /\ c2s' = [c2s EXCEPT ![ses] = <<>>]
      /\ UNCHANGED <<app, ring, cur, client, fits, ses, hasher, journal, writeQueue, writer>>
      /\ UNCHANGED <<correctQueue, replica, history, bounds>>
  BY DEF LeaveClient
<1>2. PICK n \in 0..Len(s2c[ses]) : s2c' = [s2c EXCEPT ![ses] = SubSeq(@, 1, n)]
  BY  DEF LeaveClient
<1>3. ses \in Conns
  BY <1>1, ServingConn
<1>4. AllBounded(c2s', Packet, Window)
  BY <1>1, <1>3, EmptyBounded, UpdateBounded, ConstantsAssumption DEF TypeOK, NetType
<1>5. AllBounded(s2c', Reply, Window)
  BY <1>2, <1>3, CutBounded, ConstantsAssumption DEF TypeOK, NetType
<1>6. NetType'
  BY <1>1, <1>4, <1>5, SameLog DEF TypeOK, NetType, app
<1>7. QueuesType'
  BY <1>1, SameLog, EmptyBounded, ConstantsAssumption DEF TypeOK, QueuesType, app, journal
<1>8. ServerType'
  BY <1>1 DEF TypeOK, ServerType, journal, history
<1>. QED
  BY <1>1, <1>6, <1>7, <1>8, AppKept, ClientKept, WorkersKept, HistoryKept
  DEF TypeOK, app, client

LEMMA NoneQueued ==
  ASSUME NEW S, NEW max \in Nat
  PROVE  AllBounded([k \in Conns |-> <<>>], S, max)
BY EmptySeq, SMT DEF AllBounded

LEMMA ServerRestartType ==
  ASSUME TypeOK, ServerRestart
  PROVE  TypeOK'
<1>1. /\ breaks < MaxBreaks /\ breaks' = breaks + 1
      /\ ses' = cur /\ state' = "Disconnected" /\ main' = "accept"
      /\ link' = [k \in Conns |-> IF link[k] = "up" THEN "dead" ELSE link[k]]
      /\ c2s' = [k \in Conns |-> <<>>]
      /\ hasher' = [pc |-> "idle", todo |-> {}, scan |-> 0]
      /\ journalQueue' = <<>>
      /\ writeQueue' = [k \in Conns |-> <<>>] /\ writer' = [k \in Conns |-> <<>>]
      /\ correctQueue' = [k \in Conns |-> <<>>]
      /\ replQueue' = <<>> /\ replOn' = FALSE
      /\ UNCHANGED <<app, ring, cur, client, fits, jWrites, jBlocks, replica, history, errors>>
  BY  DEF ServerRestart
<1>2. PICK n \in 0..Len(s2c[cur]) : s2c' = [s2c EXCEPT ![cur] = SubSeq(@, 1, n)]
  BY  DEF ServerRestart
<1>3. cur \in Conns /\ cur \in Nat
  BY ConstantsAssumption, SMT DEF TypeOK, NetType, Conns
<1>4. AllBounded(c2s', Packet, Window)
  BY <1>1, NoneQueued, ConstantsAssumption
<1>5. AllBounded(s2c', Reply, Window)
  BY <1>2, <1>3, CutBounded, ConstantsAssumption DEF TypeOK, NetType
<1>6. NetType'
  BY <1>1, <1>4, <1>5, SameLog DEF TypeOK, NetType, app
<1>7. QueuesType'
  <2>1. /\ Bounded(journalQueue', WritePacket \union BlockPacket, QueueSize)
        /\ Bounded(replQueue', BlockPacket, QueueSize)
    BY <1>1, EmptyBounded, ConstantsAssumption
  <2>2. /\ AllBounded(writeQueue', QueuedWrite, QueueSize)
        /\ AllBounded(correctQueue', BlockPacket, QueueSize)
    BY <1>1, NoneQueued, ConstantsAssumption
  <2>3. writer' \in [Conns -> Seq(QueuedWrite)]
    BY <1>1, EmptySeq
  <2>. QED
    BY <1>1, <2>1, <2>2, <2>3, SameLog DEF TypeOK, QueuesType, app
<1>8. ServerType'
  <2>1. fits \in BOOLEAN /\ fits' = fits /\ cur' = cur
    BY <1>1 DEF TypeOK, ServerType
  <2>2. ses' \in -1..cur' /\ ses' # -1
    BY <1>1, <1>3, <2>1, SMT
  <2>3. hasher' \in [pc : {"idle", "reset", "hash"}, todo : SUBSET Blocks, scan : Nat]
    BY <1>1
  <2>. QED
    BY <1>1, <2>1, <2>2, <2>3 DEF ServerType
<1>9. HistoryType'
  <2>1. breaks' \in 0..MaxBreaks
    <3>1. breaks \in 0..MaxBreaks
      BY DEF TypeOK, HistoryType
    <3>. QED
      BY <1>1, <3>1, ConstantsAssumption, SMT
  <2>2. /\ UNCHANGED <<resets, finished, current, synced, straddling, snatched>>
        /\ UNCHANGED <<rewound, stray, dropped, errors>>
    BY <1>1 DEF history, excuses
  <2>. QED
    BY <2>1, <2>2 DEF TypeOK, HistoryType
<1>. QED
  BY <1>1, <1>6, <1>7, <1>8, <1>9, AppKept, ClientKept, WorkersKept
  DEF TypeOK, app, client
-----------------------------------------------------------------------------
(* The goroutines of the queues and HashDisk.                              *)
LEMMA HandleJournalPacketType ==
  ASSUME TypeOK, HandleJournalPacket
  PROVE  TypeOK'
<1> DEFINE p == Head(journalQueue)
<1>1. /\ journalQueue # <<>> /\ journalQueue' = Tail(journalQueue)
      /\ UNCHANGED <<app, ring, c2s, link, cur, client, fits, ses, main, hasher, direct, replica>>
      /\ UNCHANGED <<history, bounds>>
  BY DEF HandleJournalPacket
<1>2. ses \in Conns
  BY <1>1, ServingConn
<1>3. Bounded(journalQueue', WritePacket \union BlockPacket, QueueSize) /\ p \in WritePacket \union BlockPacket
  BY <1>1, TailBounded, ConstantsAssumption DEF TypeOK, QueuesType
<1>4. /\ p.type = "BufferWrite" => p.write \in Issued
      /\ p.type # "BufferWrite" => p \in BlockPacket
  BY <1>3 DEF WritePacket, BlockPacket
<1>5. Bounded(jWrites, Issued, WCount) /\ Bounded(jBlocks, BlockPacket, CCount)
  BY DEF TypeOK, QueuesType
<1>6. Len(jWrites) \in Nat /\ Len(jBlocks) \in Nat
  BY <1>5, LenProperties DEF Bounded
<1>7. /\ Bounded(jWrites', Issued, WCount) /\ Bounded(jBlocks', BlockPacket, CCount)
      /\ AllBounded(s2c', Reply, Window) /\ state' \in {state, "JournalOverflow"}
  <2>0. AllBounded(s2c, Reply, Window)
    BY DEF TypeOK, NetType
  <2>1. CASE /\ ~(IF p.type = "BufferWrite" THEN Len(jWrites) >= WCount ELSE Len(jBlocks) >= CCount)
             /\ jWrites' = IF p.type = "BufferWrite" THEN Append(jWrites, p.write) ELSE jWrites
             /\ jBlocks' = IF p.type = "BufferWrite" THEN jBlocks ELSE Append(jBlocks, p)
             /\ UNCHANGED <<s2c, state>>
    <3>1. CASE p.type = "BufferWrite"
      <4>1. Len(jWrites) < WCount
        BY <1>6, <2>1, <3>1, ConstantsAssumption, SMT
      <4>. QED
        BY <1>4, <1>5, <2>0, <2>1, <3>1, <4>1, AppendBounded, ConstantsAssumption
    <3>2. CASE p.type # "BufferWrite"
      <4>1. Len(jBlocks) < CCount
        BY <1>6, <2>1, <3>2, ConstantsAssumption, SMT
      <4>. QED
        BY <1>4, <1>5, <2>0, <2>1, <3>2, <4>1, AppendBounded, ConstantsAssumption
    <3>. QED
      BY <3>1, <3>2
  <2>2. CASE /\ ToClient([type |-> "ErrJournalOverflow"])
             /\ state' = "JournalOverflow"
             /\ UNCHANGED <<jWrites, jBlocks>>
    <3>1. [type |-> "ErrJournalOverflow"] \in Reply
      BY DEF Reply
    <3>2. AllBounded(s2c', Reply, Window)
      BY <1>2, <2>2, <3>1, AnswerKeepsS2C DEF TypeOK
    <3>. QED
      BY <1>5, <2>2, <3>2
  <2>3. CASE UNCHANGED <<jWrites, jBlocks, s2c, state>>
    BY <1>5, <2>0, <2>3
  <2>. QED
    BY <2>1, <2>2, <2>3 DEF HandleJournalPacket
<1>8. NetType'
  BY <1>1, <1>7, SameLog DEF TypeOK, NetType, app
<1>9. QueuesType'
  BY <1>1, <1>3, <1>7, SameLog DEF TypeOK, QueuesType, app, direct
<1>10. ServerType'
  BY <1>1, <1>2, <1>7 DEF TypeOK, ServerType, Conns, history
<1>. QED
  BY <1>1, <1>8, <1>9, <1>10, AppKept, ClientKept, WorkersKept, HistoryKept
  DEF TypeOK, app, client

LEMMA TakeWritePacketType ==
  ASSUME TypeOK, NEW k \in Conns, TakeWritePacket(k)
  PROVE  TypeOK'
<1>1. /\ writeQueue[k] # <<>> /\ writeQueue' = [writeQueue EXCEPT ![k] = Tail(@)]
      /\ writer' = [writer EXCEPT ![k] = IF state = "Writing" THEN <<Head(writeQueue[k])>> ELSE <<>>]
      /\ UNCHANGED <<app, ring, net, client, fits, ses, state, main, hasher, journal>>
      /\ UNCHANGED <<correctQueue, replQueue, replOn, replica, history, bounds>>
  BY DEF TakeWritePacket
<1>2. AllBounded(writeQueue, QueuedWrite, QueueSize) /\ writer \in [Conns -> Seq(QueuedWrite)]
  BY DEF TypeOK, QueuesType
<1>3. Bounded(Tail(writeQueue[k]), QueuedWrite, QueueSize) /\ Head(writeQueue[k]) \in QueuedWrite
  BY <1>1, <1>2, MemberBounded, TailBounded, ConstantsAssumption
<1>4. AllBounded(writeQueue', QueuedWrite, QueueSize)
  BY <1>1, <1>2, <1>3, UpdateBounded, ConstantsAssumption
<1>5. writer' \in [Conns -> Seq(QueuedWrite)]
  <2>1. <<Head(writeQueue[k])>> \in Seq(QueuedWrite) /\ <<>> \in Seq(QueuedWrite)
    BY <1>3, EmptySeq, SMT
  <2>. QED
    BY <1>1, <1>2, <2>1
<1>6. QueuesType'
  BY <1>1, <1>4, <1>5, SameLog DEF TypeOK, QueuesType, app, journal
<1>. QED
  BY <1>1, <1>6, AppKept, NetKept, ClientKept, WorkersKept, ServerKept, HistoryKept
  DEF TypeOK, app, net, client, history

LEMMA RewindType ==
  ASSUME TypeOK, NEW blk \in Blocks
  PROVE  rewound \in BlockSets /\ Rewind(blk) \in BlockSets
BY DEF TypeOK, HistoryType, Rewind, BlockSets

LEMMA HandleWritePacketType ==
  ASSUME TypeOK, NEW k \in Conns, HandleWritePacket(k)
  PROVE  TypeOK'
<1> DEFINE e == Head(writer[k])
<1>1. /\ writer[k] # <<>> /\ writer' = [writer EXCEPT ![k] = <<>>]
      /\ replica' = [replica EXCEPT ![log[e.write]] = e.write]
      /\ rewound' = Rewind(log[e.write]) \/ rewound' = rewound
      /\ UNCHANGED <<app, ring, net, client, fits, ses, state, main, hasher, journal, writeQueue>>
      /\ UNCHANGED <<correctQueue, replQueue, replOn, resets, finished, current, synced, straddling, snatched, stray>>
      /\ UNCHANGED <<dropped, bounds>>
  BY  DEF HandleWritePacket
<1>2. writer \in [Conns -> Seq(QueuedWrite)] /\ replica \in [Blocks -> Unknown..Len(log)]
  BY DEF TypeOK, QueuesType
<1>3. e.write \in Issued /\ log[e.write] \in Blocks
  <2>1. e \in QueuedWrite
    BY <1>1, <1>2, HeadTailProperties
  <2>2. e.write \in Issued
    BY <2>1 DEF QueuedWrite
  <2>. QED
    BY <2>2, ElementOfSeq DEF TypeOK, AppType, Bounded, Issued
<1>4. replica' \in [Blocks -> Unknown..Len(log)]
  <2>1. Issued \subseteq Unknown..Len(log)
    BY SMT DEF Issued, Unknown
  <2>. QED
    BY <1>1, <1>2, <1>3, <2>1
<1>5. writer' \in [Conns -> Seq(QueuedWrite)]
  BY <1>1, <1>2, EmptySeq
<1>6. rewound' \in BlockSets
  <2>1. PICK blk \in Blocks : rewound' \in {Rewind(blk), rewound}
    BY <1>1, <1>3
  <2>. QED
    BY <2>1, RewindType
<1>7. QueuesType'
  BY <1>1, <1>4, <1>5, SameLog DEF TypeOK, QueuesType, app, journal
<1>8. HistoryType'
  BY <1>1, <1>6 DEF TypeOK, HistoryType, bounds
<1>. QED
  BY <1>1, <1>7, <1>8, AppKept, NetKept, ClientKept, WorkersKept, ServerKept
  DEF TypeOK, app, net, client

LEMMA HandleCorrectPacketType ==
  ASSUME TypeOK, NEW k \in Conns, HandleCorrectPacket(k)
  PROVE  TypeOK'
<1> DEFINE p == Head(correctQueue[k])
<1>1. /\ correctQueue[k] # <<>> /\ correctQueue' = [correctQueue EXCEPT ![k] = Tail(@)]
      /\ replica' = [replica EXCEPT ![p.blk] = p.val]
      /\ rewound' = Rewind(p.blk) \/ rewound' = rewound
      /\ UNCHANGED <<app, ring, net, client, fits, ses, state, main, hasher, journal, writeQueue>>
      /\ UNCHANGED <<writer, replQueue, replOn, resets, finished, current, synced, straddling, snatched, stray>>
      /\ UNCHANGED <<dropped, bounds>>
  BY  DEF HandleCorrectPacket
<1>2. AllBounded(correctQueue, BlockPacket, QueueSize) /\ replica \in [Blocks -> Unknown..Len(log)]
  BY DEF TypeOK, QueuesType
<1>3. Bounded(Tail(correctQueue[k]), BlockPacket, QueueSize) /\ p \in BlockPacket
  BY <1>1, <1>2, MemberBounded, TailBounded, ConstantsAssumption
<1>4. p.blk \in Blocks /\ p.val \in Contents
  BY <1>3 DEF BlockPacket
<1>5. replica' \in [Blocks -> Unknown..Len(log)]
  <2>1. Contents \subseteq Unknown..Len(log)
    BY SMT DEF Contents, Unknown
  <2>. QED
    BY <1>1, <1>2, <1>4, <2>1
<1>6. AllBounded(correctQueue', BlockPacket, QueueSize)
  BY <1>1, <1>2, <1>3, UpdateBounded, ConstantsAssumption
<1>7. rewound' \in BlockSets
  <2>1. PICK blk \in Blocks : rewound' \in {Rewind(blk), rewound}
    BY <1>1, <1>4
  <2>. QED
    BY <2>1, RewindType
<1>8. QueuesType'
  BY <1>1, <1>5, <1>6, SameLog DEF TypeOK, QueuesType, app, journal
<1>9. HistoryType'
  BY <1>1, <1>7 DEF TypeOK, HistoryType, bounds
<1>. QED
  BY <1>1, <1>8, <1>9, AppKept, NetKept, ClientKept, WorkersKept, ServerKept
  DEF TypeOK, app, net, client

LEMMA HandleReplicationPacketType ==
  ASSUME TypeOK, HandleReplicationPacket
  PROVE  TypeOK'
<1> DEFINE p == Head(replQueue)
<1>1. /\ replQueue # <<>> /\ replQueue' = Tail(replQueue)
      /\ replica' = [replica EXCEPT ![p.blk] = p.val]
      /\ UNCHANGED <<app, ring, net, client, fits, ses, state, main, hasher, journal, writeQueue>>
      /\ UNCHANGED <<writer, correctQueue, replOn, history, bounds>>
  BY  DEF HandleReplicationPacket
<1>2. Bounded(replQueue', BlockPacket, QueueSize) /\ p \in BlockPacket
  BY <1>1, TailBounded, ConstantsAssumption DEF TypeOK, QueuesType
<1>3. replica' \in [Blocks -> Unknown..Len(log)]
  <2>1. p.val \in Unknown..Len(log)
    BY <1>2, SMT DEF BlockPacket, Contents, Unknown
  <2>. QED
    BY <1>1, <2>1 DEF TypeOK, QueuesType
<1>4. QueuesType'
  BY <1>1, <1>2, <1>3, SameLog DEF TypeOK, QueuesType, app, journal
<1>. QED
  BY <1>1, <1>4, AppKept, NetKept, ClientKept, WorkersKept, ServerKept, HistoryKept
  DEF TypeOK, app, net, client, history

LEMMA HashDiskResetType ==
  ASSUME TypeOK, HashDiskReset
  PROVE  TypeOK'
<1>1. /\ hasher.pc = "reset" /\ ToClient([type |-> "InfoStartHashing"])
      /\ hasher' = [hasher EXCEPT !.pc = IF Dead(ses) THEN "idle" ELSE "hash"]
      /\ \/ UNCHANGED <<jWrites, jBlocks>>
         \/ jWrites' = <<>> /\ jBlocks' = <<>>
      /\ UNCHANGED <<app, ring, c2s, link, cur, client, fits, ses, state, main, journalQueue>>
      /\ UNCHANGED <<direct, replica, history, bounds>>
  BY DEF HashDiskReset
<1>2. ses \in Conns
  BY <1>1, ServingConn
<1>3. AllBounded(s2c', Reply, Window)
  <2>1. [type |-> "InfoStartHashing"] \in Reply
    BY DEF Reply
  <2>. QED
    BY <1>1, <1>2, <2>1, AnswerKeepsS2C DEF TypeOK
<1>4. NetType'
  BY <1>1, <1>3, SameLog DEF TypeOK, NetType, app
<1>5. QueuesType'
  BY <1>1, SameLog, EmptyBounded, ConstantsAssumption, SMT DEF TypeOK, QueuesType, app, direct
<1>6. ServerType'
  BY <1>1, <1>2 DEF TypeOK, ServerType, Conns, history
<1>. QED
  BY <1>1, <1>4, <1>5, <1>6, AppKept, ClientKept, WorkersKept, HistoryKept
  DEF TypeOK, app, client

LEMMA HashBlockType ==
  ASSUME TypeOK, NEW b \in Blocks, HashBlock(b)
  PROVE  TypeOK'
<1>1. /\ hasher.pc = "hash" /\ ToClient([type |-> "PayloadHash", blk |-> b, val |-> replica[b]])
      /\ hasher' = [hasher EXCEPT !.todo = @ \ {b}]
      /\ rewound' = [rewound EXCEPT !.now = @ \ {b}]
      /\ UNCHANGED <<app, ring, c2s, link, cur, client, fits, ses, state, main, journal, direct>>
      /\ UNCHANGED <<replica, resets, finished, current, synced, straddling, snatched, stray, dropped, bounds>>
  BY DEF HashBlock
<1>2. ses \in Conns
  BY <1>1, ServingConn
<1>3. AllBounded(s2c', Reply, Window)
  <2>1. replica[b] \in Unknown..Len(log)
    BY DEF TypeOK, QueuesType
  <2>2. PICK p \in Reply : ToClient(p)
    <3>1. [type |-> "PayloadHash", blk |-> b, val |-> replica[b]] \in Reply
      BY <2>1 DEF Reply, HashPacket
    <3>. QED
      BY <1>1, <3>1
  <2>. QED
    BY <1>2, <2>2, AnswerKeepsS2C DEF TypeOK
<1>4. NetType'
  BY <1>1, <1>3, SameLog DEF TypeOK, NetType, app
<1>5. ServerType'
  BY <1>1, <1>2 DEF TypeOK, ServerType, Conns, journal
<1>6. rewound' \in BlockSets
  BY <1>1 DEF TypeOK, HistoryType, BlockSets
<1>7. HistoryType'
  BY <1>1, <1>6 DEF TypeOK, HistoryType, bounds
<1>. QED
  BY <1>1, <1>4, <1>5, <1>7, AppKept, ClientKept, WorkersKept, QueuesKept
  DEF TypeOK, app, client

LEMMA HashDiskEndType ==
  ASSUME TypeOK, HashDiskEnd
  PROVE  TypeOK'
<1>1. /\ hasher.pc = "hash" /\ ToClient([type |-> "InfoHashingCompleted", scan |-> hasher.scan])
      /\ hasher' = [hasher EXCEPT !.pc = "idle", !.todo = {}]
      /\ UNCHANGED <<app, ring, c2s, link, cur, client, fits, ses, state, main, journal, direct>>
      /\ UNCHANGED <<replica, history, bounds>>
  BY DEF HashDiskEnd
<1>2. ses \in Conns
  BY <1>1, ServingConn
<1>3. AllBounded(s2c', Reply, Window)
  <2>1. PICK p \in Reply : ToClient(p)
    <3>1. [type |-> "InfoHashingCompleted", scan |-> hasher.scan] \in Reply
      BY DEF TypeOK, ServerType, Reply
    <3>. QED
      BY <1>1, <3>1
  <2>. QED
    BY <1>2, <2>1, AnswerKeepsS2C DEF TypeOK
<1>4. NetType'
  BY <1>1, <1>3, SameLog DEF TypeOK, NetType, app
<1>5. ServerType'
  BY <1>1, <1>2 DEF TypeOK, ServerType, Conns, journal, history
<1>. QED
  BY <1>1, <1>4, <1>5, AppKept, ClientKept, WorkersKept, QueuesKept, HistoryKept
  DEF TypeOK, app, client
-----------------------------------------------------------------------------
(* TypeOK is inductive.                                                    *)
LEMMA InitType == Init => TypeOK
<1> SUFFICES ASSUME Init PROVE TypeOK
  OBVIOUS
<1>1. /\ log = <<>> /\ Len(log) = 0 /\ 0 \in Contents /\ Conns = 0..MaxBreaks /\ 0 \in Conns
      /\ Unknown \in Unknown..Len(log) /\ 0 \in Unknown..Len(log)
  BY EmptySeq, ConstantsAssumption, SMT DEF Init, Contents, Conns, Unknown
<1>2. AppType
  BY <1>1, EmptySeq, EmptyBounded, ConstantsAssumption DEF Init, AppType, Ring!QueueInit, None
<1>3. NetType
  <2>1. InitInfo \in Packet
    BY DEF InitInfo, Packet
  <2>2. Bounded(<<InitInfo>>, Packet, Window)
    BY <2>1, ConstantsAssumption, SMT DEF Bounded
  <2>3. AllBounded(c2s, Packet, Window)
    BY <2>2, EmptyBounded, ConstantsAssumption DEF Init, NewClient, AllBounded, Bounded
  <2>4. AllBounded(s2c, Reply, Window)
    BY NoneQueued, ConstantsAssumption DEF Init, NewClient
  <2>. QED
    BY <1>1, <2>3, <2>4 DEF Init, NewClient, NetType
<1>4. ClientType
  <2>1. PICK kind \in {"scan", "full", "replicate"} :
           \/ /\ mon = [pc |-> "wait", batch |-> <<>>, tag |-> 0, kind |-> "scan"]
              /\ lis = [pc |-> "receive", batch |-> <<>>, tag |-> 0, read |-> 0]
           \/ /\ mon = [pc |-> "reset", batch |-> <<>>, tag |-> 0, kind |-> kind]
              /\ lis = [pc |-> "starting", batch |-> <<>>, tag |-> 0, read |-> 0]
    <3>1. PICK start \in Starts :
             IF start = "none"
               THEN /\ mon = [pc |-> "wait", batch |-> <<>>, tag |-> 0, kind |-> "scan"]
                    /\ lis = [pc |-> "receive", batch |-> <<>>, tag |-> 0, read |-> 0]
               ELSE /\ mon = [pc |-> "reset", batch |-> <<>>, tag |-> 0, kind |-> start]
                    /\ lis = [pc |-> "starting", batch |-> <<>>, tag |-> 0, read |-> 0]
      BY DEF Init
    <3>. QED
      BY <3>1, ConstantsAssumption
  <2>2. <<>> \in Seq(Issued)
    BY EmptySeq
  <2>3. cstate = "Writing" /\ pause = "empty"
    BY DEF Init, NewClient
  <2>4. CASE /\ mon = [pc |-> "wait", batch |-> <<>>, tag |-> 0, kind |-> "scan"]
             /\ lis = [pc |-> "receive", batch |-> <<>>, tag |-> 0, read |-> 0]
    BY <2>2, <2>3, <2>4 DEF ClientType
  <2>5. CASE /\ mon = [pc |-> "reset", batch |-> <<>>, tag |-> 0, kind |-> kind]
             /\ lis = [pc |-> "starting", batch |-> <<>>, tag |-> 0, read |-> 0]
    BY <2>2, <2>3, <2>5 DEF ClientType
  <2>. QED
    BY <2>1, <2>4, <2>5
<1>5. WorkersType
  BY FS_EmptySet, ConstantsAssumption, SMT DEF Init, WorkersType
<1>6. ServerType
  BY ConstantsAssumption, SMT DEF Init, NewClient, NewServer, ServerType
<1>7. QueuesType
  <2>1. replica \in [Blocks -> Unknown..Len(log)]
    <3>1. CASE replica = source
      BY <1>1, <3>1 DEF Init
    <3>2. CASE replica \in [Blocks -> {IF d THEN Unknown ELSE 0 : d \in Differs}]
      BY <1>1, <3>2
    <3>. QED
      BY <3>1, <3>2 DEF Init
  <2>. QED
    BY <2>1, EmptySeq, EmptyBounded, NoneQueued, ConstantsAssumption DEF Init, QueuesType
<1>8. HistoryType
  <2>1. current \in [scan : Scan, cut : BOOLEAN, applied : BOOLEAN]
    <3>1. current = NoScan \/ current = [NoScan EXCEPT !.scan = 0]
      BY DEF Init
    <3>2. PICK n \in Nat : n = 0
      OBVIOUS
    <3>3. CASE current = [NoScan EXCEPT !.scan = n]
      BY <3>3 DEF NoScan, Scan
    <3>4. CASE current = NoScan
      BY <3>4 DEF NoScan, Scan
    <3>. QED
      BY <3>1, <3>2, <3>3, <3>4
  <2>2. synced \in {"no", "converging", "prefix"}
    BY DEF Init
  <2>. QED
    BY <2>1, <2>2, EmptySeq, ConstantsAssumption, SMT DEF Init, HistoryType, BlockSets
<1>. QED
  BY <1>2, <1>3, <1>4, <1>5, <1>6, <1>7, <1>8 DEF TypeOK

LEMMA ClientTypeStep ==
  ASSUME TypeOK, Client
  PROVE  TypeOK'
<1>1. ASSUME Monitor PROVE TypeOK'
  BY <1>1, WaitIfPausedType, MonitorReadType, MonitorCheckType, MonitorSendType,
     MonitorStartHashingType DEF Monitor
<1>2. ASSUME Listener PROVE TypeOK'
  BY <1>2, ReceiveHashType, ReceiveStartHashingType, ReceiveHashingCompletedType, ReceiveErrorType,
     SendBufferType, ListenerSendType, ResumeType, SendHashingCompletedType, ListenerStartHashingType,
     DetectClosedType, ReconnectType, CloseClientConnType DEF Listener
<1>3. ASSUME InitHashing PROVE TypeOK'
  BY <1>3, CompareHashType, SendCorrectBlockType, WorkerStartHashingType DEF InitHashing
<1>4. ASSUME InitReplication PROVE TypeOK'
  BY <1>4, ReadBlockType, SendReplicationBlockType, SendReplicationCompletedType,
     ReplicationResumeType DEF InitReplication
<1>. QED
  BY <1>1, <1>2, <1>3, <1>4 DEF Client

LEMMA ServerTypeStep ==
  ASSUME TypeOK, Server
  PROVE  TypeOK'
<1>1. ASSUME HandleCmdStartHashing \/ HandleCmdStartFullScan \/ HandleInfoStartReplication
      PROVE  TypeOK'
  BY <1>1, HandleCommandType
  DEF HandleCmdStartHashing, HandleCmdStartFullScan, HandleInfoStartReplication
<1>2. ASSUME HandleHashingCompleted \/ HandleReplicationCompleted
      PROVE  TypeOK'
  BY <1>2, HandleCompletedType DEF HandleHashingCompleted, HandleReplicationCompleted
<1>3. ASSUME MainLoop PROVE TypeOK'
  BY <1>1, <1>2, <1>3, AcceptClientType, HandleInitType, DetectDisconnectType, LeaveClientType,
     StartScanType, StartReplicationType, HandleBufferWriteType, HandleCorrectBlockType,
     HandleReplicationBlockType, HandleJournalWritingType, HandleReplicationWritingType DEF MainLoop
<1>4. ASSUME HashDisk PROVE TypeOK'
  BY <1>4, HashDiskResetType, HashBlockType, HashDiskEndType DEF HashDisk
<1>5. ASSUME QueueWorkers PROVE TypeOK'
  BY <1>5, HandleJournalPacketType, HandleReplicationPacketType, TakeWritePacketType,
     HandleWritePacketType, HandleCorrectPacketType DEF QueueWorkers, WritePackets
<1>. QED
  BY <1>3, <1>4, <1>5 DEF Server

LEMMA TypeStep ==
  ASSUME TypeOK, [Next]_vars
  PROVE  TypeOK'
<1>1. CASE UNCHANGED vars
  BY <1>1, AppKept, NetKept, ClientKept, WorkersKept, ServerKept, QueuesKept, HistoryKept
  DEF TypeOK, vars, app, net, client, server, history
<1>2. CASE Applications
  BY <1>2, IssueWriteType, CompleteWriteType DEF Applications
<1>3. CASE \E k \in Conns : Break(k)
  BY <1>3, BreakType
<1>. QED
  BY <1>1, <1>2, <1>3, ClientTypeStep, ServerTypeStep, ServerRestartType DEF Next

(* Nothing but an issued write is ever sent, queued, journalled or written *)
(* to a device, and every channel, connection, worker pool and journal     *)
(* section stays within its bound (NewClient, NewServer, CreateJournal),   *)
(* over any number of sessions, restarts of the server and failed reads.   *)
THEOREM TypeCorrect == Spec => []TypeOK
<1>1. TypeOK /\ [Next]_vars => TypeOK'
  BY TypeStep
<1>. QED
  BY <1>1, InitType, PTL DEF Spec
=============================================================================
