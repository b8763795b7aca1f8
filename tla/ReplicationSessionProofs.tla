----------------------- MODULE ReplicationSessionProofs -----------------------
(***************************************************************************)
(* In the first session of a client, however often the ring buffer         *)
(* overflows, at most one scan is under way, and nobody disturbs the       *)
(* monitor while it works: SessionInv is inductive.                        *)
(***************************************************************************)
EXTENDS ReplicationInvariants, SequenceTheorems, TLAPS

(* Most leaves are first-order: Zenon unless a leaf names another prover.  *)
USE Zenon

(* r has no packet of the types that q has not.                            *)
Fewer(q, r, types) ==
  /\ Holds(r, types) => Holds(q, types)
  /\ Once(q, types) => Once(r, types)

LEMMA FewerSame ==
  ASSUME NEW q, NEW types
  PROVE  Fewer(q, q, types)
BY DEF Fewer

LEMMA FewerEmpty ==
  ASSUME NEW q, NEW types
  PROVE  Fewer(q, <<>>, types)
<1>1. Len(<<>>) = 0
  BY EmptySeq
<1>. QED
  BY <1>1, SMT DEF Fewer, Holds, Once

LEMMA FewerTail ==
  ASSUME NEW S, NEW q \in Seq(S), q # <<>>, NEW types
  PROVE  /\ Fewer(q, Tail(q), types)
         /\ Head(q).type \in types => Holds(q, types) /\ (Once(q, types) => ~Holds(Tail(q), types))
<1>1. /\ Len(q) \in Nat /\ Len(q) >= 1 /\ Head(q) = q[1] /\ Len(Tail(q)) = Len(q) - 1
      /\ \A i \in 1..Len(Tail(q)) : Tail(q)[i] = q[i + 1]
  <2>1. Len(q) \in Nat /\ Len(q) # 0
    BY LenProperties, EmptySeq
  <2>2. /\ Head(q) = q[1] /\ Len(Tail(q)) = Len(q) - 1
        /\ \A i \in 1..Len(Tail(q)) : Tail(q)[i] = q[i + 1]
    BY HeadTailProperties, SMT
  <2>. QED
    BY <2>1, <2>2, SMT
<1>2. \A i \in 1..Len(Tail(q)) : i + 1 \in 1..Len(q) /\ i + 1 # 1
  BY <1>1, SMT
<1>3. Fewer(q, Tail(q), types)
  BY <1>1, <1>2, SMT DEF Fewer, Holds, Once
<1>4. 1 \in 1..Len(q)
  BY <1>1, SMT
<1>. QED
  BY <1>1, <1>2, <1>3, <1>4 DEF Holds, Once

LEMMA FewerAppend ==
  ASSUME NEW S, NEW q \in Seq(S), NEW e, NEW types
  PROVE  /\ e.type \notin types => Fewer(q, Append(q, e), types)
         /\ ~Holds(q, types) => Once(Append(q, e), types)
<1>1. /\ Len(q) \in Nat /\ Len(Append(q, e)) = Len(q) + 1
      /\ Append(q, e)[Len(q) + 1] = e
      /\ \A i \in 1..Len(q) : Append(q, e)[i] = q[i]
  <2>1. q \in Seq(S \union {e})
    BY SeqMonotonic
  <2>. QED
    BY <2>1, AppendProperties, LenProperties, SMT
<1>2. \A i \in 1..Len(Append(q, e)) : i \in 1..Len(q) \/ i = Len(q) + 1
  BY <1>1, SMT
<1>. QED
  BY <1>1, <1>2 DEF Fewer, Holds, Once

LEMMA FewerPrefix ==
  ASSUME NEW S, NEW q \in Seq(S), NEW m \in 0..Len(q), NEW types
  PROVE  Fewer(q, SubSeq(q, 1, m), types)
<1>1. Len(q) \in Nat /\ \A i \in 1..m : q[i] \in S
  BY LenProperties, ElementOfSeq, SMT
<1>2. /\ Len(SubSeq(q, 1, m)) = m
      /\ \A i \in 1..m : SubSeq(q, 1, m)[i] = q[i]
  BY <1>1, SubSeqProperties, SMT
<1>3. \A i \in 1..m : i \in 1..Len(q)
  BY <1>1, SMT
<1>. QED
  BY <1>2, <1>3 DEF Fewer, Holds, Once
-----------------------------------------------------------------------------
(* A step after which no scan is at a place where there was none.          *)
LEMMA NothingNew ==
  ASSUME SessionInv, FirstSession, UNCHANGED <<mon, pause, failer>>,
         Fewer(c2s[0], c2s'[0], Scans), Fewer(s2c[0], s2c'[0], Ends),
         Accepted' => Accepted, Hashing' => Hashing,
         Completing' => Completing, Copying' => Copying
  PROVE  SessionInv'
<1>1. (Asked' => Asked) /\ (Announced' => Announced) /\ (Requesting' = Requesting)
  BY DEF Asked, Announced, Requesting, Fewer
<1>2. OneScan /\ MonitorHeld /\ failer.pc = "none"
  BY DEF SessionInv
<1>3. Once(c2s'[0], Scans) /\ Once(s2c'[0], Ends)
  BY <1>2 DEF OneScan, Fewer
<1>4. OneScan'
  BY <1>1, <1>2, <1>3 DEF OneScan
<1>5. MonitorHeld'
  BY <1>1, <1>2 DEF MonitorHeld
<1>. QED
  BY <1>2, <1>4, <1>5 DEF SessionInv

LEMMA SendFewer ==
  ASSUME TypeOK, cur = 0, NEW p, p.type \notin Scans, ToServer(p)
  PROVE  Fewer(c2s[0], c2s'[0], Scans)
<1>1. 0 \in Conns /\ c2s \in [Conns -> Seq(Packet)]
  BY ConstantsAssumption DEF TypeOK, NetType, AllBounded, Conns
<1>2. c2s'[0] = Append(c2s[0], p)
  BY <1>1 DEF ToServer
<1>. QED
  BY <1>1, <1>2, FewerAppend, SMT

LEMMA ReceiveFewer ==
  ASSUME TypeOK, cur = 0, s2c[cur] # <<>>, s2c' = [s2c EXCEPT ![cur] = Tail(@)]
  PROVE  Fewer(s2c[0], s2c'[0], Ends)
<1>1. 0 \in Conns /\ s2c \in [Conns -> Seq(Reply)]
  BY ConstantsAssumption DEF TypeOK, NetType, AllBounded, Conns
<1>2. s2c'[0] = Tail(s2c[0])
  BY <1>1
<1>. QED
  BY <1>1, <1>2, FewerTail

LEMMA ArriveFewer ==
  ASSUME TypeOK, ses = 0, c2s[ses] # <<>>, c2s' = [c2s EXCEPT ![ses] = Tail(@)]
  PROVE  Fewer(c2s[0], c2s'[0], Scans)
<1>1. 0 \in Conns /\ c2s \in [Conns -> Seq(Packet)]
  BY ConstantsAssumption, SMT DEF TypeOK, NetType, AllBounded, Conns
<1>2. c2s'[0] = Tail(c2s[0])
  BY <1>1
<1>. QED
  BY <1>1, <1>2, FewerTail

LEMMA AnswerFewer ==
  ASSUME TypeOK, ses = 0, NEW p, p.type \notin Ends, ToClient(p)
  PROVE  Fewer(s2c[0], s2c'[0], Ends)
<1>1. 0 \in Conns /\ s2c \in [Conns -> Seq(Reply)]
  BY ConstantsAssumption, SMT DEF TypeOK, NetType, AllBounded, Conns
<1>2. s2c'[0] = Append(s2c[0], p) \/ s2c' = s2c
  BY <1>1 DEF ToClient
<1>3. Fewer(s2c[0], Append(s2c[0], p), Ends) /\ Fewer(s2c[0], s2c[0], Ends)
  BY <1>1, FewerAppend, FewerSame
<1>. QED
  BY <1>2, <1>3

LEMMA CutFewer ==
  ASSUME TypeOK, NEW k \in Conns
  PROVE  /\ \A m \in 0..Len(c2s[k]) :
              c2s' = [c2s EXCEPT ![k] = SubSeq(@, 1, m)] => Fewer(c2s[0], c2s'[0], Scans)
         /\ \A n \in 0..Len(s2c[k]) :
              s2c' = [s2c EXCEPT ![k] = SubSeq(@, 1, n)] => Fewer(s2c[0], s2c'[0], Ends)
<1>1. 0 \in Conns /\ c2s \in [Conns -> Seq(Packet)] /\ s2c \in [Conns -> Seq(Reply)]
  BY ConstantsAssumption, SMT DEF TypeOK, NetType, AllBounded, Conns
<1>2. ASSUME NEW m \in 0..Len(c2s[k]), c2s' = [c2s EXCEPT ![k] = SubSeq(@, 1, m)]
      PROVE  Fewer(c2s[0], c2s'[0], Scans)
  <2>1. CASE k = 0
    BY <1>1, <1>2, <2>1, FewerPrefix
  <2>2. CASE k # 0
    BY <1>1, <1>2, <2>2, FewerSame
  <2>. QED
    BY <2>1, <2>2
<1>3. ASSUME NEW n \in 0..Len(s2c[k]), s2c' = [s2c EXCEPT ![k] = SubSeq(@, 1, n)]
      PROVE  Fewer(s2c[0], s2c'[0], Ends)
  <2>1. CASE k = 0
    BY <1>1, <1>3, <2>1, FewerPrefix
  <2>2. CASE k # 0
    BY <1>1, <1>3, <2>2, FewerSame
  <2>. QED
    BY <2>1, <2>2
<1>. QED
  BY <1>2, <1>3

(* In the first session the server serves the only connection.             *)
LEMMA ServesFirst ==
  ASSUME TypeOK, FirstSession, ses # -1
  PROVE  ses = 0
<1>1. ses \in -1..cur /\ cur = 0
  BY DEF TypeOK, ServerType, FirstSession
<1>. QED
  BY <1>1, SMT
-----------------------------------------------------------------------------
(* The steps of the monitor, the listener and the workers.                 *)
LEMMA WaitIfPausedSession ==
  ASSUME TypeOK, SessionInv, FirstSession, WaitIfPaused
  PROVE  SessionInv'
<1>1. /\ mon.pc \in {"wait", "blocked"} /\ (mon.pc = "blocked" => pause # "empty")
      /\ mon' = [mon EXCEPT !.pc = IF pause = "Paused" THEN "blocked" ELSE "read"]
      /\ pause' = "empty"
      /\ UNCHANGED <<c2s, s2c, main, hasher, lis, repl, failer>>
  BY DEF WaitIfPaused, net, server, workers
<1>2. mon'.pc = IF pause = "Paused" THEN "blocked" ELSE "read"
  BY <1>1 DEF TypeOK, ClientType
<1>3. OneScan /\ MonitorHeld /\ failer.pc = "none" /\ pause \in {"empty", "Paused", "Running"}
  BY DEF SessionInv, TypeOK, ClientType
<1>4. /\ Asked' = Asked /\ Accepted' = Accepted /\ Hashing' = Hashing /\ Announced' = Announced
      /\ Completing' = Completing /\ Copying' = Copying /\ ~Requesting'
  BY <1>1, <1>2, SMT DEF Asked, Accepted, Hashing, Announced, Completing, Copying, Requesting
<1>5. OneScan'
  BY <1>1, <1>3, <1>4 DEF OneScan
<1>6. MonitorHeld'
  BY <1>1, <1>2, <1>3, <1>4, SMT DEF MonitorHeld
<1>. QED
  BY <1>1, <1>3, <1>5, <1>6 DEF SessionInv

LEMMA MonitorReadSession ==
  ASSUME TypeOK, SessionInv, FirstSession, MonitorRead
  PROVE  SessionInv'
<1>1. /\ mon.pc = "read"
      /\ mon'.pc \in {"wait", "check", "reset"}
      /\ UNCHANGED <<pause, c2s, s2c, main, hasher, lis, repl, failer>>
  BY  DEF MonitorRead, net, server, workers, TypeOK, ClientType
<1>2. OneScan /\ MonitorHeld /\ failer.pc = "none"
  BY DEF SessionInv
<1>3. /\ Asked' = Asked /\ Accepted' = Accepted /\ Hashing' = Hashing /\ Announced' = Announced
      /\ Completing' = Completing /\ Copying' = Copying
  BY <1>1 DEF Asked, Accepted, Hashing, Announced, Completing, Copying
<1>4. ~(Asked \/ Accepted \/ Hashing \/ Announced \/ Completing \/ Copying) /\ pause # "Paused"
  BY <1>1, <1>2 DEF MonitorHeld
<1>5. OneScan'
  BY <1>1, <1>2, <1>3, <1>4 DEF OneScan
<1>6. MonitorHeld'
  BY <1>1, <1>3, <1>4 DEF MonitorHeld
<1>. QED
  BY <1>1, <1>2, <1>5, <1>6 DEF SessionInv

(* No step of MonitorCheck and MonitorSend requests a scan.                *)
LEMMA MonitorBatchSession ==
  ASSUME TypeOK, SessionInv, FirstSession, MonitorCheck \/ MonitorSend
  PROVE  SessionInv'
<1>1. /\ mon.pc \in {"check", "encode"} /\ mon'.pc \in {"wait", "check", "encode"}
      /\ UNCHANGED <<pause, s2c, main, hasher, lis, repl, failer>>
  BY  DEF MonitorCheck, MonitorSend, MonitorDone, net, server, workers, TypeOK, ClientType
<1>2. OneScan /\ MonitorHeld /\ failer.pc = "none"
  BY DEF SessionInv
<1>3. Fewer(c2s[0], c2s'[0], Scans)
  <2>1. CASE UNCHANGED c2s
    BY <2>1, FewerSame
  <2>2. CASE ToServer([type |-> "BufferWrite", write |-> Head(mon.batch), tag |-> mon.tag])
    <3>1. PICK p : ToServer(p) /\ p.type \notin Scans
      BY <2>2, SMT DEF Scans
    <3>. QED
      BY <3>1, SendFewer DEF FirstSession
  <2>. QED
    BY <2>1, <2>2 DEF MonitorCheck, MonitorSend, net
<1>4. /\ (Asked' => Asked) /\ Accepted' = Accepted /\ Hashing' = Hashing /\ Announced' = Announced
      /\ Completing' = Completing /\ Copying' = Copying /\ ~Requesting'
  BY <1>1, <1>3 DEF Asked, Accepted, Hashing, Announced, Completing, Copying, Requesting, Fewer
<1>5. ~(Asked \/ Accepted \/ Hashing \/ Announced \/ Completing \/ Copying) /\ pause # "Paused"
  BY <1>1, <1>2 DEF MonitorHeld
<1>6. OneScan'
  BY <1>1, <1>2, <1>3, <1>4, <1>5 DEF OneScan, Fewer
<1>7. MonitorHeld'
  BY <1>1, <1>4, <1>5 DEF MonitorHeld
<1>. QED
  BY <1>1, <1>2, <1>6, <1>7 DEF SessionInv

(* A request for a scan is a command, one for a replication is not.        *)
LEMMA RequestAsks ==
  ASSUME TypeOK, cur = 0, NEW kind \in {"scan", "full", "replicate"}, NEW n, RequestScan(kind, n)
  PROVE  /\ kind = "replicate" => Fewer(c2s[0], c2s'[0], Scans)
         /\ ~Asked => Once(c2s'[0], Scans)
<1>1. 0 \in Conns /\ c2s \in [Conns -> Seq(Packet)]
  BY ConstantsAssumption DEF TypeOK, NetType, AllBounded, Conns
<1>2. PICK p : p = [type |-> Command(kind), scan |-> n] /\ c2s'[0] = Append(c2s[0], p)
  BY <1>1 DEF RequestScan, ToServer
<1>3. kind = "replicate" => p.type \notin Scans
  BY <1>2 DEF Command, Scans
<1>. QED
  BY <1>1, <1>2, <1>3, FewerAppend, SMT DEF Asked

LEMMA MonitorStartHashingSession ==
  ASSUME TypeOK, SessionInv, FirstSession, MonitorStartHashing
  PROVE  SessionInv'
<1>1. /\ Requesting /\ mon.kind \in {"scan", "full", "replicate"}
      /\ UNCHANGED <<s2c, main, hasher, failer>>
  BY DEF MonitorStartHashing, ResetRing, PauseMonitor, RequestScan, net, server, Requesting, TypeOK, ClientType
<1>2. OneScan /\ MonitorHeld /\ failer.pc = "none"
  BY DEF SessionInv
<1>3. /\ ~(Asked \/ Accepted \/ Hashing \/ Announced \/ Completing \/ Copying)
      /\ ~(Accepted' \/ Hashing' \/ Announced') /\ Once(s2c'[0], Ends)
  BY <1>1, <1>2 DEF OneScan, Accepted, Hashing, Announced
<1>4. CASE mon.pc \in {"reset", "pause"}
  <2>1. /\ UNCHANGED <<c2s, lis, repl>>
        /\ \/ mon'.pc = "pause"
           \/ mon'.pc = "request" /\ pause' = "Paused"
    BY <1>4 DEF MonitorStartHashing, ResetRing, PauseMonitor, net, TypeOK, ClientType
  <2>2. ~(Asked' \/ Completing' \/ Copying') /\ Once(c2s'[0], Scans)
    BY <1>2, <1>3, <2>1 DEF Asked, Completing, Copying, OneScan
  <2>. QED
    BY <1>1, <1>2, <1>3, <2>1, <2>2 DEF SessionInv, OneScan, MonitorHeld
<1>5. CASE mon.pc = "request"
  <2>1. /\ RequestScan(mon.kind, mon.tag) /\ UNCHANGED pause
        /\ mon'.pc = "wait"
        /\ lis' = [lis EXCEPT !.pc = IF @ = "starting" THEN "receive" ELSE @]
        /\ mon.kind # "replicate" => repl' = repl
    BY <1>5 DEF MonitorStartHashing, RequestScan, TypeOK, ClientType
  <2>2. ~Completing' /\ ~Requesting' /\ pause' = "Paused"
    <3>1. lis'.pc = IF lis.pc = "starting" THEN "receive" ELSE lis.pc
      BY <2>1 DEF TypeOK, ClientType
    <3>. QED
      BY <1>2, <1>3, <1>5, <2>1, <3>1, SMT DEF Completing, Requesting, MonitorHeld
  <2>3. PICK kind \in {"scan", "full", "replicate"} : kind = mon.kind
    BY <1>1
  <2>4. RequestScan(kind, mon.tag)
    BY <2>1, <2>3
  <2>5. Once(c2s'[0], Scans) /\ (mon.kind = "replicate" => ~Asked')
    BY <1>3, <2>3, <2>4, RequestAsks DEF FirstSession, Asked, Fewer
  <2>6. mon.kind # "replicate" => ~Copying'
    BY <1>3, <2>1 DEF Copying
  <2>7. OneScan'
    BY <1>3, <2>2, <2>5, <2>6 DEF OneScan
  <2>8. MonitorHeld'
    BY <2>1, <2>2 DEF MonitorHeld
  <2>. QED
    BY <1>1, <1>2, <2>7, <2>8 DEF SessionInv
<1>. QED
  BY <1>1, <1>4, <1>5 DEF Requesting

LEMMA ListenerStartHashingSession ==
  ASSUME TypeOK, SessionInv, FirstSession, ListenerStartHashing
  PROVE  SessionInv'
<1>1. /\ lis.pc \in {"reset", "pause", "request"}
      /\ UNCHANGED <<s2c, main, hasher, mon, failer, repl>>
  BY DEF ListenerStartHashing, ResetRing, PauseMonitor, RequestScan, net, server
<1>2. OneScan /\ MonitorHeld /\ failer.pc = "none" /\ Completing
  BY <1>1 DEF SessionInv, Completing
<1>3. /\ ~(Requesting \/ Asked \/ Accepted \/ Hashing \/ Announced \/ Copying)
      /\ ~(Requesting' \/ Accepted' \/ Hashing' \/ Announced' \/ Copying') /\ Once(s2c'[0], Ends)
  BY <1>1, <1>2 DEF OneScan, Requesting, Accepted, Hashing, Announced, Copying
<1>4. CASE lis.pc \in {"reset", "pause"}
  <2>1. c2s' = c2s /\ pause' \in {pause, "Paused"}
    BY <1>4 DEF ListenerStartHashing, ResetRing, PauseMonitor, net
  <2>2. ~Asked' /\ Once(c2s'[0], Scans)
    BY <1>2, <1>3, <2>1 DEF Asked, OneScan
  <2>3. OneScan'
    BY <1>3, <2>2 DEF OneScan
  <2>4. MonitorHeld'
    BY <1>1, <1>2, <2>1 DEF MonitorHeld
  <2>. QED
    BY <1>1, <1>2, <2>3, <2>4 DEF SessionInv
<1>5. CASE lis.pc = "request"
  <2>1. RequestScan("scan", lis.tag) /\ lis'.pc = "receive" /\ UNCHANGED pause
    BY <1>5 DEF ListenerStartHashing, RequestScan, TypeOK, ClientType
  <2>2. Once(c2s'[0], Scans) /\ ~Completing'
    BY <1>3, <2>1, RequestAsks DEF FirstSession, Completing
  <2>3. OneScan'
    BY <1>3, <2>2 DEF OneScan
  <2>4. MonitorHeld'
    BY <1>1, <1>2, <2>1 DEF MonitorHeld
  <2>. QED
    BY <1>1, <1>2, <2>3, <2>4 DEF SessionInv
<1>. QED
  BY <1>1, <1>4, <1>5
-----------------------------------------------------------------------------
LEMMA ReceivedSession ==
  ASSUME TypeOK, SessionInv, FirstSession,
         ReceiveHash \/ ReceiveStartHashing \/ ReceiveError \/ ReceiveHashingCompleted
  PROVE  SessionInv'
<1>1. /\ s2c[cur] # <<>> /\ s2c' = [s2c EXCEPT ![cur] = Tail(@)] /\ lis.pc = "receive"
      /\ UNCHANGED <<c2s, main, hasher, mon, failer, repl, pause>>
  BY DEF ReceiveHash, ReceiveStartHashing, ReceiveError, ReceiveHashingCompleted, Received, server
<1>2. Fewer(s2c[0], s2c'[0], Ends) /\ Fewer(c2s[0], c2s'[0], Scans)
  BY <1>1, ReceiveFewer, FewerSame DEF FirstSession
<1>3. ~Completing /\ (Accepted' => Accepted) /\ (Hashing' => Hashing) /\ (Copying' => Copying)
  BY <1>1 DEF Completing, Accepted, Hashing, Copying
<1>4. CASE ReceiveHash \/ ReceiveStartHashing \/ ReceiveError
  <2>1. lis'.pc \in {"receive", "stopped"}
    BY <1>1, <1>4 DEF ReceiveHash, ReceiveStartHashing, ReceiveError, TypeOK, ClientType
  <2>2. ~Completing'
    BY <2>1 DEF Completing
  <2>. QED
    BY <1>1, <1>2, <1>3, <2>2, NothingNew
<1>5. CASE ReceiveHashingCompleted
  <2>1. Head(s2c[0]).type \in Ends
    BY <1>5 DEF ReceiveHashingCompleted, Received, FirstSession, Ends
  <2>2. s2c[0] \in Seq(Reply) /\ s2c[0] # <<>> /\ s2c'[0] = Tail(s2c[0])
    <3>1. 0 \in Conns
      BY ConstantsAssumption, SMT DEF Conns
    <3>. QED
      BY <1>1, <3>1 DEF TypeOK, NetType, AllBounded, FirstSession
  <2>3. OneScan /\ MonitorHeld /\ failer.pc = "none"
    BY DEF SessionInv
  <2>4. Announced /\ ~Announced'
    BY <2>1, <2>2, <2>3, FewerTail, SMT DEF Announced, OneScan
  <2>5. ~(Requesting \/ Asked \/ Accepted \/ Hashing \/ Copying)
    BY <2>3, <2>4 DEF OneScan
  <2>6. ~(Requesting' \/ Asked' \/ Accepted' \/ Hashing' \/ Copying')
    BY <1>1, <2>5 DEF Requesting, Asked, Accepted, Hashing, Copying
  <2>7. OneScan'
    BY <1>2, <2>3, <2>4, <2>6 DEF OneScan, Fewer
  <2>8. MonitorHeld'
    BY <1>1, <2>3, <2>4 DEF MonitorHeld
  <2>. QED
    BY <1>1, <2>3, <2>7, <2>8 DEF SessionInv
<1>. QED
  BY <1>4, <1>5

LEMMA CloseClientConnSession ==
  ASSUME TypeOK, SessionInv, FirstSession, CloseClientConn
  PROVE  SessionInv'
<1>1. /\ UNCHANGED <<s2c, main, hasher, mon, failer, repl, pause, lis>>
      /\ \E m \in 0..Len(c2s[cur]) : c2s' = [c2s EXCEPT ![cur] = SubSeq(@, 1, m)]
  BY  DEF CloseClientConn, client, server, workers
<1>2. Fewer(s2c[0], s2c'[0], Ends) /\ Fewer(c2s[0], c2s'[0], Scans)
  <2>1. cur \in Conns
    BY DEF TypeOK, NetType
  <2>. QED
    BY <1>1, <2>1, FewerSame, CutFewer
<1>3. (Accepted' = Accepted) /\ (Hashing' = Hashing) /\ (Copying' = Copying) /\ (Completing' = Completing)
  BY <1>1 DEF Completing, Accepted, Hashing, Copying
<1>. QED
  BY <1>1, <1>2, <1>3, NothingNew

(* What the listener does on its own after a scan, and a connection it     *)
(* finds closed.                                                           *)
LEMMA ListenerSession ==
  ASSUME TypeOK, SessionInv, FirstSession,
         SendBuffer \/ ListenerSend \/ SendHashingCompleted \/ DetectClosed
  PROVE  SessionInv'
<1>1. UNCHANGED <<s2c, main, hasher, mon, failer, repl, pause>>
  BY DEF SendBuffer, ListenerSend, SendHashingCompleted, DetectClosed, net, server, workers
<1>2. lis'.pc \notin {"receive", "dial"} => lis.pc \in {"buffer", "send"}
  BY  DEF SendBuffer, ListenerSend, SendHashingCompleted, DetectClosed, TypeOK, ClientType
<1>3. Fewer(c2s[0], c2s'[0], Scans)
  <2>1. CASE UNCHANGED c2s
    BY <2>1, FewerSame
  <2>2. CASE \E p : ToServer(p) /\ p.type \notin Scans
    BY <2>2, SendFewer DEF FirstSession
  <2>3. CASE ListenerSend
    <3>1. PICK p : ToServer(p) /\ p.type = "BufferWrite"
      BY <2>3, SMT DEF ListenerSend
    <3>. QED
      BY <2>2, <3>1 DEF Scans
  <2>4. CASE SendHashingCompleted
    <3>1. PICK p : ToServer(p) /\ p.type = "InfoHashingCompleted"
      BY <2>4, SMT DEF SendHashingCompleted
    <3>. QED
      BY <2>2, <3>1 DEF Scans
  <2>. QED
    BY <2>1, <2>3, <2>4 DEF SendBuffer, DetectClosed, net
<1>4. /\ (Accepted' = Accepted) /\ (Hashing' = Hashing) /\ (Copying' = Copying)
      /\ (Completing' => Completing)
  BY <1>1, <1>2 DEF Completing, Accepted, Hashing, Copying
<1>. QED
  BY <1>1, <1>3, <1>4, FewerSame, NothingNew

(* Resume and ReplicationResume let the monitor go: the scan is over.      *)
LEMMA ResumeSession ==
  ASSUME TypeOK, SessionInv, FirstSession, Resume \/ ReplicationResume
  PROVE  SessionInv'
<1>1. UNCHANGED <<c2s, s2c, main, hasher, mon, failer>> /\ pause' = "Running"
  BY DEF Resume, ReplicationResume, net, server, workers
<1>2. OneScan /\ MonitorHeld /\ failer.pc = "none"
  BY DEF SessionInv
<1>3. Completing \/ Copying
  BY DEF Resume, ReplicationResume, Completing, Copying
<1>4. ~(Requesting \/ Asked \/ Accepted \/ Hashing \/ Announced)
  BY <1>2, <1>3 DEF OneScan
<1>5. ~(Requesting' \/ Asked' \/ Accepted' \/ Hashing' \/ Announced')
  BY <1>1, <1>4 DEF Requesting, Asked, Accepted, Hashing, Announced
<1>6. ~Completing' /\ ~Copying'
  <2>1. CASE Resume
    <3>1. lis.pc = "resume" /\ lis'.pc = "complete" /\ UNCHANGED repl
      BY <2>1 DEF Resume, TypeOK, ClientType, workers
    <3>. QED
      BY <1>2, <3>1 DEF Completing, Copying, OneScan
  <2>2. CASE ReplicationResume
    <3>1. repl.pc = "resume" /\ repl'.pc = "off" /\ UNCHANGED lis
      BY <2>2 DEF ReplicationResume, TypeOK, WorkersType
    <3>. QED
      BY <1>2, <3>1 DEF Completing, Copying, OneScan
  <2>. QED
    BY <2>1, <2>2
<1>7. OneScan'
  BY <1>1, <1>2, <1>5, <1>6 DEF OneScan
<1>8. MonitorHeld'
  <2>1. ~(Asked' \/ Accepted' \/ Hashing' \/ Announced' \/ Completing' \/ Copying')
    BY <1>5, <1>6
  <2>2. mon'.pc # "request" /\ pause' # "Paused"
    BY <1>1, <1>4 DEF Requesting
  <2>. QED
    BY <2>1, <2>2 DEF MonitorHeld
<1>. QED
  BY <1>1, <1>2, <1>7, <1>8 DEF SessionInv

(* The workers of InitHashing and InitReplication.                         *)
LEMMA SendBlockSession ==
  ASSUME TypeOK, SessionInv, FirstSession,
         \/ \E p \in compared : SendCorrectBlock(p)
         \/ \E p \in repl.read : SendReplicationBlock(p)
         \/ SendReplicationCompleted
  PROVE  SessionInv'
<1>1. /\ UNCHANGED <<s2c, main, hasher, mon, failer, pause, lis>>
      /\ repl.pc = "off" => repl'.pc = "off"
  BY DEF SendCorrectBlock, SendReplicationBlock, SendReplicationCompleted, server, TypeOK, WorkersType
<1>2. PICK p : ToServer(p) /\ p.type \notin Scans
  <2>1. compared \subseteq BlockPacket /\ repl.read \subseteq BlockPacket
    BY DEF TypeOK, WorkersType
  <2>2. \A p \in BlockPacket : p.type \notin Scans
    BY DEF BlockPacket, Scans
  <2>3. CASE SendReplicationCompleted
    <3>1. PICK p : ToServer(p) /\ p.type = "InfoReplicationCompleted"
      BY <2>3, SMT DEF SendReplicationCompleted
    <3>. QED
      BY <3>1 DEF Scans
  <2>. QED
    BY <2>1, <2>2, <2>3 DEF SendCorrectBlock, SendReplicationBlock
<1>3. Fewer(c2s[0], c2s'[0], Scans) /\ Fewer(s2c[0], s2c'[0], Ends)
  BY <1>1, <1>2, SendFewer, FewerSame DEF FirstSession
<1>4. /\ (Accepted' = Accepted) /\ (Hashing' = Hashing) /\ (Copying' => Copying)
      /\ (Completing' = Completing)
  BY <1>1 DEF Completing, Accepted, Hashing, Copying
<1>. QED
  BY <1>1, <1>3, <1>4, NothingNew

LEMMA ReadBlockSession ==
  ASSUME TypeOK, SessionInv, FirstSession, FirstSession',
         \/ \E h \in hashQueue : CompareHash(h)
         \/ \E b \in repl.todo : ReadBlock(b)
  PROVE  SessionInv'
<1>1. /\ UNCHANGED <<c2s, s2c, main, hasher, mon, pause, lis>>
      /\ repl.pc = "off" => repl'.pc = "off"
  BY  DEF CompareHash, ReadBlock, net, server, TypeOK, WorkersType
<1>2. UNCHANGED failer
  <2>1. errors = 0 /\ errors' # errors + 1
    BY SMT DEF FirstSession
  <2>. QED
    BY <2>1 DEF CompareHash, ReadBlock
<1>3. /\ (Accepted' = Accepted) /\ (Hashing' = Hashing) /\ (Copying' => Copying)
      /\ (Completing' = Completing)
  BY <1>1 DEF Completing, Accepted, Hashing, Copying
<1>4. Fewer(c2s[0], c2s'[0], Scans) /\ Fewer(s2c[0], s2c'[0], Ends)
  BY <1>1, FewerSame
<1>. QED
  BY <1>1, <1>2, <1>3, <1>4, NothingNew
-----------------------------------------------------------------------------
(* What leaves the client, the connections and the places of a scan alone. *)
LEMMA ElsewhereSession ==
  ASSUME TypeOK, SessionInv, FirstSession,
         UNCHANGED <<client, c2s, s2c>>, Accepted' => Accepted, Hashing' => Hashing
  PROVE  SessionInv'
<1>1. UNCHANGED <<mon, pause, failer, lis, repl>>
  BY DEF client, workers
<1>2. Completing' = Completing /\ Copying' = Copying
  BY <1>1 DEF Completing, Copying
<1>3. Fewer(c2s[0], c2s'[0], Scans) /\ Fewer(s2c[0], s2c'[0], Ends)
  BY FewerSame
<1>. QED
  BY <1>1, <1>2, <1>3, NothingNew

LEMMA MainLoopElsewhereSession ==
  ASSUME TypeOK, SessionInv, FirstSession,
         \/ AcceptClient \/ DetectDisconnect \/ StartReplication
         \/ HandleJournalWriting \/ HandleReplicationWriting
  PROVE  SessionInv'
<1>1. UNCHANGED <<client, c2s, s2c, hasher>> /\ main' \notin {"start", "startFull"}
  BY DEF AcceptClient, DetectDisconnect, StartReplication, HandleJournalWriting,
         HandleReplicationWriting, ScanEnds, net
<1>. QED
  BY <1>1, ElsewhereSession DEF Accepted, Hashing

LEMMA QueueWorkersSession ==
  ASSUME TypeOK, SessionInv, FirstSession,
         HandleReplicationPacket \/ (\E k \in Conns : WritePackets(k) \/ HandleCorrectPacket(k))
  PROVE  SessionInv'
<1>1. UNCHANGED <<client, c2s, s2c, hasher, main>>
  BY  DEF HandleReplicationPacket, WritePackets, TakeWritePacket, HandleWritePacket,
         HandleCorrectPacket, net
<1>. QED
  BY <1>1, ElsewhereSession DEF Accepted, Hashing

LEMMA ApplicationsSession ==
  ASSUME TypeOK, SessionInv, FirstSession, Applications
  PROVE  SessionInv'
<1>1. UNCHANGED <<client, c2s, s2c, hasher, main>>
  BY DEF Applications, IssueWrite, CompleteWrite, net, server
<1>. QED
  BY <1>1, ElsewhereSession DEF Accepted, Hashing

(* A packet of the first session that is not a command for a scan.         *)
LEMMA ArrivedSession ==
  ASSUME TypeOK, SessionInv, FirstSession,
         \/ HandleInfoStartReplication \/ HandleBufferWrite \/ HandleCorrectBlock
         \/ HandleReplicationBlock \/ HandleHashingCompleted \/ HandleReplicationCompleted
  PROVE  SessionInv'
<1>1. /\ c2s[ses] # <<>> /\ c2s' = [c2s EXCEPT ![ses] = Tail(@)]
      /\ main = "receive" /\ main' \notin {"start", "startFull"}
      /\ UNCHANGED <<s2c, client, hasher>>
  BY  DEF HandleInfoStartReplication, HandleCommand, HandleBufferWrite, HandleCorrectBlock,
         HandleReplicationBlock, HandleHashingCompleted, HandleReplicationCompleted,
         HandleCompleted, Arrived
<1>2. ses = 0
  BY <1>1, ServesFirst DEF TypeOK, ServerType
<1>3. Fewer(c2s[0], c2s'[0], Scans) /\ Fewer(s2c[0], s2c'[0], Ends)
  BY <1>1, <1>2, ArriveFewer, FewerSame
<1>4. UNCHANGED <<mon, pause, failer, lis, repl>>
  BY <1>1 DEF client, workers
<1>5. /\ ~Accepted' /\ Hashing' = Hashing /\ Copying' = Copying /\ Completing' = Completing
  BY <1>1, <1>4 DEF Completing, Accepted, Hashing, Copying
<1>. QED
  BY <1>3, <1>4, <1>5, NothingNew

LEMMA CommandSession ==
  ASSUME TypeOK, SessionInv, FirstSession, HandleCmdStartHashing \/ HandleCmdStartFullScan
  PROVE  SessionInv'
<1>1. /\ c2s[ses] # <<>> /\ c2s' = [c2s EXCEPT ![ses] = Tail(@)]
      /\ main = "receive" /\ Head(c2s[ses]).type \in Scans
      /\ UNCHANGED <<s2c, client, hasher>>
  BY DEF HandleCmdStartHashing, HandleCmdStartFullScan, HandleCommand, Arrived, Scans
<1>2. ses = 0
  BY <1>1, ServesFirst DEF TypeOK, ServerType
<1>3. UNCHANGED <<mon, pause, failer, lis, repl>>
  BY <1>1 DEF client, workers
<1>4. OneScan /\ MonitorHeld /\ failer.pc = "none"
  BY DEF SessionInv
<1>5. c2s[0] \in Seq(Packet) /\ c2s'[0] = Tail(c2s[0])
  <2>1. 0 \in Conns
    BY ConstantsAssumption, SMT DEF Conns
  <2>. QED
    BY <1>1, <1>2, <2>1 DEF TypeOK, NetType, AllBounded
<1>6. Asked /\ ~Asked' /\ Once(c2s'[0], Scans)
  BY <1>1, <1>2, <1>4, <1>5, FewerTail DEF Asked, OneScan, Fewer
<1>7. ~(Requesting \/ Accepted \/ Hashing \/ Announced \/ Completing \/ Copying)
  BY <1>4, <1>6 DEF OneScan
<1>8. ~(Requesting' \/ Hashing' \/ Announced' \/ Completing' \/ Copying')
  BY <1>1, <1>3, <1>7 DEF Requesting, Hashing, Announced, Completing, Copying
<1>9. OneScan'
  BY <1>1, <1>4, <1>6, <1>8 DEF OneScan
<1>10. MonitorHeld'
  BY <1>3, <1>4, <1>6 DEF MonitorHeld
<1>. QED
  BY <1>3, <1>4, <1>9, <1>10 DEF SessionInv

LEMMA StartScanSession ==
  ASSUME TypeOK, SessionInv, FirstSession, StartScan
  PROVE  SessionInv'
<1>1. /\ Accepted /\ ~Accepted' /\ UNCHANGED <<c2s, s2c, mon, pause, failer, lis, repl>>
  BY DEF StartScan, Accepted, net, client, workers
<1>2. OneScan /\ MonitorHeld /\ failer.pc = "none"
  BY DEF SessionInv
<1>3. ~(Requesting \/ Asked \/ Announced \/ Completing \/ Copying)
  BY <1>1, <1>2 DEF OneScan
<1>4. ~(Requesting' \/ Asked' \/ Announced' \/ Completing' \/ Copying')
  BY <1>1, <1>3 DEF Requesting, Asked, Announced, Completing, Copying
<1>5. OneScan'
  BY <1>1, <1>2, <1>4 DEF OneScan
<1>6. MonitorHeld'
  BY <1>1, <1>2 DEF MonitorHeld
<1>. QED
  BY <1>1, <1>2, <1>5, <1>6 DEF SessionInv

(* Every answer of the server but the end of HashDisk.                     *)
LEMMA AnswerSession ==
  ASSUME TypeOK, SessionInv, FirstSession,
         HandleInit \/ HandleJournalPacket \/ HashDiskReset \/ (\E b \in Blocks : HashBlock(b))
  PROVE  SessionInv'
<1>1. /\ UNCHANGED <<client>>
      /\ main' = main \/ main' \notin {"start", "startFull"}
      /\ hasher.pc = "idle" => hasher' = hasher
  BY  DEF HandleInit, CheckValidSizes, HandleJournalPacket, HashDiskReset, HashBlock
<1>2. ses = 0
  <2>1. \/ main = "init" \/ journalQueue # <<>> \/ hasher.pc # "idle"
    BY  DEF HandleInit, HandleJournalPacket, HashDiskReset, HashBlock
  <2>. QED
    BY <2>1, ServesFirst DEF TypeOK, ServerType
<1>3. Fewer(c2s[0], c2s'[0], Scans)
  <2>1. c2s' = c2s \/ (c2s[ses] # <<>> /\ c2s' = [c2s EXCEPT ![ses] = Tail(@)])
    <3>1. CASE HandleInit
      BY <3>1 DEF HandleInit, WaitForInitInfo
    <3>2. CASE HandleJournalPacket \/ HashDiskReset \/ (\E b \in Blocks : HashBlock(b))
      BY <3>2 DEF HandleJournalPacket, HashDiskReset, HashBlock
    <3>. QED
      BY <3>1, <3>2
  <2>. QED
    BY <1>2, <2>1, ArriveFewer, FewerSame
<1>4. Fewer(s2c[0], s2c'[0], Ends)
  <2>1. \/ UNCHANGED s2c
        \/ ToClient([type |-> "ErrInvalidSizes"]) \/ ToClient([type |-> "ErrJournalOverflow"])
        \/ ToClient([type |-> "InfoStartHashing"])
        \/ \E b \in Blocks : ToClient([type |-> "PayloadHash", blk |-> b, val |-> replica[b]])
    BY DEF HandleInit, CheckValidSizes, HandleJournalPacket, HashDiskReset, HashBlock
  <2>2. s2c' = s2c \/ \E p : ToClient(p) /\ p.type \notin Ends
    <3>1. CASE \E b \in Blocks : ToClient([type |-> "PayloadHash", blk |-> b, val |-> replica[b]])
      <4>1. PICK p : ToClient(p) /\ p.type = "PayloadHash"
        BY <3>1, SMT
      <4>. QED
        BY <4>1 DEF Ends
    <3>2. CASE \E t \in {"ErrInvalidSizes", "ErrJournalOverflow", "InfoStartHashing"} : ToClient([type |-> t])
      <4>1. PICK t \in {"ErrInvalidSizes", "ErrJournalOverflow", "InfoStartHashing"} : ToClient([type |-> t])
        BY <3>2
      <4>2. PICK p : ToClient(p) /\ p = [type |-> t]
        BY <4>1
      <4>. QED
        BY <4>2, SMT DEF Ends
    <3>. QED
      BY <2>1, <3>1, <3>2
  <2>. QED
    BY <1>2, <2>2, AnswerFewer, FewerSame
<1>5. UNCHANGED <<mon, pause, failer, lis, repl>>
  BY <1>1 DEF client, workers
<1>6. (Accepted' => Accepted) /\ (Hashing' => Hashing) /\ Copying' = Copying /\ Completing' = Completing
  BY <1>1, <1>5 DEF Completing, Accepted, Hashing, Copying
<1>. QED
  BY <1>3, <1>4, <1>5, <1>6, NothingNew

LEMMA HashDiskEndSession ==
  ASSUME TypeOK, SessionInv, FirstSession, HashDiskEnd
  PROVE  SessionInv'
<1>1. /\ Hashing /\ ~Hashing'
      /\ UNCHANGED <<c2s, mon, pause, failer, lis, repl, main>>
  BY DEF HashDiskEnd, Hashing, client, workers, TypeOK, ServerType
<1>2. ses = 0
  BY <1>1, ServesFirst DEF TypeOK, ServerType, Hashing
<1>3. OneScan /\ MonitorHeld /\ failer.pc = "none"
  BY DEF SessionInv
<1>4. ~(Requesting \/ Asked \/ Accepted \/ Announced \/ Completing \/ Copying)
  BY <1>1, <1>3 DEF OneScan
<1>5. ~(Requesting' \/ Asked' \/ Accepted' \/ Completing' \/ Copying')
  BY <1>1, <1>4 DEF Requesting, Asked, Accepted, Completing, Copying
<1>6. Once(s2c'[0], Ends)
  <2>1. 0 \in Conns /\ s2c \in [Conns -> Seq(Reply)]
    BY ConstantsAssumption, SMT DEF TypeOK, NetType, AllBounded, Conns
  <2>2. PICK p : s2c'[0] = Append(s2c[0], p) \/ s2c' = s2c
    BY <1>2, <2>1 DEF HashDiskEnd, ToClient
  <2>3. Once(Append(s2c[0], p), Ends)
    BY <1>4, <2>1, FewerAppend DEF Announced
  <2>. QED
    BY <1>3, <2>2, <2>3 DEF OneScan
<1>7. OneScan'
  BY <1>1, <1>3, <1>5, <1>6 DEF OneScan
<1>8. MonitorHeld'
  BY <1>1, <1>3 DEF MonitorHeld
<1>. QED
  BY <1>1, <1>3, <1>7, <1>8 DEF SessionInv

(* A session that ends takes what was on its way with it.                  *)
LEMMA DisconnectSession ==
  ASSUME TypeOK, SessionInv, FirstSession,
         LeaveClient \/ ServerRestart \/ (\E k \in Conns : Break(k))
  PROVE  SessionInv'
<1>1. /\ UNCHANGED client
      /\ main' = main \/ main' \notin {"start", "startFull"}
      /\ hasher' = hasher \/ hasher'.pc = "idle"
  BY SMT DEF LeaveClient, ServerRestart, Break, server
<1>2. 0 \in Conns /\ c2s \in [Conns -> Seq(Packet)] /\ s2c \in [Conns -> Seq(Reply)] /\ cur \in Conns
  BY ConstantsAssumption, SMT DEF TypeOK, NetType, AllBounded, Conns
<1>3. Fewer(c2s[0], c2s'[0], Scans) /\ Fewer(s2c[0], s2c'[0], Ends)
  <2>1. CASE LeaveClient
    <3>1. ses = 0
      BY <2>1, ServesFirst DEF LeaveClient, TypeOK, ServerType
    <3>2. c2s'[0] = <<>> /\ \E n \in 0..Len(s2c[0]) : s2c' = [s2c EXCEPT ![0] = SubSeq(@, 1, n)]
      BY <1>2, <2>1, <3>1 DEF LeaveClient
    <3>3. Fewer(c2s[0], <<>>, Scans)
      BY FewerEmpty
    <3>4. Fewer(s2c[0], s2c'[0], Ends)
      BY <1>2, <3>2, CutFewer
    <3>. QED
      BY <3>2, <3>3, <3>4
  <2>2. CASE ServerRestart
    <3>1. c2s'[0] = <<>> /\ \E n \in 0..Len(s2c[cur]) : s2c' = [s2c EXCEPT ![cur] = SubSeq(@, 1, n)]
      BY <1>2, <2>2 DEF ServerRestart
    <3>3. Fewer(c2s[0], <<>>, Scans)
      BY FewerEmpty
    <3>4. Fewer(s2c[0], s2c'[0], Ends)
      BY <1>2, <3>1, CutFewer
    <3>. QED
      BY <3>1, <3>3, <3>4
  <2>3. CASE \E k \in Conns : Break(k)
    <3>1. PICK k \in Conns : Break(k)
      BY <2>3
    <3>. QED
      BY <3>1, CutFewer DEF Break
  <2>. QED
    BY <2>1, <2>2, <2>3
<1>4. UNCHANGED <<mon, pause, failer, lis, repl>>
  BY <1>1 DEF client, workers
<1>5. (Accepted' => Accepted) /\ (Hashing' => Hashing) /\ Copying' = Copying /\ Completing' = Completing
  BY <1>1, <1>4 DEF Completing, Accepted, Hashing, Copying
<1>. QED
  BY <1>3, <1>4, <1>5, NothingNew

-----------------------------------------------------------------------------
LEMMA InitSession == Init => SessionInv
<1> SUFFICES ASSUME Init PROVE SessionInv
  OBVIOUS
<1>1. /\ c2s = [k \in Conns |-> IF k = 0 THEN <<InitInfo>> ELSE <<>>] /\ s2c = [k \in Conns |-> <<>>]
      /\ main = "accept" /\ hasher.pc = "idle" /\ repl.pc = "off" /\ failer.pc = "none" /\ pause = "empty"
  BY DEF Init, NewClient, NewServer
<1>2. 0 \in Conns /\ c2s[0] = <<InitInfo>> /\ s2c[0] = <<>>
  BY <1>1, ConstantsAssumption, SMT DEF Conns
<1>3. ~Asked /\ Once(c2s[0], Scans)
  <2>1. Len(c2s[0]) = 1 /\ c2s[0][1].type = "InfoInit"
    BY <1>2, SMT DEF InitInfo
  <2>. QED
    BY <2>1, SMT DEF Asked, Holds, Once, Scans
<1>4. ~Announced /\ Once(s2c[0], Ends)
  <2>1. Len(s2c[0]) = 0
    BY <1>2, EmptySeq
  <2>. QED
    BY <2>1, SMT DEF Announced, Holds, Once
<1>5. mon.pc \in {"wait", "reset"} /\ ~Completing
  BY SMT DEF Init, Completing
<1>6. ~Accepted /\ ~Hashing /\ ~Copying
  BY <1>1 DEF Accepted, Hashing, Copying
<1>. QED
  BY <1>1, <1>3, <1>4, <1>5, <1>6 DEF SessionInv, OneScan, MonitorHeld

LEMMA ClientSession ==
  ASSUME TypeOK, SessionInv, FirstSession, FirstSession', Client
  PROVE  SessionInv'
<1>1. ASSUME Monitor PROVE SessionInv'
  BY <1>1, WaitIfPausedSession, MonitorReadSession, MonitorBatchSession, MonitorStartHashingSession DEF Monitor
<1>2. ASSUME Listener PROVE SessionInv'
  <2>1. ASSUME Reconnect PROVE FALSE
    <3>1. cur = 0 /\ cur' = 0 /\ cur' = cur + 1
      BY <2>1 DEF Reconnect, FirstSession
    <3>. QED
      BY <3>1, SMT
  <2>. QED
    BY <1>2, <2>1, ReceivedSession, ListenerSession, ResumeSession, ListenerStartHashingSession,
       CloseClientConnSession DEF Listener
<1>3. ASSUME InitHashing PROVE SessionInv'
  <2>1. ~WorkerStartHashing
    BY DEF WorkerStartHashing, SessionInv
  <2>. QED
    BY <1>3, <2>1, ReadBlockSession, SendBlockSession DEF InitHashing
<1>4. ASSUME InitReplication PROVE SessionInv'
  BY <1>4, ReadBlockSession, SendBlockSession, ResumeSession DEF InitReplication
<1>. QED
  BY <1>1, <1>2, <1>3, <1>4 DEF Client

LEMMA ServerSession ==
  ASSUME TypeOK, SessionInv, FirstSession, Server
  PROVE  SessionInv'
<1>1. ASSUME MainLoop PROVE SessionInv'
  BY <1>1, MainLoopElsewhereSession, AnswerSession, DisconnectSession, CommandSession,
     ArrivedSession, StartScanSession DEF MainLoop
<1>2. ASSUME HashDisk PROVE SessionInv'
  BY <1>2, AnswerSession, HashDiskEndSession DEF HashDisk
<1>3. ASSUME QueueWorkers PROVE SessionInv'
  BY <1>3, AnswerSession, QueueWorkersSession DEF QueueWorkers
<1>. QED
  BY <1>1, <1>2, <1>3 DEF Server

(* A session once left does not come back, and an error is not forgotten.  *)
LEMMA SessionsCount ==
  ASSUME [Next]_vars
  PROVE  cur' \in {cur, cur + 1} /\ errors' \in {errors, errors + 1}
<1>1. CASE UNCHANGED vars \/ Applications \/ (\E k \in Conns : Break(k)) \/ ServerRestart
  BY <1>1 DEF vars, net, bounds, Applications, IssueWrite, CompleteWrite, Break, ServerRestart
<1>2. CASE Monitor
  BY <1>2 DEF Monitor, WaitIfPaused, MonitorRead, MonitorCheck, MonitorSend, MonitorStartHashing,
              ResetRing, PauseMonitor, RequestScan, net, bounds
<1>3. CASE Listener
  BY <1>3 DEF Listener, ReceiveHash, ReceiveStartHashing, ReceiveHashingCompleted, ReceiveError,
              Received, SendBuffer, ListenerSend, Resume, SendHashingCompleted, ListenerStartHashing,
              DetectClosed, Reconnect, CloseClientConn, ResetRing, PauseMonitor, RequestScan, net, bounds
<1>4. CASE InitHashing \/ InitReplication
  BY <1>4 DEF InitHashing, CompareHash, SendCorrectBlock, WorkerStartHashing, ResetRing, PauseMonitor,
              RequestScan, InitReplication, ReadBlock, SendReplicationBlock, SendReplicationCompleted,
              ReplicationResume, net, bounds
<1>5. CASE MainLoop
  BY <1>5 DEF MainLoop, AcceptClient, HandleInit, DetectDisconnect, LeaveClient, HandleCmdStartHashing,
              HandleCmdStartFullScan, HandleInfoStartReplication, HandleCommand, StartScan,
              StartReplication, HandleBufferWrite, HandleCorrectBlock, HandleReplicationBlock,
              HandleHashingCompleted, HandleReplicationCompleted, HandleCompleted, Arrived,
              HandleJournalWriting, HandleReplicationWriting, ScanEnds, net, bounds
<1>6. CASE HashDisk \/ QueueWorkers
  BY <1>6 DEF HashDisk, HashDiskReset, HashBlock, HashDiskEnd, QueueWorkers, HandleJournalPacket,
              HandleReplicationPacket, WritePackets, TakeWritePacket, HandleWritePacket,
              HandleCorrectPacket, net, bounds
<1>. QED
  BY <1>1, <1>2, <1>3, <1>4, <1>5, <1>6 DEF Next, Client, Server

LEMMA StillFirst ==
  ASSUME TypeOK, [Next]_vars, FirstSession'
  PROVE  FirstSession
<1>1. cur \in Nat /\ errors \in Nat
  BY ConstantsAssumption, SMT DEF TypeOK, NetType, HistoryType, Conns
<1>. QED
  BY <1>1, SessionsCount, SMT DEF FirstSession

LEMMA SessionStep ==
  ASSUME TypeOK, SessionInv, [Next]_vars
  PROVE  SessionInv'
<1>1. CASE ~FirstSession'
  BY <1>1 DEF SessionInv
<1>2. CASE FirstSession'
  <2>1. FirstSession
    BY <1>2, StillFirst
  <2>2. CASE UNCHANGED vars
    BY <2>1, <2>2, ElsewhereSession DEF vars, net, server, Accepted, Hashing
  <2>. QED
    BY <1>2, <2>1, <2>2, ClientSession, ServerSession, ApplicationsSession, DisconnectSession DEF Next
<1>. QED
  BY <1>1, <1>2
-----------------------------------------------------------------------------
(* ControlInv, which builds on SessionInv: what its parts are preserved by, *)
(* and the steps of the client up to the request of a scan.  The other     *)
(* steps are those of ReplicationControlProofs.                            *)
LEMMA AppendAt ==
  ASSUME NEW S, NEW q \in Seq(S), NEW e
  PROVE  /\ Len(q) \in Nat /\ Len(Append(q, e)) = Len(q) + 1
         /\ Append(q, e)[Len(q) + 1] = e
         /\ \A i \in 1..Len(q) : Append(q, e)[i] = q[i]
<1>1. q \in Seq(S \union {e})
  BY SeqMonotonic
<1>. QED
  BY <1>1, AppendProperties, LenProperties, SMT

LEMMA TailAt ==
  ASSUME NEW S, NEW q \in Seq(S), q # <<>>
  PROVE  /\ Len(q) \in Nat \ {0} /\ Head(q) = q[1] /\ Len(Tail(q)) = Len(q) - 1
         /\ \A i \in 1..Len(Tail(q)) : Tail(q)[i] = q[i + 1]
<1>1. Len(q) \in Nat /\ Len(q) # 0
  BY LenProperties, EmptySeq
<1>2. /\ Head(q) = q[1] /\ Len(Tail(q)) = Len(q) - 1
      /\ \A i \in 1..Len(Tail(q)) : Tail(q)[i] = q[i + 1]
  BY HeadTailProperties, SMT
<1>. QED
  BY <1>1, <1>2

LEMMA LastTail ==
  ASSUME NEW S, NEW q \in Seq(S), Len(q) = 1
  PROVE  Tail(q) = <<>>
<1>1. q # <<>>
  BY EmptySeq, SMT
<1>2. Tail(q) \in Seq(S) /\ Len(Tail(q)) = 0
  BY <1>1, HeadTailProperties, SMT
<1>. QED
  BY <1>2, EmptySeq

LEMMA PrefixAt ==
  ASSUME NEW S, NEW q \in Seq(S), NEW n \in 0..Len(q)
  PROVE  /\ Len(q) \in Nat /\ Len(SubSeq(q, 1, n)) = n
         /\ \A i \in 1..n : SubSeq(q, 1, n)[i] = q[i]
<1>1. Len(q) \in Nat /\ \A i \in 1..n : q[i] \in S
  BY LenProperties, ElementOfSeq, SMT
<1>. QED
  BY <1>1, SubSeqProperties, SMT

(* r is what is left of q when packets were received from it and, perhaps, *)
(* lost at its end.                                                        *)
Part(q, r) ==
  /\ Len(q) \in Nat /\ Len(r) \in Nat
  /\ \E d \in Nat : /\ Len(r) + d <= Len(q)
                    /\ \A i \in 1..Len(r) : r[i] = q[i + d]

LEMMA PartSame ==
  ASSUME NEW S, NEW q \in Seq(S)
  PROVE  Part(q, q)
<1>1. Len(q) \in Nat /\ Len(q) + 0 <= Len(q) /\ \A i \in 1..Len(q) : q[i] = q[i + 0]
  BY LenProperties, SMT
<1>. QED
  BY <1>1 DEF Part

LEMMA PartEmpty ==
  ASSUME NEW S, NEW q \in Seq(S)
  PROVE  Part(q, <<>>)
<1>1. Len(<<>>) = 0 /\ Len(q) \in Nat
  BY EmptySeq, LenProperties
<1>2. Len(<<>>) + 0 <= Len(q) /\ \A i \in 1..Len(<<>>) : <<>>[i] = q[i + 0]
  BY <1>1, SMT
<1>. QED
  BY <1>1, <1>2 DEF Part

LEMMA PartTail ==
  ASSUME NEW S, NEW q \in Seq(S), q # <<>>
  PROVE  Part(q, Tail(q))
<1>1. /\ Len(q) \in Nat \ {0} /\ Len(Tail(q)) = Len(q) - 1
      /\ \A i \in 1..Len(Tail(q)) : Tail(q)[i] = q[i + 1]
  BY TailAt
<1>2. Len(Tail(q)) \in Nat /\ Len(Tail(q)) + 1 <= Len(q)
  BY <1>1, SMT
<1>. QED
  BY <1>1, <1>2 DEF Part

LEMMA PartPrefix ==
  ASSUME NEW S, NEW q \in Seq(S), NEW n \in 0..Len(q)
  PROVE  Part(q, SubSeq(q, 1, n))
<1>1. /\ Len(q) \in Nat /\ Len(SubSeq(q, 1, n)) = n
      /\ \A i \in 1..n : SubSeq(q, 1, n)[i] = q[i]
  BY PrefixAt
<1>2. /\ Len(SubSeq(q, 1, n)) \in Nat /\ Len(SubSeq(q, 1, n)) + 0 <= Len(q)
      /\ \A i \in 1..Len(SubSeq(q, 1, n)) : SubSeq(q, 1, n)[i] = q[i + 0]
  BY <1>1, SMT
<1>. QED
  BY <1>1, <1>2 DEF Part

(* Every packet of the types in r is in q.                                 *)
From(q, r, types) ==
  \A i \in 1..Len(r) : r[i].type \in types => \E j \in 1..Len(q) : q[j] = r[i]

LEMMA FromPart ==
  ASSUME NEW q, NEW r, Part(q, r), NEW types
  PROVE  From(q, r, types)
<1>1. PICK d \in Nat : Len(r) + d <= Len(q) /\ \A i \in 1..Len(r) : r[i] = q[i + d]
  BY DEF Part
<1>2. Len(q) \in Nat /\ Len(r) \in Nat
  BY DEF Part
<1>3. \A i \in 1..Len(r) : i + d \in 1..Len(q)
  BY <1>1, <1>2, SMT
<1>. QED
  BY <1>1, <1>3 DEF From

LEMMA FromAppend ==
  ASSUME NEW S, NEW q \in Seq(S), NEW e, NEW types, e.type \notin types
  PROVE  From(q, Append(q, e), types)
<1>1. /\ Len(q) \in Nat /\ Len(Append(q, e)) = Len(q) + 1 /\ Append(q, e)[Len(q) + 1] = e
      /\ \A i \in 1..Len(q) : Append(q, e)[i] = q[i]
  BY AppendAt, SMT
<1>2. \A i \in 1..Len(Append(q, e)) : i \in 1..Len(q) \/ i = Len(q) + 1
  BY <1>1, SMT
<1>. QED
  BY <1>1, <1>2 DEF From

LEMMA FromHolds ==
  ASSUME NEW q, NEW r, NEW types, NEW some, From(q, r, types), some \subseteq types
  PROVE  Holds(r, some) => Holds(q, some)
BY DEF From, Holds

-----------------------------------------------------------------------------
(* What the types say about the first session.                             *)
LEMMA FirstTypes ==
  ASSUME TypeOK
  PROVE  /\ 0 \in Conns /\ cur \in Nat /\ epoch \in Nat
         /\ c2s \in [Conns -> Seq(Packet)] /\ c2s[0] \in Seq(Packet)
         /\ s2c \in [Conns -> Seq(Reply)] /\ s2c[0] \in Seq(Reply)
         /\ writeQueue \in [Conns -> Seq(QueuedWrite)] /\ writeQueue[0] \in Seq(QueuedWrite)
         /\ writer \in [Conns -> Seq(QueuedWrite)] /\ writer[0] \in Seq(QueuedWrite)
         /\ link \in [Conns -> {"none", "up", "dead"}]
         /\ current \in [scan : Scan, cut : BOOLEAN, applied : BOOLEAN]
         /\ current.scan \in Int
<1>1. 0 \in Conns /\ cur \in Nat
  BY ConstantsAssumption, SMT DEF TypeOK, NetType, Conns
<1>2. epoch \in Nat
  BY LenProperties DEF TypeOK, HistoryType, epoch
<1>3. /\ current \in [scan : Scan, cut : BOOLEAN, applied : BOOLEAN]
      /\ current.scan \in Int
  BY SMT DEF TypeOK, HistoryType, Scan, Unknown
<1>4. /\ c2s \in [Conns -> Seq(Packet)] /\ s2c \in [Conns -> Seq(Reply)]
      /\ writeQueue \in [Conns -> Seq(QueuedWrite)] /\ writer \in [Conns -> Seq(QueuedWrite)]
      /\ link \in [Conns -> {"none", "up", "dead"}]
  BY DEF TypeOK, NetType, QueuesType, AllBounded
<1>. QED
  BY <1>1, <1>2, <1>3, <1>4

LEMMA ClientTypes ==
  ASSUME TypeOK
  PROVE  /\ mon \in [pc : {"wait", "blocked", "read", "check", "encode", "reset", "pause", "request"},
                     batch : Seq(Issued), tag : Nat, kind : {"scan", "full", "replicate"}]
         /\ lis \in [pc : {"starting", "receive", "buffer", "send", "resume", "complete",
                           "reset", "pause", "request", "dial", "stopped"},
                     batch : Seq(Issued), tag : Nat, read : Nat]
BY DEF TypeOK, ClientType

(* A step that gives no scan a new number, whatever it sends.              *)
LEMMA NumbersStay ==
  ASSUME ScanNumbers, epoch' = epoch, current'.scan = current.scan,
         \A i \in 1..Len(c2s'[0]) : Numbered(c2s'[0][i]), From(s2c[0], s2c'[0], Ends),
         Resetting' => \A i \in 1..Len(c2s'[0]) : c2s'[0][i].type \in Commands => c2s'[0][i].scan < epoch,
         mon'.pc \in {"pause", "request"} => mon.pc \in {"pause", "request"} /\ mon'.tag = mon.tag,
         \/ lis'.pc \notin {"pause", "request", "buffer", "send", "resume", "complete"}
         \/ /\ lis'.tag = lis.tag /\ lis'.read = lis.read
            /\ \/ lis'.pc = lis.pc
               \/ lis.pc = "send" /\ lis'.pc = "resume"
               \/ lis.pc = "resume" /\ lis'.pc = "complete",
         Accepted' => Accepted, Hashing' => Hashing /\ hasher'.scan = hasher.scan
  PROVE  ScanNumbers'
<1>1. \A p : Numbered(p)' <=> Numbered(p)
  BY DEF Numbered
<1>3. \A i \in 1..Len(s2c'[0]) : s2c'[0][i].type \in Ends => s2c'[0][i].scan = epoch'
  BY DEF From, ScanNumbers
<1>4. Announced' => Announced
  BY FromHolds DEF Announced
<1>5. /\ current'.scan <= epoch'
      /\ mon'.pc \in {"pause", "request"} => mon'.tag = epoch' /\ current'.scan < epoch'
      /\ Accepted' \/ Hashing' \/ Announced' => current'.scan = epoch'
      /\ Hashing' => hasher'.scan = epoch'
  BY <1>4 DEF ScanNumbers
<1>6. /\ lis'.pc \in {"pause", "request"} => lis'.tag = epoch' /\ current'.scan < epoch'
      /\ lis'.pc \in {"buffer", "send", "resume"} => lis'.tag = epoch' /\ current'.scan = epoch'
      /\ lis'.pc \in {"send", "resume"} => lis'.read = epoch'
      /\ lis'.pc = "complete" => lis'.tag = lis'.read /\ lis'.tag <= current'.scan
  BY DEF ScanNumbers
<1>. QED
  BY <1>1, <1>3, <1>5, <1>6 DEF ScanNumbers

LEMMA NumbersKept ==
  ASSUME ScanNumbers, epoch' = epoch, current'.scan = current.scan,
         From(c2s[0], c2s'[0], Commands \union Ends), From(s2c[0], s2c'[0], Ends),
         mon'.pc \in {"pause", "request"} => mon.pc \in {"pause", "request"} /\ mon'.tag = mon.tag,
         \/ lis'.pc \notin {"pause", "request", "buffer", "send", "resume", "complete"}
         \/ /\ lis'.tag = lis.tag /\ lis'.read = lis.read
            /\ \/ lis'.pc = lis.pc
               \/ lis.pc = "send" /\ lis'.pc = "resume"
               \/ lis.pc = "resume" /\ lis'.pc = "complete",
         Accepted' => Accepted, Hashing' => Hashing /\ hasher'.scan = hasher.scan
  PROVE  ScanNumbers'
<1>2. \A i \in 1..Len(c2s'[0]) : Numbered(c2s'[0][i])
  <2> SUFFICES ASSUME NEW i \in 1..Len(c2s'[0]) PROVE Numbered(c2s'[0][i])
    OBVIOUS
  <2>1. CASE c2s'[0][i].type \in Commands \union Ends
    <3>1. PICK j \in 1..Len(c2s[0]) : c2s[0][j] = c2s'[0][i]
      BY <2>1 DEF From
    <3>. QED
      BY <3>1 DEF ScanNumbers
  <2>2. CASE c2s'[0][i].type \notin Commands \union Ends
    BY <2>2 DEF Numbered, Commands, Ends
  <2>. QED
    BY <2>1, <2>2
<1>3. Resetting' => Resetting
  BY DEF Resetting
<1>4. Resetting => \A i \in 1..Len(c2s'[0]) : c2s'[0][i].type \in Commands => c2s'[0][i].scan < epoch
  BY DEF From, ScanNumbers
<1>. QED
  BY <1>2, <1>3, <1>4, NumbersStay

LEMMA NumberedSent ==
  ASSUME TypeOK, ScanNumbers, NEW p, c2s'[0] = Append(c2s[0], p), Numbered(p)
  PROVE  \A i \in 1..Len(c2s'[0]) : Numbered(c2s'[0][i])
<1>1. /\ Len(c2s[0]) \in Nat /\ Len(c2s'[0]) = Len(c2s[0]) + 1 /\ c2s'[0][Len(c2s[0]) + 1] = p
      /\ \A i \in 1..Len(c2s[0]) : c2s'[0][i] = c2s[0][i]
  BY FirstTypes, AppendAt, SMT
<1>2. \A i \in 1..Len(c2s'[0]) : i \in 1..Len(c2s[0]) \/ i = Len(c2s[0]) + 1
  BY <1>1, SMT
<1>. QED
  BY <1>1, <1>2 DEF ScanNumbers

(* A step after which the completion of a scan is where it was.            *)
LEMMA FinishingKept ==
  ASSUME From(c2s[0], c2s'[0], Ends), current'.scan = current.scan, Up' => Up,
         lis'.pc \in {"send", "resume", "complete"} =>
           lis.pc \in {"send", "resume", "complete"} /\ lis'.tag = lis.tag,
         main' = "complete" /\ ~current'.cut => main = "complete" /\ ~current.cut
  PROVE  Finishing' => Finishing
<1>1. \A p : Completion(p)' <=> Completion(p)
  BY DEF Completion
<1>2. ASSUME NEW i \in 1..Len(c2s'[0]), Completion(c2s'[0][i])
      PROVE  \E j \in 1..Len(c2s[0]) : Completion(c2s[0][j])
  BY <1>2 DEF From, Completion, Ends
<1>. QED
  BY <1>1, <1>2 DEF Finishing

LEMMA OrderKept ==
  ASSUME InOrder, Part(c2s[0], c2s'[0]), current'.scan = current.scan
  PROVE  InOrder'
<1>1. PICK d \in Nat : /\ Len(c2s'[0]) + d <= Len(c2s[0])
                       /\ \A i \in 1..Len(c2s'[0]) : c2s'[0][i] = c2s[0][i + d]
  BY  DEF Part
<1>2. Len(c2s[0]) \in Nat /\ Len(c2s'[0]) \in Nat
  BY DEF Part
<1>3. \A p, q : Ordered(p, q)' <=> Ordered(p, q)
  BY DEF Ordered, Completion
<1>4. ASSUME NEW i \in 1..Len(c2s'[0]), NEW j \in 1..Len(c2s'[0]), i < j
      PROVE  Ordered(c2s'[0][i], c2s'[0][j])
  <2>1. i + d \in 1..Len(c2s[0]) /\ j + d \in 1..Len(c2s[0]) /\ i + d < j + d
    BY <1>1, <1>2, <1>4, SMT
  <2>2. Ordered(c2s[0][i + d], c2s[0][j + d])
    BY <2>1 DEF InOrder
  <2>. QED
    BY <1>1, <2>2
<1>. QED
  BY <1>3, <1>4 DEF InOrder

LEMMA OrderSent ==
  ASSUME TypeOK, InOrder, NEW p, c2s'[0] = Append(c2s[0], p), current'.scan = current.scan,
         \A i \in 1..Len(c2s[0]) : Ordered(c2s[0][i], p)
  PROVE  InOrder'
<1>1. /\ Len(c2s[0]) \in Nat /\ Len(c2s'[0]) = Len(c2s[0]) + 1 /\ c2s'[0][Len(c2s[0]) + 1] = p
      /\ \A i \in 1..Len(c2s[0]) : c2s'[0][i] = c2s[0][i]
  BY FirstTypes, AppendAt, SMT
<1>2. \A q, r : Ordered(q, r)' <=> Ordered(q, r)
  BY DEF Ordered, Completion
<1>3. ASSUME NEW i \in 1..Len(c2s'[0]), NEW j \in 1..Len(c2s'[0]), i < j
      PROVE  Ordered(c2s'[0][i], c2s'[0][j])
  <2>1. i \in 1..Len(c2s[0]) /\ (j \in 1..Len(c2s[0]) \/ j = Len(c2s[0]) + 1)
    BY <1>1, <1>3, SMT
  <2>. QED
    BY <1>1, <1>3, <2>1 DEF InOrder
<1>. QED
  BY <1>2, <1>3 DEF InOrder

LEMMA EndsLastPart ==
  ASSUME NEW q, NEW r, EndsLast(q), Part(q, r)
  PROVE  EndsLast(r)
<1>1. PICK d \in Nat : Len(r) + d <= Len(q) /\ \A i \in 1..Len(r) : r[i] = q[i + d]
  BY DEF Part
<1>2. Len(q) \in Nat /\ Len(r) \in Nat
  BY DEF Part
<1>3. ASSUME NEW i \in 1..Len(r), NEW j \in 1..Len(r), i < j, r[i].type \in Ends
      PROVE  r[j].type # "PayloadHash"
  <2>1. i + d \in 1..Len(q) /\ j + d \in 1..Len(q) /\ i + d < j + d
    BY <1>1, <1>2, <1>3, SMT
  <2>2. r[i] = q[i + d] /\ r[j] = q[j + d]
    BY <1>1
  <2>. QED
    BY <1>3, <2>1, <2>2 DEF EndsLast
<1>. QED
  BY <1>3 DEF EndsLast

LEMMA EndsLastAppend ==
  ASSUME NEW S, NEW q \in Seq(S), NEW e, EndsLast(q), e.type = "PayloadHash" => ~Holds(q, Ends)
  PROVE  EndsLast(Append(q, e))
<1> DEFINE r == Append(q, e)
<1>1. /\ Len(q) \in Nat /\ Len(r) = Len(q) + 1 /\ r[Len(q) + 1] = e
      /\ \A i \in 1..Len(q) : r[i] = q[i]
  BY AppendAt, SMT
<1> HIDE DEF r
<1>2. ASSUME NEW i \in 1..Len(r), NEW j \in 1..Len(r), i < j, r[i].type \in Ends
      PROVE  r[j].type # "PayloadHash"
  <2>1. i \in 1..Len(q) /\ (j \in 1..Len(q) \/ j = Len(q) + 1)
    BY <1>1, <1>2, SMT
  <2>. QED
    BY <1>1, <1>2, <2>1 DEF EndsLast, Holds
<1>3. EndsLast(r)
  BY <1>2 DEF EndsLast
<1>. QED
  BY <1>3 DEF r


(* A step that compares no new hash, accepts no scan and completes none.   *)
LEMMA HashKept ==
  ASSUME HashInv, InOrder', EndsLast(s2c'[0]), Up' => Up,
         hasher' = hasher \/ (hasher'.pc = "idle" /\ ~Up'),
         Comparing' => Comparing, Finishing' => Finishing, Accepted' => Accepted,
         Announced' => Announced, Announced /\ Comparing' /\ Up' => Announced',
         lis'.pc = "buffer" => lis.pc = "buffer",
         Holds(c2s'[0], {"CorrectBlock"}) => Holds(c2s[0], {"CorrectBlock"}),
         main' \in {"init", "leave"} /\ Up' => main \in {"init", "leave"} \/ hasher.pc = "idle",
         main' = "complete" /\ ~current'.cut => main = "complete" /\ ~current.cut
  PROVE  HashInv'
<1>1. (Hashing' => Hashing) /\ (hasher' # hasher => ~Hashing')
  BY DEF Hashing
<1>. QED
  BY <1>1, SMT DEF HashInv

(* A step that starts no copy and ends none.                               *)
LEMMA CopyKept ==
  ASSUME CopyInv,
         synced' = "prefix" \/ state' = "Hashing" => synced = "prefix" \/ state = "Hashing",
         mon'.kind = mon.kind, mon.kind # "scan" => Requesting',
         replOn' => replOn, main' = "startCopy" => main = "startCopy",
         main' = "startFull" => main = "startFull",
         state' = "DestroyingReplica" => state = "DestroyingReplica",
         From(c2s[0], c2s'[0], Commands \union {"InfoReplicationCompleted"}),
         CopyEnded(c2s[0]) => CopyEnded(c2s'[0]),
         main' = "copied" \/ ~replOn' \/ main # "copied", Up' => Up,
         repl'.pc # "copy" => repl.pc # "copy",
         Up' /\ Holds(c2s[0], {"InfoReplicationCompleted"}) => Holds(c2s'[0], {"InfoReplicationCompleted"})
  PROVE  CopyInv'
<1>1. /\ Holds(c2s'[0], Copies) => Holds(c2s[0], Copies)
      /\ Holds(c2s'[0], {"InfoStartReplication"}) => Holds(c2s[0], {"InfoStartReplication"})
      /\ Holds(c2s'[0], Commands \union {"InfoReplicationCompleted"})
           => Holds(c2s[0], Commands \union {"InfoReplicationCompleted"})
  BY FromHolds, SMT DEF Commands, Copies
<1>2. CopyOpen' => CopyOpen
  BY <1>1 DEF CopyOpen
<1>. QED
  BY <1>1, <1>2 DEF CopyInv

LEMMA CopyEndedSent ==
  ASSUME TypeOK, NEW p, c2s'[0] = Append(c2s[0], p), p.type \notin Scans
  PROVE  /\ CopyEnded(c2s[0]) => CopyEnded(c2s'[0])
         /\ \A types : Holds(c2s[0], types) => Holds(c2s'[0], types)
<1>1. /\ Len(c2s[0]) \in Nat /\ Len(c2s'[0]) = Len(c2s[0]) + 1 /\ c2s'[0][Len(c2s[0]) + 1] = p
      /\ \A i \in 1..Len(c2s[0]) : c2s'[0][i] = c2s[0][i]
  BY FirstTypes, AppendAt, SMT
<1>2. ASSUME CopyEnded(c2s[0]), NEW i \in 1..Len(c2s'[0]), c2s'[0][i].type \in Scans
      PROVE  \E j \in 1..i-1 : c2s'[0][j].type = "InfoReplicationCompleted"
  <2>1. i \in 1..Len(c2s[0])
    BY <1>1, <1>2, SMT
  <2>2. PICK j \in 1..i-1 : c2s[0][j].type = "InfoReplicationCompleted"
    BY <1>1, <1>2, <2>1 DEF CopyEnded
  <2>3. j \in 1..Len(c2s[0])
    BY <1>1, <2>1, SMT
  <2>. QED
    BY <1>1, <2>2, <2>3
<1>3. \A i \in 1..Len(c2s[0]) : i \in 1..Len(c2s'[0])
  BY <1>1, SMT
<1>. QED
  BY <1>1, <1>2, <1>3 DEF CopyEnded, Holds
-----------------------------------------------------------------------------
(* What a send, a receive and an answer of the first session do.           *)
LEMMA SendsFirst ==
  ASSUME TypeOK, FirstSession, NEW p, ToServer(p)
  PROVE  Up /\ c2s'[0] = Append(c2s[0], p)
BY FirstTypes DEF ToServer, CanSend, Room, FirstSession, Up

LEMMA ArrivesFirst ==
  ASSUME TypeOK, FirstSession, NEW type, Arrived(type)
  PROVE  /\ ses = 0 /\ main = "receive" /\ c2s[0] # <<>> /\ Head(c2s[0]).type = type
         /\ c2s'[0] = Tail(c2s[0]) /\ Head(c2s[0]) = c2s[0][1]
         /\ Part(c2s[0], c2s'[0])
<1>1. main = "receive" /\ c2s[ses] # <<>> /\ Head(c2s[ses]).type = type /\ c2s' = [c2s EXCEPT ![ses] = Tail(@)]
  BY DEF Arrived
<1>2. ses = 0
  BY <1>1, ServesFirst DEF TypeOK, ServerType
<1>3. c2s[0] # <<>> /\ c2s'[0] = Tail(c2s[0]) /\ c2s[0] \in Seq(Packet)
  BY <1>1, <1>2, FirstTypes
<1>. QED
  BY <1>1, <1>2, <1>3, TailAt, PartTail

LEMMA AnswersFirst ==
  ASSUME TypeOK, ses = 0, NEW p, ToClient(p)
  PROVE  \/ Up /\ s2c'[0] = Append(s2c[0], p)
         \/ ~Up /\ s2c' = s2c
BY FirstTypes DEF ToClient, Room, Dead, Up

(* A packet that is about no scan.                                         *)
LEMMA PlainSend ==
  ASSUME TypeOK, ControlInv, NEW p, c2s'[0] = Append(c2s[0], p),
         p.type \in {"BufferWrite", "ReplicationBlock"}, current' = current
  PROVE  /\ From(c2s[0], c2s'[0], Commands \union Ends \union {"InfoReplicationCompleted", "CorrectBlock"})
         /\ InOrder' /\ (CopyEnded(c2s[0]) => CopyEnded(c2s'[0]))
         /\ \A types : Holds(c2s[0], types) => Holds(c2s'[0], types)
<1>1. p.type \notin Commands \union Ends \union {"InfoReplicationCompleted", "CorrectBlock"}
  BY DEF Commands, Scans, Copies, Ends
<1>2. \A q : Ordered(q, p)
  BY <1>1 DEF Ordered, Commands, Copies, Scans
<1>3. InOrder'
  BY <1>2, OrderSent DEF ControlInv, HashInv
<1>. QED
  BY <1>1, <1>3, FirstTypes, FromAppend, CopyEndedSent, SMT DEF Commands

-----------------------------------------------------------------------------
(* What stays true when nothing it is about changes.                       *)
LEMMA FromSame ==
  ASSUME NEW q, NEW types
  PROVE  From(q, q, types)
BY DEF From

LEMMA NumbersSame ==
  ASSUME ScanNumbers, epoch' = epoch, UNCHANGED <<current, mon, lis, main, hasher>>,
         c2s'[0] = c2s[0], s2c'[0] = s2c[0]
  PROVE  ScanNumbers'
<1>1. \A p : Numbered(p)' <=> Numbered(p)
  BY DEF Numbered
<1>. QED
  BY <1>1 DEF ScanNumbers, Accepted, Hashing, Announced, Resetting

LEMMA EntrySame ==
  ASSUME EntryInv, UNCHANGED <<writeQueue, writer, current, state, ses>>
  PROVE  EntryInv'
BY DEF EntryInv, Entries

LEMMA HashSame ==
  ASSUME HashInv, UNCHANGED <<hashQueue, compared, lis, main, hasher, current>>,
         c2s'[0] = c2s[0], s2c'[0] = s2c[0], link'[0] = link[0]
  PROVE  HashInv'
<1>1. InOrder'
  BY SMT DEF HashInv, InOrder, Ordered, Completion
<1>2. (Comparing' <=> Comparing) /\ (Accepted' <=> Accepted) /\ (Announced' <=> Announced) /\ (Up' <=> Up)
  BY DEF Comparing, Accepted, Announced, Up
<1>3. Finishing' <=> Finishing
  BY DEF Finishing, Completion, Up
<1>4. EndsLast(s2c'[0])
  BY DEF HashInv
<1>. QED
  BY <1>1, <1>2, <1>3, <1>4, HashKept

LEMMA CopySame ==
  ASSUME CopyInv, UNCHANGED <<synced, state, main, replOn>>, repl'.pc = repl.pc,
         c2s'[0] = c2s[0], link'[0] = link[0],
         mon'.kind = mon.kind, mon.kind # "scan" => Requesting'
  PROVE  CopyInv'
BY DEF CopyInv, CopyOpen, Up

(* Steps that do not touch what ControlInv is about.                       *)
LEMMA ElsewhereControl ==
  ASSUME ControlInv, UNCHANGED <<resets, current, mon, lis, main, hasher, writeQueue>>,
         UNCHANGED <<writer, state, ses, hashQueue, compared, synced, replOn, repl>>,
         c2s'[0] = c2s[0], s2c'[0] = s2c[0], link'[0] = link[0]
  PROVE  ControlInv'
<1>1. epoch' = epoch /\ (Requesting' <=> Requesting)
  BY DEF epoch, Requesting
<1>2. ScanNumbers' /\ EntryInv' /\ HashInv'
  BY <1>1, NumbersSame, EntrySame, HashSame DEF ControlInv
<1>3. CopyInv'
  BY <1>1, CopySame DEF ControlInv, CopyInv
<1>4. BatchInv'
  BY DEF ControlInv, BatchInv
<1>. QED
  BY <1>2, <1>3, <1>4 DEF ControlInv

LEMMA SilentControl ==
  ASSUME ControlInv,
         \/ UNCHANGED vars \/ Applications
         \/ HandleReplicationPacket \/ \E k \in Conns : HandleCorrectPacket(k)
  PROVE  ControlInv'
<1>1. UNCHANGED <<resets, current, mon, lis, c2s, s2c, main, hasher, writeQueue>>
  BY DEF vars, Applications, IssueWrite, CompleteWrite, HandleReplicationPacket, HandleCorrectPacket,
         net, client, server, history, direct
<1>2. UNCHANGED <<writer, state, ses, hashQueue, compared, link, synced, replOn, repl>>
  BY DEF vars, Applications, IssueWrite, CompleteWrite, HandleReplicationPacket, HandleCorrectPacket,
         net, client, server, history, direct, workers
<1>. QED
  BY <1>1, <1>2, ElsewhereControl

(* The monitor's own steps.                                                *)
LEMMA MonitorKind ==
  ASSUME ControlInv, ~Requesting
  PROVE  mon.kind = "scan"
BY DEF ControlInv, CopyInv

LEMMA MonitorControl ==
  ASSUME TypeOK, ControlInv, WaitIfPaused \/ MonitorRead \/ MonitorCheck
  PROVE  ControlInv'
<1>1. /\ ~Requesting /\ mon'.pc \notin {"pause", "request"} /\ mon'.kind = mon.kind
      /\ mon'.pc \notin {"check", "encode"} => mon'.batch = <<>>
  BY  DEF WaitIfPaused, MonitorRead, MonitorCheck, MonitorDone, Requesting, TypeOK, ClientType, ControlInv, BatchInv
<1>2. UNCHANGED <<lis, c2s, s2c, link, main, hasher, current, state, synced>>
  BY DEF WaitIfPaused, MonitorRead, MonitorCheck, net, server, history
<1>3. UNCHANGED <<replOn, repl, hashQueue, compared, writeQueue, writer, ses>>
  BY DEF WaitIfPaused, MonitorRead, MonitorCheck, workers, server, direct
<1>4. epoch' = epoch
  <2>1. resets' = resets \/ \E S : epoch > 0 /\ resets' = [resets EXCEPT ![epoch].snatched = S]
    BY SMT DEF WaitIfPaused, MonitorRead, MonitorCheck, history, TypeOK, HistoryType, epoch
  <2>2. \A S : epoch > 0 => Len([resets EXCEPT ![epoch].snatched = S]) = Len(resets)
    BY SMT DEF TypeOK, HistoryType, epoch
  <2>. QED
    BY <2>1, <2>2 DEF epoch
<1>5. ScanNumbers'
  <2>1. (Accepted' => Accepted) /\ (Hashing' => Hashing)
    BY <1>2 DEF Accepted, Hashing
  <2>. QED
    BY <1>1, <1>2, <1>4, <2>1, NumbersKept, FromSame DEF ControlInv
<1>6. EntryInv' /\ HashInv'
  BY <1>2, <1>3, EntrySame, HashSame DEF ControlInv
<1>7. CopyInv'
  BY <1>1, <1>2, <1>3, CopySame, MonitorKind DEF ControlInv
<1>8. BatchInv'
  BY <1>1, <1>2, <1>3 DEF ControlInv, BatchInv
<1>. QED
  BY <1>5, <1>6, <1>7, <1>8 DEF ControlInv


(* A goroutine of the client sends a write or a block.                     *)
LEMMA PlainSendControl ==
  ASSUME TypeOK, FirstSession, ControlInv, NEW p, ToServer(p),
         p.type \in {"BufferWrite", "ReplicationBlock"},
         UNCHANGED <<s2c, link, main, hasher, current, state, synced, replOn, hashQueue, compared>>,
         UNCHANGED <<resets, writeQueue, writer, ses>>, repl'.pc = repl.pc,
         mon'.pc \in {"pause", "request"} => mon' = mon, mon'.kind = mon.kind,
         mon.kind # "scan" => Requesting',
         lis' = lis \/ (/\ lis.pc = "send" /\ lis'.pc \in {"send", "resume"}
                        /\ lis'.tag = lis.tag /\ lis'.read = lis.read),
         BatchInv'
  PROVE  ControlInv'
<1>1. Up /\ Up' /\ c2s'[0] = Append(c2s[0], p)
  BY SendsFirst DEF Up
<1>2. /\ From(c2s[0], c2s'[0], Commands \union Ends \union {"InfoReplicationCompleted", "CorrectBlock"})
      /\ InOrder' /\ (CopyEnded(c2s[0]) => CopyEnded(c2s'[0]))
      /\ \A types : Holds(c2s[0], types) => Holds(c2s'[0], types)
  BY <1>1, PlainSend
<1>3. /\ From(c2s[0], c2s'[0], Commands \union Ends) /\ From(c2s[0], c2s'[0], Ends)
      /\ From(c2s[0], c2s'[0], Commands \union {"InfoReplicationCompleted"})
      /\ From(c2s[0], c2s'[0], {"CorrectBlock"})
  BY <1>2 DEF From
<1>4. /\ Accepted' = Accepted /\ Hashing' = Hashing /\ Announced' = Announced /\ Comparing' = Comparing
      /\ epoch' = epoch
  BY DEF Accepted, Hashing, Announced, Comparing, epoch
<1>5. ScanNumbers'
  BY <1>3, <1>4, NumbersKept, FromSame DEF ControlInv
<1>6. EntryInv'
  BY EntrySame DEF ControlInv
<1>7. HashInv'
  <2>1. Finishing' => Finishing
    BY <1>1, <1>3, FinishingKept
  <2>2. Holds(c2s'[0], {"CorrectBlock"}) => Holds(c2s[0], {"CorrectBlock"})
    BY <1>3, FromHolds
  <2>3. EndsLast(s2c'[0])
    BY DEF ControlInv, HashInv
  <2>. QED
    BY <1>1, <1>2, <1>4, <2>1, <2>2, <2>3, HashKept DEF ControlInv
<1>8. CopyInv'
  BY <1>1, <1>2, <1>3, CopyKept DEF ControlInv
<1>. QED
  BY <1>5, <1>6, <1>7, <1>8 DEF ControlInv

LEMMA MonitorSendControl ==
  ASSUME TypeOK, FirstSession, ControlInv, MonitorSend
  PROVE  ControlInv'
<1>1. /\ mon.pc = "encode" /\ mon'.pc \notin {"pause", "request"} /\ mon'.kind = mon.kind
      /\ mon'.pc \notin {"check", "encode"} => mon'.batch = <<>>
  BY  DEF MonitorSend, MonitorDone, TypeOK, ClientType
<1>2. UNCHANGED <<s2c, link, main, hasher, current, state, synced, replOn, hashQueue, compared>>
  BY DEF MonitorSend, server, history, direct, workers
<1>3. UNCHANGED <<resets, writeQueue, writer, ses, repl, lis>>
  BY DEF MonitorSend, server, history, direct, workers
<1>4. mon.kind = "scan" /\ ~Requesting /\ BatchInv'
  BY <1>1, <1>2, <1>3, MonitorKind DEF Requesting, ControlInv, BatchInv
<1>5. CASE UNCHANGED c2s
  <2>1. ScanNumbers'
    <3>1. (Accepted' => Accepted) /\ (Hashing' => Hashing) /\ epoch' = epoch
      BY <1>2, <1>3 DEF Accepted, Hashing, epoch
    <3>. QED
      BY <1>1, <1>2, <1>3, <1>5, <3>1, NumbersKept, FromSame DEF ControlInv
  <2>2. EntryInv' /\ HashInv' /\ CopyInv'
    BY <1>1, <1>2, <1>3, <1>4, <1>5, EntrySame, HashSame, CopySame DEF ControlInv
  <2>. QED
    BY <1>4, <2>1, <2>2 DEF ControlInv
<1>6. CASE ~UNCHANGED c2s
  <2>1. PICK p : p = [type |-> "BufferWrite", write |-> Head(mon.batch), tag |-> mon.tag] /\ ToServer(p)
    BY <1>6 DEF MonitorSend
  <2>2. p.type = "BufferWrite"
    BY <2>1
  <2>. QED
    BY <1>1, <1>2, <1>3, <1>4, <2>1, <2>2, PlainSendControl
<1>. QED
  BY <1>5, <1>6

LEMMA ListenerSendControl ==
  ASSUME TypeOK, FirstSession, ControlInv, ListenerSend
  PROVE  ControlInv'
<1>1. /\ lis.pc = "send" /\ lis'.pc \in {"send", "resume"} /\ lis'.tag = lis.tag /\ lis'.read = lis.read
      /\ lis'.batch = Tail(lis.batch) /\ (lis'.pc # "send" => Len(lis.batch) = 1)
  BY DEF ListenerSend, TypeOK, ClientType
<1>2. UNCHANGED <<s2c, link, main, hasher, current, state, synced, replOn, hashQueue, compared>>
  BY DEF ListenerSend, server, history, direct, workers
<1>3. UNCHANGED <<resets, writeQueue, writer, ses, repl, mon>>
  BY DEF ListenerSend, server, history, direct, workers
<1>4. BatchInv'
  <2>1. Len(lis.batch) = 1 => Tail(lis.batch) = <<>>
    BY <1>1, LastTail DEF TypeOK, ClientType
  <2>. QED
    BY <1>1, <1>2, <1>3, <2>1 DEF ControlInv, BatchInv
<1>5. PICK p : p = [type |-> "BufferWrite", write |-> Head(lis.batch), tag |-> lis.read] /\ ToServer(p)
  BY DEF ListenerSend
<1>6. p.type = "BufferWrite"
  BY <1>5
<1>7. mon.kind # "scan" => Requesting'
  BY <1>3 DEF ControlInv, CopyInv, Requesting
<1>. QED
  BY <1>1, <1>2, <1>3, <1>4, <1>5, <1>6, <1>7, PlainSendControl

LEMMA SendReplicationBlockControl ==
  ASSUME TypeOK, FirstSession, ControlInv, NEW p \in repl.read, SendReplicationBlock(p)
  PROVE  ControlInv'
<1>1. UNCHANGED <<s2c, link, main, hasher, current, state, synced, replOn, hashQueue, compared>>
  BY DEF SendReplicationBlock, server, history, direct
<1>2. UNCHANGED <<resets, writeQueue, writer, ses, mon, lis>>
  BY DEF SendReplicationBlock, server, history, direct
<1>3. repl'.pc = repl.pc /\ repl'.read = repl.read \ {p} /\ ToServer(p)
  BY DEF SendReplicationBlock, TypeOK, WorkersType
<1>4. BatchInv' /\ p.type = "ReplicationBlock"
  BY <1>1, <1>2, <1>3 DEF ControlInv, BatchInv
<1>5. mon.kind # "scan" => Requesting'
  BY <1>2 DEF ControlInv, CopyInv, Requesting
<1>. QED
  BY <1>1, <1>2, <1>3, <1>4, <1>5, PlainSendControl

-----------------------------------------------------------------------------
(* A scan is requested: the ring buffer is reset, the monitor paused, and  *)
(* the command sent.                                                       *)
LEMMA ResetControl ==
  ASSUME TypeOK, ControlInv, ResetRing, ~Asked, ~Accepted, ~Hashing, ~Announced,
         mon'.pc \in {"pause", "request"} => mon'.tag = epoch + 1,
         lis'.pc \in {"pause", "request"} => lis'.tag = epoch + 1,
         lis'.pc \notin {"buffer", "send", "resume"}, lis'.pc = "complete" => lis' = lis,
         mon'.kind = mon.kind, mon.kind # "scan" => Requesting', BatchInv'
  PROVE  ControlInv'
<1>1. UNCHANGED <<c2s, s2c, link, main, hasher, current, hashQueue, compared>>
  BY DEF ResetRing, net, server
<1>2. UNCHANGED <<writeQueue, writer, state, ses, synced, replOn, repl>>
  BY DEF ResetRing, server, direct
<1>3. epoch \in Nat /\ epoch' = epoch + 1
  <2>1. resets \in Seq([straddling : SUBSET Blocks, snatched : SUBSET Blocks])
    BY DEF TypeOK, HistoryType
  <2>2. PICK e : resets' = Append(resets, e)
    BY DEF ResetRing
  <2>. QED
    BY <2>1, <2>2, AppendAt DEF epoch
<1>4. ~Asked' /\ ~Accepted' /\ ~Hashing' /\ ~Announced'
  BY <1>1 DEF Asked, Accepted, Hashing, Announced
<1>5. ScanNumbers'
  <2>1. current.scan \in Int /\ current.scan <= epoch
    BY FirstTypes DEF ControlInv, ScanNumbers
  <2>2. ASSUME NEW i \in 1..Len(c2s[0]) PROVE Numbered(c2s[0][i])'
    <3>1. Numbered(c2s[0][i]) /\ c2s[0][i].type \notin Scans
      BY <2>2 DEF ControlInv, ScanNumbers, Asked, Holds
    <3>2. c2s[0][i].type \in Commands => c2s[0][i].scan \in Nat
      <4>1. c2s[0][i] \in Packet
        BY <2>2, FirstTypes, ElementOfSeq
      <4>. QED
        BY <4>1 DEF Packet, WritePacket, BlockPacket, Commands, Scans, Copies
    <3>. QED
      BY <1>1, <1>3, <3>1, <3>2, SMT DEF Numbered
  <2>3. /\ current'.scan <= epoch'
        /\ mon'.pc \in {"pause", "request"} => mon'.tag = epoch' /\ current'.scan < epoch'
        /\ lis'.pc \in {"pause", "request"} => lis'.tag = epoch' /\ current'.scan < epoch'
    BY <1>1, <1>3, <2>1, SMT
  <2>4. \A i \in 1..Len(s2c'[0]) : s2c'[0][i].type \notin Ends
    BY <1>4 DEF Announced, Holds
  <2>5. lis'.pc = "complete" => lis'.tag = lis'.read /\ lis'.tag <= current'.scan
    BY <1>1 DEF ControlInv, ScanNumbers
  <2>6. ASSUME NEW i \in 1..Len(c2s[0]), c2s[0][i].type \in Commands PROVE c2s[0][i].scan < epoch'
    <3>1. c2s[0][i].scan \in Nat
      <4>1. c2s[0][i] \in Packet
        BY <2>6, FirstTypes, ElementOfSeq
      <4>. QED
        BY <2>6, <4>1 DEF Packet, WritePacket, BlockPacket, Commands, Scans, Copies
    <3>2. c2s[0][i].scan <= epoch
      BY <2>6 DEF ControlInv, ScanNumbers, Numbered
    <3>. QED
      BY <1>3, <3>1, <3>2, SMT
  <2>. QED
    BY <1>1, <1>4, <2>2, <2>3, <2>4, <2>5, <2>6 DEF ScanNumbers
<1>6. EntryInv'
  BY <1>1, <1>2, EntrySame DEF ControlInv
<1>7. HashInv'
  <2>1. InOrder' /\ EndsLast(s2c'[0])
    BY <1>1 DEF ControlInv, HashInv, InOrder, Ordered, Completion
  <2>2. (Comparing' <=> Comparing) /\ (Up' <=> Up)
    BY <1>1 DEF Comparing, Up
  <2>3. Finishing' => Finishing
    BY <1>1 DEF Finishing, Completion, Up
  <2>. QED
    BY <1>1, <1>4, <2>1, <2>2, <2>3, HashKept DEF ControlInv
<1>8. CopyInv'
  BY <1>1, <1>2, CopySame DEF ControlInv
<1>. QED
  BY <1>5, <1>6, <1>7, <1>8 DEF ControlInv

LEMMA PauseControl ==
  ASSUME TypeOK, ControlInv, NEW kind, PauseMonitor(kind),
         \/ lis' = lis /\ mon.pc = "pause" /\ mon' = [mon EXCEPT !.pc = "request"]
         \/ mon' = mon /\ lis.pc = "pause" /\ lis' = [lis EXCEPT !.pc = "request"]
  PROVE  ControlInv'
<1>1. UNCHANGED <<c2s, s2c, link, main, hasher, current, hashQueue, compared, resets>>
  BY DEF PauseMonitor, net, server, history
<1>2. UNCHANGED <<writeQueue, writer, state, ses, synced, replOn, repl>>
  BY DEF PauseMonitor, server, direct, history
<1>3. /\ mon'.pc \in {"pause", "request"} <=> mon.pc \in {"pause", "request"}
      /\ mon'.tag = mon.tag /\ mon'.kind = mon.kind /\ mon'.batch = mon.batch
      /\ mon'.pc \in {"check", "encode"} <=> mon.pc \in {"check", "encode"}
      /\ Requesting' <=> Requesting
  BY DEF Requesting, TypeOK, ClientType
<1>4. \/ lis' = lis
      \/ /\ lis.pc = "pause" /\ lis'.pc = "request"
         /\ lis'.tag = lis.tag /\ lis'.batch = lis.batch
  BY DEF TypeOK, ClientType
<1>5. ScanNumbers'
  <2>1. /\ epoch' = epoch /\ (Accepted' <=> Accepted) /\ (Hashing' <=> Hashing) /\ (Announced' <=> Announced)
        /\ \A p : Numbered(p)' <=> Numbered(p)
    BY <1>1 DEF epoch, Accepted, Hashing, Announced, Numbered
  <2>2. Resetting' => Resetting
    BY <1>3, <1>4 DEF Resetting
  <2>. QED
    BY <1>1, <1>3, <1>4, <2>1, <2>2 DEF ControlInv, ScanNumbers
<1>6. EntryInv'
  BY <1>1, <1>2, EntrySame DEF ControlInv
<1>7. HashInv'
  <2>1. InOrder' /\ EndsLast(s2c'[0])
    BY <1>1 DEF ControlInv, HashInv, InOrder, Ordered, Completion
  <2>2. (Comparing' <=> Comparing) /\ (Up' <=> Up) /\ (Accepted' <=> Accepted) /\ (Announced' <=> Announced)
    BY <1>1 DEF Comparing, Up, Accepted, Announced
  <2>3. Finishing' => Finishing
    BY <1>1, <1>4 DEF Finishing, Completion, Up
  <2>. QED
    BY <1>1, <1>4, <2>1, <2>2, <2>3, HashKept DEF ControlInv
<1>8. CopyInv'
  BY <1>1, <1>2, <1>3, CopySame DEF ControlInv, CopyInv
<1>9. BatchInv'
  BY <1>1, <1>2, <1>3, <1>4 DEF ControlInv, BatchInv
<1>. QED
  BY <1>5, <1>6, <1>7, <1>8, <1>9 DEF ControlInv


LEMMA RequestControl ==
  ASSUME TypeOK, FirstSession, ControlInv, ~Copying,
         NEW kind \in {"scan", "full", "replicate"}, RequestScan(kind, epoch), current.scan < epoch,
         Resetting, ~Resetting', mon.kind = kind, mon'.kind = "scan",
         mon'.pc \notin {"pause", "request"}, mon'.batch = <<>>,
         \/ lis'.pc \notin {"pause", "request", "buffer", "send", "resume", "complete"} /\ lis'.batch = <<>>
         \/ lis' = lis,
         kind # "replicate" => repl' = repl,
         kind = "replicate" => repl'.pc = "copy" /\ repl'.read = {}
  PROVE  ControlInv'
<1>1. UNCHANGED <<s2c, link, main, hasher, current, hashQueue, compared, resets>>
  BY DEF RequestScan, server, history
<1>2. UNCHANGED <<writeQueue, writer, state, ses, synced, replOn>>
  BY DEF RequestScan, server, direct, history
<1>3. PICK p : p = [type |-> Command(kind), scan |-> epoch] /\ ToServer(p)
  BY DEF RequestScan
<1>4. /\ p.scan = epoch /\ (kind = "scan" => p.type = "CmdStartHashing")
      /\ kind = "full" => p.type = "CmdStartFullScan"
      /\ kind = "replicate" => p.type = "InfoStartReplication"
  BY <1>3 DEF Command
<1>5. Up /\ Up' /\ c2s'[0] = Append(c2s[0], p)
  BY <1>1, <1>3, SendsFirst DEF Up
<1>6. /\ Len(c2s[0]) \in Nat /\ Len(c2s'[0]) = Len(c2s[0]) + 1 /\ c2s'[0][Len(c2s[0]) + 1] = p
      /\ \A i \in 1..Len(c2s[0]) : c2s'[0][i] = c2s[0][i]
  BY <1>5, FirstTypes, AppendAt, SMT
<1>7. /\ Accepted' = Accepted /\ Hashing' = Hashing /\ Announced' = Announced /\ Comparing' = Comparing
      /\ epoch' = epoch /\ epoch \in Nat
  BY <1>1, FirstTypes DEF Accepted, Hashing, Announced, Comparing, epoch
<1>8. ScanNumbers'
  <2>1. Numbered(p)
    BY <1>4, <1>7, SMT DEF Numbered, Commands, Scans, Copies
  <2>2. \A i \in 1..Len(c2s'[0]) : Numbered(c2s'[0][i])
    BY <1>5, <2>1, NumberedSent DEF ControlInv
  <2>. QED
    BY <1>1, <1>7, <2>2, NumbersStay, FromSame DEF ControlInv
<1>9. EntryInv'
  BY <1>1, <1>2, EntrySame DEF ControlInv
<1>10. p.type \notin Ends \union {"CorrectBlock", "InfoReplicationCompleted"}
  BY <1>4 DEF Ends
<1>11. HashInv'
  <2>1. From(c2s[0], c2s'[0], Ends) /\ From(c2s[0], c2s'[0], {"CorrectBlock"})
    BY <1>5, <1>10, FromAppend, FirstTypes, SMT
  <2>2. Finishing' => Finishing
    BY <1>1, <1>5, <2>1, FinishingKept
  <2>3. Holds(c2s'[0], {"CorrectBlock"}) => Holds(c2s[0], {"CorrectBlock"})
    BY <2>1, FromHolds
  <2>4. ASSUME NEW i \in 1..Len(c2s[0]) PROVE Ordered(c2s[0][i], p)
    <3>0. c2s[0][i].type \in Commands => c2s[0][i].scan < p.scan
      BY <1>4, <2>4 DEF ControlInv, ScanNumbers
    <3>1. CASE kind = "scan"
      BY <1>4, <1>10, <3>0, <3>1 DEF Ordered, Copies
    <3>2. CASE kind # "scan"
      BY <1>10, <2>4, <3>0, <3>2 DEF Ordered, ControlInv, CopyInv, Holds
    <3>. QED
      BY <3>1, <3>2
  <2>5. InOrder' /\ EndsLast(s2c'[0])
    BY <1>1, <1>5, <2>4, OrderSent DEF ControlInv, HashInv
  <2>. QED
    BY <1>1, <1>5, <1>7, <2>2, <2>3, <2>5, HashKept DEF ControlInv
<1>12. CopyInv'
  <2>1. CASE kind = "scan"
    <3>0. p.type \notin Copies
      BY <1>4, <2>1 DEF Copies
    <3>1. From(c2s[0], c2s'[0], Copies)
      BY <1>5, <3>0, FromAppend, FirstTypes, SMT
    <3>2. /\ Holds(c2s'[0], Copies) => Holds(c2s[0], Copies)
          /\ Holds(c2s'[0], {"InfoStartReplication"}) => Holds(c2s[0], {"InfoStartReplication"})
      BY <3>1, FromHolds DEF Copies
    <3>3. CopyOpen' => CopyOpen
      BY <1>1, <1>2, <3>2 DEF CopyOpen
    <3>4. CopyOpen => \E j \in 1..Len(c2s[0]) : c2s[0][j].type = "InfoReplicationCompleted"
      BY <1>5 DEF ControlInv, CopyInv, Copying, Holds
    <3>5. ASSUME CopyOpen, NEW i \in 1..Len(c2s'[0]), c2s'[0][i].type \in Scans
          PROVE  \E j \in 1..i-1 : c2s'[0][j].type = "InfoReplicationCompleted"
      <4>1. CASE i \in 1..Len(c2s[0])
        <5>1. PICK j \in 1..i-1 : c2s[0][j].type = "InfoReplicationCompleted"
          BY <1>6, <3>5, <4>1 DEF ControlInv, CopyInv, CopyEnded
        <5>2. j \in 1..Len(c2s[0])
          BY <1>6, <4>1, SMT
        <5>. QED
          BY <1>6, <5>1, <5>2
      <4>2. CASE i \notin 1..Len(c2s[0])
        <5>1. i - 1 = Len(c2s[0])
          BY <1>6, <4>2, SMT
        <5>. QED
          BY <1>6, <3>4, <3>5, <5>1
      <4>. QED
        BY <4>1, <4>2
    <3>6. CopyOpen => CopyEnded(c2s'[0]) /\ Holds(c2s'[0], {"InfoReplicationCompleted"})
      <4>1. \A j \in 1..Len(c2s[0]) : j \in 1..Len(c2s'[0])
        BY <1>6, SMT
      <4>. QED
        BY <1>6, <3>4, <3>5, <4>1 DEF CopyEnded, Holds
    <3>. QED
      BY <1>1, <1>2, <2>1, <3>2, <3>3, <3>6 DEF ControlInv, CopyInv
  <2>2. CASE kind # "scan"
    <3>1. /\ ~replOn /\ main # "startCopy" /\ ~(synced = "prefix" \/ state = "Hashing")
          /\ ~Holds(c2s[0], Commands)
      BY <2>2 DEF ControlInv, CopyInv, Holds
    <3>2. kind = "full" => ~CopyOpen'
      <4>1. kind = "full" => From(c2s[0], c2s'[0], {"InfoStartReplication"})
        BY <1>4, <1>5, FromAppend, FirstTypes, SMT
      <4>2. ~Holds(c2s[0], {"InfoStartReplication"})
        BY <3>1 DEF Holds, Commands, Copies
      <4>3. kind = "full" => ~Holds(c2s'[0], {"InfoStartReplication"})
        BY <4>1, <4>2, FromHolds
      <4>. QED
        BY <1>1, <1>2, <3>1, <4>3 DEF CopyOpen
    <3>3. kind = "replicate" => CopyEnded(c2s'[0])
      <4>0. kind = "replicate" => p.type \notin Scans
        BY <1>4 DEF Scans
      <4>1. kind = "replicate" => From(c2s[0], c2s'[0], Scans)
        BY <1>5, <4>0, FromAppend, FirstTypes, SMT
      <4>. QED
        BY <3>1, <4>1 DEF CopyEnded, From, Holds, Commands
    <3>. QED
      BY <1>1, <1>2, <2>2, <3>1, <3>2, <3>3 DEF CopyInv
  <2>. QED
    BY <2>1, <2>2
<1>13. BatchInv'
  BY <1>1 DEF ControlInv, BatchInv
<1>. QED
  BY <1>8, <1>9, <1>11, <1>12, <1>13 DEF ControlInv

LEMMA MonitorStartHashingControl ==
  ASSUME TypeOK, SessionInv, FirstSession, ControlInv, MonitorStartHashing
  PROVE  ControlInv'
<1>1. Requesting
  BY DEF MonitorStartHashing, Requesting
<1>2. ~Asked /\ ~Accepted /\ ~Hashing /\ ~Announced /\ ~Completing /\ ~Copying
  BY <1>1 DEF SessionInv, OneScan
<1>3. mon.batch = <<>> /\ (lis.pc # "send" => lis.batch = <<>>)
  BY <1>1 DEF ControlInv, BatchInv, Requesting
<1>4. CASE mon.pc = "reset"
  <2>1. mon' = [mon EXCEPT !.pc = "pause", !.tag = epoch + 1] /\ ResetRing /\ UNCHANGED lis
    BY <1>4 DEF MonitorStartHashing
  <2>2. mon'.pc = "pause" /\ mon'.tag = epoch + 1 /\ mon'.kind = mon.kind /\ mon'.batch = mon.batch
    BY <2>1 DEF TypeOK, ClientType
  <2>3. BatchInv'
    BY <1>3, <2>1, <2>2 DEF ControlInv, BatchInv, ResetRing
  <2>. QED
    BY <1>2, <2>1, <2>2, <2>3, ResetControl DEF Completing, Requesting
<1>5. CASE mon.pc = "pause"
  <2>1. mon' = [mon EXCEPT !.pc = "request"] /\ PauseMonitor(mon.kind) /\ UNCHANGED lis
    BY <1>5 DEF MonitorStartHashing
  <2>. QED
    BY <1>5, <2>1, PauseControl
<1>6. CASE mon.pc = "request"
  <2>1. /\ RequestScan(mon.kind, mon.tag)
        /\ mon' = [mon EXCEPT !.pc = "wait", !.tag = 0, !.kind = "scan"]
        /\ lis' = [lis EXCEPT !.pc = IF @ = "starting" THEN "receive" ELSE @]
        /\ repl' = IF mon.kind = "replicate"
                     THEN [pc |-> "copy", todo |-> Blocks, read |-> {}, tag |-> mon.tag]
                     ELSE repl
    BY <1>6 DEF MonitorStartHashing
  <2>2. mon.tag = epoch /\ current.scan < epoch
    BY <1>6 DEF ControlInv, ScanNumbers
  <2>3. mon'.pc = "wait" /\ mon'.kind = "scan" /\ mon'.batch = <<>>
    BY <1>3, <2>1 DEF TypeOK, ClientType
  <2>4. lis' = lis \/ (lis'.pc = "receive" /\ lis'.batch = <<>>)
    BY <1>3, <2>1 DEF TypeOK, ClientType
  <2>5. mon.kind \in {"scan", "full", "replicate"}
    BY DEF TypeOK, ClientType
  <2>6. /\ mon.kind # "replicate" => repl' = repl
        /\ mon.kind = "replicate" => repl'.pc = "copy" /\ repl'.read = {}
    BY <2>1
  <2>. QED
    <3>1. Resetting /\ ~Resetting'
      BY <1>2, <1>6, <2>3, <2>4 DEF Resetting, Completing
    <3>. QED
      BY <1>2, <2>1, <2>2, <2>3, <2>4, <2>5, <2>6, <3>1, RequestControl
<1>. QED
  BY <1>1, <1>4, <1>5, <1>6 DEF Requesting

LEMMA ListenerStartHashingControl ==
  ASSUME TypeOK, SessionInv, FirstSession, ControlInv, ListenerStartHashing
  PROVE  ControlInv'
<1>1. Completing /\ lis.pc \in {"reset", "pause", "request"}
  BY DEF ListenerStartHashing, Completing
<1>2. ~Requesting /\ ~Asked /\ ~Accepted /\ ~Hashing /\ ~Announced /\ ~Copying
  BY <1>1 DEF SessionInv, OneScan
<1>3. lis.batch = <<>> /\ mon.kind = "scan" /\ UNCHANGED mon
  BY <1>1, <1>2, MonitorKind DEF ControlInv, BatchInv, ListenerStartHashing
<1>4. CASE lis.pc = "reset"
  <2>1. lis' = [lis EXCEPT !.pc = "pause", !.tag = epoch + 1] /\ ResetRing
    BY <1>4 DEF ListenerStartHashing
  <2>2. lis'.pc = "pause" /\ lis'.tag = epoch + 1 /\ lis'.batch = lis.batch
    BY <2>1 DEF TypeOK, ClientType
  <2>3. BatchInv'
    BY <1>3, <2>1, <2>2 DEF ControlInv, BatchInv, ResetRing
  <2>. QED
    BY <1>2, <1>3, <2>1, <2>2, <2>3, ResetControl DEF Requesting
<1>5. CASE lis.pc = "pause"
  <2>1. lis' = [lis EXCEPT !.pc = "request"] /\ PauseMonitor("scan")
    BY <1>5 DEF ListenerStartHashing
  <2>. QED
    BY <1>3, <1>5, <2>1, PauseControl
<1>6. CASE lis.pc = "request"
  <2>1. RequestScan("scan", lis.tag) /\ UNCHANGED repl /\ lis' = [lis EXCEPT !.pc = "receive", !.tag = 0]
    BY <1>6 DEF ListenerStartHashing
  <2>2. lis.tag = epoch /\ current.scan < epoch
    BY <1>6 DEF ControlInv, ScanNumbers
  <2>3. lis'.pc = "receive" /\ lis'.batch = <<>>
    BY <1>3, <2>1 DEF TypeOK, ClientType
  <2>4. mon.pc \notin {"check", "encode"} /\ mon.batch = <<>>
    <3>1. mon.pc \in {"blocked", "wait"}
      BY <1>1 DEF SessionInv, MonitorHeld
    <3>. QED
      BY <3>1 DEF ControlInv, BatchInv
  <2>. QED
    <3>1. Resetting /\ ~Resetting'
      BY <1>2, <1>3, <1>6, <2>3 DEF Resetting, Requesting
    <3>. QED
      BY <1>2, <1>3, <2>1, <2>2, <2>3, <2>4, <3>1, RequestControl DEF Requesting
<1>. QED
  BY <1>1, <1>4, <1>5, <1>6
=============================================================================
