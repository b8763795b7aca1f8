------------------------ MODULE ReplicationControlProofs ------------------------
(***************************************************************************)
(* ControlInv and InitInv are inductive in the first session of a client:  *)
(* the number of a scan, the order of the packets that request, carry and  *)
(* complete it, and what each side may still have of an earlier one.       *)
(***************************************************************************)
EXTENDS ReplicationSessionProofs

(* Most leaves are first-order: Zenon unless a leaf names another prover.  *)
USE Zenon

(* The listener receives a packet.                                         *)
LEMMA HoldsTail ==
  ASSUME NEW S, NEW q \in Seq(S), q # <<>>, NEW types, q[1].type \notin types
  PROVE  Holds(q, types) => Holds(Tail(q), types)
<1> SUFFICES ASSUME Holds(q, types) PROVE Holds(Tail(q), types)
  OBVIOUS
<1>1. /\ Len(q) \in Nat \ {0} /\ Len(Tail(q)) = Len(q) - 1
      /\ \A i \in 1..Len(Tail(q)) : Tail(q)[i] = q[i + 1]
  BY TailAt
<1>2. PICK i \in 1..Len(q) : q[i].type \in types
  BY DEF Holds
<1>3. i # 1
  BY <1>2
<1>4. i - 1 \in 1..Len(Tail(q)) /\ (i - 1) + 1 = i
  BY <1>1, <1>3, SMT
<1>. QED
  BY <1>1, <1>2, <1>4 DEF Holds

LEMMA ReceivesFirst ==
  ASSUME TypeOK, FirstSession, NEW types, Received(types)
  PROVE  /\ lis.pc = "receive" /\ s2c[0] # <<>> /\ s2c[0] \in Seq(Reply)
         /\ Head(s2c[cur]) = s2c[0][1] /\ s2c[0][1].type \in types
         /\ 1 \in 1..Len(s2c[0]) /\ s2c'[0] = Tail(s2c[0]) /\ Part(s2c[0], s2c'[0])
<1>1. cur = 0 /\ lis.pc = "receive" /\ s2c[cur] # <<>> /\ s2c' = [s2c EXCEPT ![cur] = Tail(@)]
  BY DEF Received, FirstSession
<1>2. s2c[0] # <<>> /\ s2c[0] \in Seq(Reply) /\ s2c'[0] = Tail(s2c[0])
  BY <1>1, FirstTypes
<1>3. Head(s2c[0]) = s2c[0][1] /\ Len(s2c[0]) \in Nat \ {0} /\ Part(s2c[0], s2c'[0])
  BY <1>2, TailAt, PartTail
<1>4. Head(s2c[0]).type \in types
  BY <1>1 DEF Received
<1>. QED
  BY <1>1, <1>2, <1>3, <1>4, SMT

LEMMA ReceivedControl ==
  ASSUME TypeOK, SessionInv, FirstSession, ControlInv,
         ReceiveHash \/ ReceiveStartHashing \/ ReceiveError
  PROVE  ControlInv'
<1>1. PICK types : /\ Received(types)
                   /\ types \in {{"PayloadHash"}, {"InfoStartHashing"}, {"ErrJournalOverflow", "ErrInvalidSizes"}}
                   /\ \/ types = {"PayloadHash"} /\ hashQueue' = hashQueue \union {Head(s2c[cur])}
                      \/ hashQueue' = hashQueue
  BY DEF ReceiveHash, ReceiveStartHashing, ReceiveError
<1>2. /\ lis.pc = "receive" /\ s2c[0] # <<>> /\ s2c[0] \in Seq(Reply)
      /\ Head(s2c[cur]) = s2c[0][1] /\ s2c[0][1].type \in types
      /\ 1 \in 1..Len(s2c[0]) /\ s2c'[0] = Tail(s2c[0]) /\ Part(s2c[0], s2c'[0])
  BY <1>1, ReceivesFirst
<1>3. UNCHANGED <<c2s, link, main, hasher, current, compared, resets, mon>>
  BY <1>1 DEF Received, server, history
<1>4. UNCHANGED <<writeQueue, writer, state, ses, synced, replOn, repl>>
  BY <1>1 DEF Received, server, direct, history
<1>5. lis'.pc \in {"receive", "stopped"} /\ lis'.batch = lis.batch
  <2>1. lis' = lis \/ lis' = [lis EXCEPT !.pc = "stopped", !.tag = 0]
    BY DEF ReceiveHash, ReceiveStartHashing, ReceiveError
  <2>2. DOMAIN lis = {"pc", "batch", "tag", "read"}
    BY DEF TypeOK, ClientType
  <2>. QED
    BY <1>2, <2>1, <2>2
<1>6. s2c[0][1].type \notin Ends
  BY <1>1, <1>2 DEF Ends
<1>7. From(s2c[0], s2c'[0], Ends) /\ From(s2c[0], s2c'[0], {"PayloadHash"})
  BY <1>2, FromPart
<1>8. Announced' <=> Announced
  BY <1>2, <1>6, <1>7, FromHolds, HoldsTail DEF Announced
<1>9. Comparing' => Comparing
  <2>1. Holds(s2c'[0], {"PayloadHash"}) => Holds(s2c[0], {"PayloadHash"})
    BY <1>7, FromHolds
  <2>2. types = {"PayloadHash"} => Holds(s2c[0], {"PayloadHash"})
    BY <1>2 DEF Holds
  <2>. QED
    BY <1>1, <1>3, <2>1, <2>2 DEF Comparing
<1>10. epoch' = epoch /\ Accepted' = Accepted /\ Hashing' = Hashing /\ Up' = Up
  BY <1>3 DEF epoch, Accepted, Hashing, Up
<1>11. ScanNumbers'
  BY <1>3, <1>5, <1>7, <1>10, NumbersKept, FromSame DEF ControlInv
<1>12. EntryInv' /\ CopyInv'
  BY <1>3, <1>4, EntrySame, CopySame DEF ControlInv, CopyInv, Requesting
<1>13. HashInv'
  <2>1. Finishing' => Finishing
    BY <1>3, <1>5, <1>10, FinishingKept, FromSame
  <2>2. InOrder'
    BY <1>3 DEF ControlInv, HashInv, InOrder, Ordered, Completion
  <2>3. EndsLast(s2c'[0])
    BY <1>2, EndsLastPart DEF ControlInv, HashInv
  <2>. QED
    BY <1>3, <1>5, <1>8, <1>9, <1>10, <2>1, <2>2, <2>3, HashKept DEF ControlInv
<1>14. BatchInv'
  BY <1>2, <1>3, <1>4, <1>5 DEF ControlInv, BatchInv
<1>. QED
  BY <1>11, <1>12, <1>13, <1>14 DEF ControlInv

(* The end of the hashing is received when every hash was compared.        *)
LEMMA ReceiveHashingCompletedControl ==
  ASSUME TypeOK, SessionInv, FirstSession, ControlInv, ReceiveHashingCompleted
  PROVE  ControlInv' /\ ~Comparing' /\ Announced /\ lis'.tag = epoch
<1>1. /\ Received(Ends) /\ hashQueue = {} /\ compared = {} /\ UNCHANGED hashQueue
      /\ lis' = [lis EXCEPT !.pc = "buffer", !.tag = Head(s2c[cur]).scan]
  BY DEF ReceiveHashingCompleted, HashingDone, Ends
<1>2. /\ lis.pc = "receive" /\ s2c[0] # <<>> /\ s2c[0] \in Seq(Reply)
      /\ Head(s2c[cur]) = s2c[0][1] /\ s2c[0][1].type \in Ends
      /\ 1 \in 1..Len(s2c[0]) /\ s2c'[0] = Tail(s2c[0]) /\ Part(s2c[0], s2c'[0])
  BY <1>1, ReceivesFirst
<1>3. UNCHANGED <<c2s, link, main, hasher, current, compared, resets, mon>>
  BY <1>1 DEF Received, server, history
<1>4. UNCHANGED <<writeQueue, writer, state, ses, synced, replOn, repl>>
  BY <1>1 DEF Received, server, direct, history
<1>5. /\ lis'.pc = "buffer" /\ lis'.batch = lis.batch /\ lis'.tag = s2c[0][1].scan
      /\ s2c[0][1].scan = epoch /\ Announced
  BY <1>1, <1>2 DEF TypeOK, ClientType, ControlInv, ScanNumbers, Announced, Holds
<1>6. ~Requesting /\ ~Asked /\ ~Accepted /\ ~Hashing
  BY <1>5 DEF SessionInv, OneScan
<1>7. ~Announced'
  <2>1. Once(s2c[0], Ends)
    BY DEF SessionInv, OneScan
  <2>2. Head(s2c[0]).type \in Ends
    BY <1>2 DEF FirstSession
  <2>. QED
    BY <1>2, <2>1, <2>2, FewerTail, SMT DEF Announced
<1>8. ~Comparing'
  <2>1. /\ Len(s2c[0]) \in Nat \ {0} /\ Len(Tail(s2c[0])) = Len(s2c[0]) - 1
        /\ \A i \in 1..Len(Tail(s2c[0])) : Tail(s2c[0])[i] = s2c[0][i + 1]
    BY <1>2, TailAt
  <2>2. \A i \in 1..Len(s2c'[0]) : i + 1 \in 1..Len(s2c[0]) /\ 1 < i + 1 /\ s2c'[0][i] = s2c[0][i + 1]
    BY <1>2, <2>1, SMT
  <2>3. \A i \in 1..Len(s2c'[0]) : s2c'[0][i].type # "PayloadHash"
    BY <1>2, <2>2 DEF ControlInv, HashInv, EndsLast
  <2>. QED
    BY <1>1, <1>3, <2>3 DEF Comparing, Holds
<1>9. epoch' = epoch /\ Accepted' = Accepted /\ Hashing' = Hashing /\ Up' = Up
  BY <1>3 DEF epoch, Accepted, Hashing, Up
<1>10. current.scan = epoch
  BY <1>5 DEF ControlInv, ScanNumbers
<1>11. ScanNumbers'
  <2>1. \A i \in 1..Len(s2c'[0]) : s2c'[0][i].type \notin Ends
    BY <1>7 DEF Announced, Holds
  <2>2. \A p : Numbered(p)' <=> Numbered(p)
    BY <1>3, <1>9 DEF Numbered
  <2>3. Resetting' => Resetting
    BY <1>3, <1>5 DEF Resetting
  <2>. QED
    BY <1>3, <1>5, <1>6, <1>7, <1>9, <1>10, <2>1, <2>2, <2>3 DEF ControlInv, ScanNumbers
<1>12. EntryInv' /\ CopyInv'
  BY <1>3, <1>4, EntrySame, CopySame DEF ControlInv, CopyInv, Requesting
<1>13. HashInv'
  <2>1. Finishing' => Finishing
    BY <1>3, <1>5, <1>9, FinishingKept, FromSame
  <2>2. InOrder'
    BY <1>3 DEF ControlInv, HashInv, InOrder, Ordered, Completion
  <2>3. EndsLast(s2c'[0])
    BY <1>2, EndsLastPart DEF ControlInv, HashInv
  <2>4. ~Finishing
    BY <1>5 DEF ControlInv, HashInv
  <2>. QED
    BY <1>3, <1>7, <1>8, <1>9, <2>1, <2>2, <2>3, <2>4 DEF ControlInv, HashInv
<1>14. BatchInv'
  BY <1>2, <1>3, <1>4, <1>5 DEF ControlInv, BatchInv
<1>. QED
  BY <1>5, <1>8, <1>11, <1>12, <1>13, <1>14 DEF ControlInv

-----------------------------------------------------------------------------
(* The connection breaks or is closed.                                     *)
LEMMA CutControl ==
  ASSUME TypeOK, ControlInv, ~Up', Part(c2s[0], c2s'[0]), Part(s2c[0], s2c'[0]),
         CopyEnded(c2s[0]) => CopyEnded(c2s'[0]),
         UNCHANGED <<mon, lis, current, resets, hashQueue, compared, synced, repl>>,
         hasher' = hasher \/ hasher'.pc = "idle", main' = main \/ main' = "accept",
         state' = state \/ state' = "Disconnected", replOn' => replOn /\ main' = main, EntryInv'
  PROVE  ControlInv'
<1>1. /\ From(c2s[0], c2s'[0], Commands \union Ends) /\ From(c2s[0], c2s'[0], Ends)
      /\ From(c2s[0], c2s'[0], Commands \union {"InfoReplicationCompleted"})
      /\ From(c2s[0], c2s'[0], {"CorrectBlock"})
      /\ From(s2c[0], s2c'[0], Ends) /\ From(s2c[0], s2c'[0], {"PayloadHash"})
  BY FromPart
<1>2. /\ (Accepted' => Accepted) /\ (Hashing' => Hashing /\ hasher'.scan = hasher.scan)
      /\ epoch' = epoch /\ (Requesting' <=> Requesting)
  BY DEF Accepted, Hashing, epoch, Requesting
<1>3. ScanNumbers'
  BY <1>1, <1>2, NumbersKept DEF ControlInv
<1>4. HashInv'
  <2>1. Finishing' => Finishing
    BY <1>1, FinishingKept
  <2>2. /\ Holds(c2s'[0], {"CorrectBlock"}) => Holds(c2s[0], {"CorrectBlock"})
        /\ Announced' => Announced
        /\ Comparing' => Comparing
    BY <1>1, FromHolds DEF Announced, Comparing
  <2>3. InOrder' /\ EndsLast(s2c'[0])
    BY OrderKept, EndsLastPart DEF ControlInv, HashInv
  <2>. QED
    BY <1>2, <2>1, <2>2, <2>3, HashKept DEF ControlInv
<1>5. CopyInv'
  BY <1>1, <1>2, CopyKept DEF ControlInv, CopyInv
<1>6. BatchInv'
  BY  DEF ControlInv, BatchInv
<1>. QED
  BY <1>3, <1>4, <1>5, <1>6 DEF ControlInv

LEMMA CopyEndedPrefix ==
  ASSUME NEW S, NEW q \in Seq(S), NEW n \in 0..Len(q), CopyEnded(q)
  PROVE  CopyEnded(SubSeq(q, 1, n))
<1>1. /\ Len(q) \in Nat /\ Len(SubSeq(q, 1, n)) = n
      /\ \A i \in 1..n : SubSeq(q, 1, n)[i] = q[i]
  BY PrefixAt
<1>2. ASSUME NEW i \in 1..n, q[i].type \in Scans
      PROVE  \E j \in 1..i-1 : SubSeq(q, 1, n)[j].type = "InfoReplicationCompleted"
  <2>1. i \in 1..Len(q)
    BY <1>1, SMT
  <2>2. PICK j \in 1..i-1 : q[j].type = "InfoReplicationCompleted"
    BY <1>2, <2>1 DEF CopyEnded
  <2>3. j \in 1..n
    BY <1>1, SMT
  <2>. QED
    BY <1>1, <2>2, <2>3
<1>. QED
  BY <1>1, <1>2 DEF CopyEnded

LEMMA CopyEndedEmpty == CopyEnded(<<>>)
<1>1. Len(<<>>) = 0
  BY EmptySeq
<1>. QED
  BY <1>1, SMT DEF CopyEnded

LEMMA CloseClientConnControl ==
  ASSUME TypeOK, FirstSession, ControlInv, CloseClientConn
  PROVE  ControlInv'
<1>1. UNCHANGED <<s2c, mon, lis, current, resets, hashQueue, compared, synced, repl>>
  BY DEF CloseClientConn, client, server, workers, history
<1>2. UNCHANGED <<hasher, main, state, replOn, writeQueue, writer, ses>>
  BY DEF CloseClientConn, server, direct
<1>3. cur = 0 /\ link' = [link EXCEPT ![cur] = "dead"]
  BY DEF CloseClientConn, FirstSession
<1>4. ~Up'
  BY <1>3, FirstTypes DEF Up
<1>5. PICK m \in 0..Len(c2s[0]) : c2s'[0] = SubSeq(c2s[0], 1, m)
  BY <1>3, FirstTypes DEF CloseClientConn
<1>6. Part(c2s[0], c2s'[0]) /\ Part(s2c[0], s2c'[0]) /\ (CopyEnded(c2s[0]) => CopyEnded(c2s'[0]))
  BY <1>1, <1>5, PartPrefix, PartSame, CopyEndedPrefix, FirstTypes, SMT
<1>7. EntryInv'
  BY <1>1, <1>2, EntrySame DEF ControlInv
<1>. QED
  BY <1>1, <1>2, <1>4, <1>6, <1>7, CutControl

LEMMA BreakControl ==
  ASSUME TypeOK, FirstSession, ControlInv, NEW k \in Conns, Break(k)
  PROVE  ControlInv'
<1>1. UNCHANGED <<mon, lis, current, resets, hashQueue, compared, synced, repl>>
  BY DEF Break, client, server, workers, history
<1>2. UNCHANGED <<hasher, main, state, replOn, writeQueue, writer, ses>>
  BY DEF Break, server, direct
<1>3. EntryInv'
  BY <1>1, <1>2, EntrySame DEF ControlInv
<1>4. CASE k = 0
  <2>1. ~Up'
    BY <1>4, FirstTypes DEF Up, Break
  <2>2. PICK m \in 0..Len(c2s[0]), n \in 0..Len(s2c[0]) :
          c2s'[0] = SubSeq(c2s[0], 1, m) /\ s2c'[0] = SubSeq(s2c[0], 1, n)
    BY <1>4, FirstTypes, SMT DEF Break
  <2>3. Part(c2s[0], c2s'[0]) /\ Part(s2c[0], s2c'[0]) /\ (CopyEnded(c2s[0]) => CopyEnded(c2s'[0]))
    BY <2>2, PartPrefix, CopyEndedPrefix, FirstTypes, SMT
  <2>. QED
    BY <1>1, <1>2, <1>3, <2>1, <2>3, CutControl
<1>5. CASE k # 0
  <2>1. c2s'[0] = c2s[0] /\ s2c'[0] = s2c[0] /\ link'[0] = link[0]
    BY <1>5, FirstTypes DEF Break
  <2>. QED
    BY <1>1, <1>2, <2>1, ElsewhereControl
<1>. QED
  BY <1>4, <1>5

-----------------------------------------------------------------------------
(* ProcessBuffer, the resumption of the monitor, and DetectClosed.         *)
LEMMA ListenerControl ==
  ASSUME TypeOK, SessionInv, FirstSession, ControlInv, SendBuffer \/ Resume \/ DetectClosed
  PROVE  ControlInv'
<1>1. UNCHANGED <<c2s, s2c, link, main, hasher, current, hashQueue, compared, resets, mon>>
  BY DEF SendBuffer, Resume, DetectClosed, net, workers, server, history
<1>2. UNCHANGED <<writeQueue, writer, state, ses, synced, replOn, repl>>
  BY DEF SendBuffer, Resume, DetectClosed, server, direct, workers, history
<1>3. /\ epoch' = epoch /\ Accepted' = Accepted /\ Hashing' = Hashing /\ Announced' = Announced
      /\ Comparing' = Comparing /\ Up' = Up
  BY <1>1 DEF epoch, Accepted, Hashing, Announced, Comparing, Up
<1>4. EntryInv' /\ CopyInv'
  BY <1>1, <1>2, EntrySame, CopySame DEF ControlInv, CopyInv, Requesting
<1>5. InOrder' /\ EndsLast(s2c'[0])
  BY <1>1 DEF ControlInv, HashInv, InOrder, Ordered, Completion
<1>6. CASE SendBuffer
  <2>1. /\ lis.pc = "buffer" /\ lis'.pc \in {"send", "resume", "reset"}
        /\ lis'.pc # "reset" => lis'.read = epoch /\ lis'.tag = lis.tag
        /\ lis'.pc # "send" => lis'.batch = <<>>
    <3>1. /\ lis.pc = "buffer"
          /\ \/ lis' = [lis EXCEPT !.pc = IF fresh = <<>> THEN "resume" ELSE "send",
                                  !.batch = fresh, !.read = epoch]
             \/ lis' = [lis EXCEPT !.pc = "reset", !.tag = 0]
      BY <1>6 DEF SendBuffer
    <3>2. DOMAIN lis = {"pc", "batch", "tag", "read"}
      BY DEF TypeOK, ClientType
    <3>3. lis.batch = <<>>
      BY <3>1 DEF ControlInv, BatchInv
    <3>. QED
      BY <3>1, <3>2, <3>3
  <2>2. lis.tag = epoch /\ current.scan = epoch /\ ~Comparing
    BY <2>1 DEF ControlInv, ScanNumbers, HashInv
  <2>3. ~Accepted /\ ~Hashing /\ ~Announced
    BY <2>1 DEF SessionInv, OneScan, Completing
  <2>4. ScanNumbers'
    <3>1. \A p : Numbered(p)' <=> Numbered(p)
      BY <1>1, <1>3 DEF Numbered
    <3>2. Resetting' => Resetting
      BY <1>1, <2>1 DEF Resetting
    <3>. QED
      BY <1>1, <1>3, <2>1, <2>2, <3>1, <3>2 DEF ControlInv, ScanNumbers
  <2>5. HashInv'
    <3>1. ~Finishing
      BY <2>1 DEF ControlInv, HashInv
    <3>2. ~(main' = "complete" /\ ~current'.cut)
      BY <1>1, <3>1 DEF Finishing
    <3>. QED
      BY <1>1, <1>3, <1>5, <2>1, <2>2, <2>3, <3>2 DEF ControlInv, HashInv
  <2>6. BatchInv'
    BY <1>1, <1>2, <2>1 DEF ControlInv, BatchInv
  <2>. QED
    BY <1>4, <2>4, <2>5, <2>6 DEF ControlInv
<1>7. CASE Resume \/ DetectClosed
  <2>1. /\ lis'.tag = lis.tag /\ lis'.read = lis.read /\ lis'.batch = lis.batch /\ lis.pc # "send"
        /\ lis'.pc # "send" /\ (lis'.pc = "dial" \/ (lis.pc = "resume" /\ lis'.pc = "complete"))
    BY <1>7 DEF Resume, DetectClosed, TypeOK, ClientType
  <2>2. ScanNumbers'
    BY <1>1, <1>3, <2>1, NumbersKept, FromSame DEF ControlInv
  <2>3. Finishing' => Finishing
    BY <1>1, <1>3, <2>1, FinishingKept, FromSame
  <2>4. HashInv'
    BY <1>1, <1>3, <1>5, <2>1, <2>3, HashKept DEF ControlInv
  <2>5. BatchInv'
    BY <1>1, <1>2, <2>1 DEF ControlInv, BatchInv
  <2>. QED
    BY <1>4, <2>2, <2>4, <2>5 DEF ControlInv
<1>. QED
  BY <1>6, <1>7

LEMMA SendHashingCompletedControl ==
  ASSUME TypeOK, SessionInv, FirstSession, ControlInv, SendHashingCompleted
  PROVE  ControlInv'
<1>1. UNCHANGED <<s2c, link, main, hasher, current, hashQueue, compared, resets, mon>>
  BY DEF SendHashingCompleted, workers, server, history
<1>2. UNCHANGED <<writeQueue, writer, state, ses, synced, replOn, repl>>
  BY DEF SendHashingCompleted, server, direct, workers, history
<1>3. /\ epoch' = epoch /\ Accepted' = Accepted /\ Hashing' = Hashing /\ Announced' = Announced
      /\ Comparing' = Comparing /\ Up' = Up
  BY <1>1 DEF epoch, Accepted, Hashing, Announced, Comparing, Up
<1>4. lis.pc = "complete" /\ lis'.pc = "receive" /\ lis'.batch = lis.batch
  BY DEF SendHashingCompleted, TypeOK, ClientType
<1>5. lis.tag = lis.read /\ lis.tag <= current.scan
  BY <1>4 DEF ControlInv, ScanNumbers
<1>6. PICK p : p = [type |-> "InfoHashingCompleted", scan |-> lis.tag] /\ ToServer(p)
  BY <1>5 DEF SendHashingCompleted
<1>7. p.type = "InfoHashingCompleted" /\ p.scan = lis.tag
  BY <1>6
<1>8. Up /\ c2s'[0] = Append(c2s[0], p)
  BY <1>6, SendsFirst
<1>9. /\ Len(c2s[0]) \in Nat /\ Len(c2s'[0]) = Len(c2s[0]) + 1 /\ c2s'[0][Len(c2s[0]) + 1] = p
      /\ \A i \in 1..Len(c2s[0]) : c2s'[0][i] = c2s[0][i]
  BY <1>8, FirstTypes, AppendAt, SMT
<1>10. /\ From(c2s[0], c2s'[0], Commands \union {"InfoReplicationCompleted"})
       /\ From(c2s[0], c2s'[0], {"CorrectBlock"})
       /\ (CopyEnded(c2s[0]) => CopyEnded(c2s'[0]))
       /\ \A types : Holds(c2s[0], types) => Holds(c2s'[0], types)
  <2>1. p.type \notin Commands \union {"InfoReplicationCompleted"} /\ p.type \notin {"CorrectBlock"} /\ p.type \notin Scans
    BY <1>7 DEF Commands, Scans, Copies
  <2>. QED
    BY <1>8, <2>1, FromAppend, FirstTypes, CopyEndedSent, SMT
<1>11. ScanNumbers'
  <2>1. Numbered(p)
    BY <1>5, <1>7 DEF Numbered, Commands, Scans, Copies
  <2>2. \A i \in 1..Len(c2s'[0]) : Numbered(c2s'[0][i])
    BY <1>8, <2>1, NumberedSent DEF ControlInv
  <2>3. Resetting' => \A i \in 1..Len(c2s'[0]) : c2s'[0][i].type \in Commands => c2s'[0][i].scan < epoch
    <3>1. Resetting' => Resetting
      BY <1>1, <1>4 DEF Resetting
    <3>. QED
      BY <1>10, <3>1 DEF From, ControlInv, ScanNumbers
  <2>. QED
    BY <1>1, <1>3, <1>4, <2>2, <2>3, NumbersStay, FromSame DEF ControlInv
<1>12. EntryInv'
  BY <1>1, <1>2, EntrySame DEF ControlInv
<1>13. HashInv'
  <2>1. Finishing' => Finishing
    <3>1. ASSUME NEW i \in 1..Len(c2s'[0]), Completion(c2s'[0][i])
          PROVE  Finishing
      <4>1. CASE i \in 1..Len(c2s[0])
        BY <1>9, <3>1, <4>1 DEF Finishing
      <4>2. CASE i \notin 1..Len(c2s[0])
        <5>1. i = Len(c2s[0]) + 1
          BY <1>9, <4>2, SMT
        <5>. QED
          BY <1>4, <1>7, <1>8, <1>9, <3>1, <5>1 DEF Finishing, Completion
      <4>. QED
        BY <4>1, <4>2
    <3>2. \A q : Completion(q)' <=> Completion(q)
      BY <1>1 DEF Completion
    <3>. QED
      BY <1>1, <1>4, <3>1, <3>2 DEF Finishing
  <2>2. \A q : Ordered(q, p)
    BY <1>7 DEF Ordered, Copies, Commands, Scans
  <2>3. InOrder' /\ EndsLast(s2c'[0])
    BY <1>1, <1>8, <2>2, OrderSent DEF ControlInv, HashInv
  <2>4. Holds(c2s'[0], {"CorrectBlock"}) => Holds(c2s[0], {"CorrectBlock"})
    BY <1>10, FromHolds
  <2>. QED
    BY <1>1, <1>3, <1>4, <2>1, <2>3, <2>4, HashKept DEF ControlInv
<1>14. CopyInv'
  BY <1>1, <1>2, <1>3, <1>10, CopyKept DEF ControlInv, CopyInv, Requesting
<1>15. BatchInv'
  BY <1>1, <1>2, <1>4 DEF ControlInv, BatchInv
<1>. QED
  BY <1>11, <1>12, <1>13, <1>14, <1>15 DEF ControlInv
-----------------------------------------------------------------------------
(* The workers of InitHashing and InitReplication.                         *)
LEMMA CompareHashControl ==
  ASSUME TypeOK, FirstSession', FirstSession, ControlInv, NEW h \in hashQueue, CompareHash(h)
  PROVE  ControlInv'
<1>1. UNCHANGED <<c2s, s2c, link, main, hasher, current, resets, mon, lis>>
  BY DEF CompareHash, net, server, history
<1>2. UNCHANGED <<writeQueue, writer, state, ses, synced, replOn, repl>>
  BY DEF CompareHash, server, direct, history
<1>3. \A p \in compared' : p \in compared \/ p.type = "CorrectBlock"
  <2>1. errors = 0 /\ errors' = 0
    BY DEF FirstSession
  <2>2. compared' \subseteq compared \union {[type |-> "CorrectBlock", blk |-> h.blk,
                                              val |-> source[h.blk], tag |-> epoch]}
    BY <2>1 DEF CompareHash
  <2>. QED
    BY <2>2, SMT
<1>4. /\ epoch' = epoch /\ Accepted' = Accepted /\ Hashing' = Hashing /\ Announced' = Announced
      /\ Comparing /\ Up' = Up
  BY <1>1 DEF epoch, Accepted, Hashing, Announced, Comparing, Up
<1>5. EntryInv' /\ CopyInv' /\ ScanNumbers'
  BY <1>1, <1>2, <1>4, EntrySame, CopySame, NumbersSame DEF ControlInv, CopyInv, Requesting
<1>6. HashInv'
  <2>1. InOrder' /\ EndsLast(s2c'[0])
    BY <1>1 DEF ControlInv, HashInv, InOrder, Ordered, Completion
  <2>2. Finishing' => Finishing
    BY <1>1, <1>4, FinishingKept, FromSame
  <2>. QED
    BY <1>1, <1>4, <2>1, <2>2, HashKept DEF ControlInv
<1>7. BatchInv'
  BY <1>1, <1>2, <1>3 DEF ControlInv, BatchInv
<1>. QED
  BY <1>5, <1>6, <1>7 DEF ControlInv


(* A correct block is sent while the hashing runs or before its end was    *)
(* received.                                                               *)
LEMMA SendCorrectBlockControl ==
  ASSUME TypeOK, SessionInv, FirstSession, ControlInv, NEW p \in compared, SendCorrectBlock(p)
  PROVE  ControlInv'
<1>1. UNCHANGED <<s2c, link, main, hasher, current, resets, mon, lis, hashQueue>>
  BY DEF SendCorrectBlock, server, history
<1>2. UNCHANGED <<writeQueue, writer, state, ses, synced, replOn, repl>>
  BY DEF SendCorrectBlock, server, direct, history
<1>3. ToServer(p) /\ compared' = compared \ {p} /\ p.type = "CorrectBlock"
  BY  DEF SendCorrectBlock, ControlInv, BatchInv
<1>4. Up /\ c2s'[0] = Append(c2s[0], p)
  BY <1>3, SendsFirst
<1>5. /\ epoch' = epoch /\ Accepted' = Accepted /\ Hashing' = Hashing /\ Announced' = Announced
      /\ Comparing /\ Up' = Up
  BY <1>1 DEF epoch, Accepted, Hashing, Announced, Comparing, Up
<1>6. hasher.pc = "hash" \/ Announced
  BY <1>4, <1>5 DEF ControlInv, HashInv
<1>7. ~Finishing /\ ~Asked /\ ~Accepted /\ hasher.pc # "reset" /\ lis.pc # "buffer"
  BY <1>5, <1>6 DEF ControlInv, HashInv, SessionInv, OneScan, Hashing
<1>8. p.type \notin Commands \union Ends /\ p.type \notin Commands \union {"InfoReplicationCompleted"} /\ p.type \notin Ends /\ p.type \notin Scans
  BY <1>3 DEF Commands, Scans, Copies, Ends
<1>9. /\ From(c2s[0], c2s'[0], Commands \union Ends) /\ From(c2s[0], c2s'[0], Ends)
      /\ From(c2s[0], c2s'[0], Commands \union {"InfoReplicationCompleted"})
      /\ (CopyEnded(c2s[0]) => CopyEnded(c2s'[0]))
      /\ \A types : Holds(c2s[0], types) => Holds(c2s'[0], types)
  BY <1>4, <1>8, FromAppend, FirstTypes, CopyEndedSent, SMT
<1>10. EntryInv' /\ ScanNumbers'
  BY <1>1, <1>2, <1>5, <1>9, EntrySame, NumbersKept, FromSame DEF ControlInv
<1>11. CopyInv'
  BY <1>1, <1>2, <1>5, <1>9, CopyKept DEF ControlInv, CopyInv, Requesting
<1>12. HashInv'
  <2>1. \A i \in 1..Len(c2s[0]) : Ordered(c2s[0][i], p)
    BY <1>3, <1>7 DEF Ordered, Finishing, Asked, Holds, Copies, Commands, Scans
  <2>2. InOrder' /\ EndsLast(s2c'[0])
    BY <1>1, <1>4, <2>1, OrderSent DEF ControlInv, HashInv
  <2>3. ~Finishing'
    BY <1>1, <1>5, <1>7, <1>9, FinishingKept
  <2>4. ~(main' = "complete" /\ ~current'.cut)
    BY <2>3 DEF Finishing
  <2>. QED
    BY <1>1, <1>5, <1>6, <1>7, <2>2, <2>3, <2>4 DEF ControlInv, HashInv
<1>13. BatchInv'
  BY <1>1, <1>2, <1>3 DEF ControlInv, BatchInv
<1>. QED
  BY <1>10, <1>11, <1>12, <1>13 DEF ControlInv

LEMMA CopyLocalControl ==
  ASSUME TypeOK, SessionInv, FirstSession, ControlInv, ReplicationResume \/ \E b \in repl.todo : ReadBlock(b)
  PROVE  ControlInv'
<1>1. UNCHANGED <<c2s, s2c, link, main, hasher, current, resets, mon, lis, hashQueue, compared>>
  <2>1. CASE ReplicationResume
    BY <2>1 DEF ReplicationResume, net, server
  <2>2. CASE \E b \in repl.todo : ReadBlock(b)
    BY <2>2 DEF ReadBlock, net, server
  <2>. QED
    BY <2>1, <2>2
<1>2. UNCHANGED <<writeQueue, writer, state, ses, synced, replOn>>
  <2>1. CASE ReplicationResume
    BY <2>1 DEF ReplicationResume, server, direct
  <2>2. CASE \E b \in repl.todo : ReadBlock(b)
    BY <2>2 DEF ReadBlock, server, direct
  <2>. QED
    BY <2>1, <2>2
<1>3. repl'.pc = repl.pc \/ (repl.pc = "resume" /\ repl'.pc = "off")
  <2>1. CASE ReplicationResume
    BY <2>1 DEF ReplicationResume, TypeOK, WorkersType
  <2>2. CASE \E b \in repl.todo : ReadBlock(b)
    BY <2>2 DEF ReadBlock, TypeOK, WorkersType
  <2>. QED
    BY <2>1, <2>2
<1>4. \A p \in repl'.read : p \in repl.read \/ p.type = "ReplicationBlock"
  <2>1. CASE ReplicationResume
    BY <2>1 DEF ReplicationResume, TypeOK, WorkersType
  <2>2. CASE \E b \in repl.todo : ReadBlock(b)
    <3>1. PICK b \in repl.todo : ReadBlock(b)
      BY <2>2
    <3>2. repl'.read = repl.read \/ repl'.read = repl.read \union {[type |-> "ReplicationBlock", blk |-> b,
                                                                    val |-> source[b], tag |-> repl.tag]}
      BY <3>1 DEF ReadBlock, TypeOK, WorkersType
    <3>. QED
      BY <3>2, SMT
  <2>. QED
    BY <2>1, <2>2
<1>5. epoch' = epoch /\ Up' = Up
  BY <1>1 DEF epoch, Up
<1>6. EntryInv' /\ ScanNumbers' /\ HashInv'
  BY <1>1, <1>2, <1>5, EntrySame, NumbersSame, HashSame DEF ControlInv
<1>7. CopyInv'
  BY <1>1, <1>2, <1>3, <1>5, CopyKept, FromSame DEF ControlInv, CopyInv, Requesting
<1>8. BatchInv'
  BY <1>1, <1>4 DEF ControlInv, BatchInv
<1>. QED
  BY <1>6, <1>7, <1>8 DEF ControlInv

LEMMA SendReplicationCompletedControl ==
  ASSUME TypeOK, SessionInv, FirstSession, ControlInv, SendReplicationCompleted
  PROVE  ControlInv'
<1>1. UNCHANGED <<s2c, link, main, hasher, current, resets, mon, lis, hashQueue, compared>>
  BY DEF SendReplicationCompleted, server, history
<1>2. UNCHANGED <<writeQueue, writer, state, ses, synced, replOn>>
  BY DEF SendReplicationCompleted, server, direct, history
<1>3. repl.pc = "copy" /\ repl'.pc = "resume" /\ repl'.read = repl.read
  BY DEF SendReplicationCompleted, TypeOK, WorkersType
<1>4. PICK p : p = [type |-> "InfoReplicationCompleted", scan |-> repl.tag] /\ ToServer(p)
  BY DEF SendReplicationCompleted
<1>5. p.type = "InfoReplicationCompleted"
  BY <1>4
<1>6. Up /\ c2s'[0] = Append(c2s[0], p)
  BY <1>4, SendsFirst
<1>7. /\ Len(c2s[0]) \in Nat /\ Len(c2s'[0]) = Len(c2s[0]) + 1 /\ c2s'[0][Len(c2s[0]) + 1] = p
  BY <1>6, FirstTypes, AppendAt, SMT
<1>8. /\ epoch' = epoch /\ Accepted' = Accepted /\ Hashing' = Hashing /\ Announced' = Announced
      /\ Comparing' = Comparing /\ Up' = Up
  BY <1>1 DEF epoch, Accepted, Hashing, Announced, Comparing, Up
<1>9. /\ From(c2s[0], c2s'[0], Commands \union Ends) /\ From(c2s[0], c2s'[0], Ends)
      /\ From(c2s[0], c2s'[0], Copies) /\ From(c2s[0], c2s'[0], {"CorrectBlock"})
      /\ (CopyEnded(c2s[0]) => CopyEnded(c2s'[0]))
  <2>1. /\ p.type \notin Commands \union Ends /\ p.type \notin Copies /\ p.type \notin {"CorrectBlock"}
        /\ p.type \notin Ends /\ p.type \notin Scans
    BY <1>5 DEF Commands, Scans, Copies, Ends
  <2>. QED
    BY <1>6, <2>1, FromAppend, FirstTypes, CopyEndedSent, SMT
<1>10. EntryInv' /\ ScanNumbers'
  BY <1>1, <1>2, <1>8, <1>9, EntrySame, NumbersKept, FromSame DEF ControlInv
<1>11. HashInv'
  <2>1. \A q : Ordered(q, p)
    BY <1>5 DEF Ordered, Copies, Commands, Scans
  <2>2. InOrder' /\ EndsLast(s2c'[0])
    BY <1>1, <1>6, <2>1, OrderSent DEF ControlInv, HashInv
  <2>3. Finishing' => Finishing
    BY <1>1, <1>8, <1>9, FinishingKept
  <2>4. Holds(c2s'[0], {"CorrectBlock"}) => Holds(c2s[0], {"CorrectBlock"})
    BY <1>9, FromHolds
  <2>. QED
    BY <1>1, <1>8, <2>2, <2>3, <2>4, HashKept DEF ControlInv
<1>12. CopyInv'
  <2>1. mon.kind = "scan"
    BY <1>3 DEF SessionInv, OneScan, Copying, ControlInv, CopyInv
  <2>2. /\ Holds(c2s'[0], Copies) => Holds(c2s[0], Copies)
        /\ Holds(c2s'[0], {"InfoStartReplication"}) => Holds(c2s[0], {"InfoStartReplication"})
    BY <1>9, FromHolds DEF Copies
  <2>3. CopyOpen' => CopyOpen
    BY <1>1, <1>2, <2>2 DEF CopyOpen
  <2>4. Holds(c2s'[0], {"InfoReplicationCompleted"})
    BY <1>5, <1>7, SMT DEF Holds
  <2>. QED
    BY <1>1, <1>2, <1>9, <2>1, <2>2, <2>3, <2>4 DEF ControlInv, CopyInv
<1>13. BatchInv'
  BY <1>1, <1>3 DEF ControlInv, BatchInv
<1>. QED
  BY <1>10, <1>11, <1>12, <1>13 DEF ControlInv

-----------------------------------------------------------------------------
(* The server.                                                             *)
LEMMA CopyEndedTail ==
  ASSUME NEW S, NEW q \in Seq(S), q # <<>>, CopyEnded(q), q[1].type # "InfoReplicationCompleted"
  PROVE  CopyEnded(Tail(q))
<1>1. /\ Len(q) \in Nat \ {0} /\ Len(Tail(q)) = Len(q) - 1
      /\ \A i \in 1..Len(Tail(q)) : Tail(q)[i] = q[i + 1]
  BY TailAt
<1>2. ASSUME NEW i \in 1..Len(Tail(q)), Tail(q)[i].type \in Scans
      PROVE  \E j \in 1..i-1 : Tail(q)[j].type = "InfoReplicationCompleted"
  <2>1. i + 1 \in 1..Len(q) /\ q[i + 1].type \in Scans /\ (i + 1) - 1 = i
    BY <1>1, <1>2, SMT
  <2>2. PICK j \in 1..i : q[j].type = "InfoReplicationCompleted"
    BY <2>1 DEF CopyEnded
  <2>3. j # 1
    BY <2>2
  <2>4. j - 1 \in 1..i-1 /\ j - 1 \in 1..Len(Tail(q)) /\ (j - 1) + 1 = j
    BY <1>1, <2>3, SMT
  <2>. QED
    BY <1>1, <2>2, <2>4
<1>. QED
  BY <1>2 DEF CopyEnded

(* The server takes a packet that ends no copy, or none.                   *)
LEMMA TakenFirst ==
  ASSUME TypeOK, c2s[0] # <<>>, c2s'[0] = Tail(c2s[0]), c2s[0][1].type # "InfoReplicationCompleted"
  PROVE  /\ Part(c2s[0], c2s'[0]) /\ (CopyEnded(c2s[0]) => CopyEnded(c2s'[0]))
         /\ Holds(c2s[0], {"InfoReplicationCompleted"}) => Holds(c2s'[0], {"InfoReplicationCompleted"})
BY FirstTypes, PartTail, CopyEndedTail, HoldsTail, SMT

LEMMA AnsweredFirst ==
  ASSUME TypeOK, ControlInv, ses = 0, NEW p, ToClient(p), p.type \notin {"PayloadHash", "InfoHashingCompleted"}
  PROVE  /\ From(s2c[0], s2c'[0], Ends) /\ From(s2c[0], s2c'[0], {"PayloadHash"})
         /\ EndsLast(s2c'[0]) /\ (Announced => Announced')
<1>1. EndsLast(s2c[0]) /\ s2c[0] \in Seq(Reply)
  BY FirstTypes DEF ControlInv, HashInv
<1>2. p.type \notin Ends /\ p.type \notin {"PayloadHash"}
  BY DEF Ends
<1>3. CASE s2c'[0] = Append(s2c[0], p)
  <2>1. From(s2c[0], s2c'[0], Ends) /\ From(s2c[0], s2c'[0], {"PayloadHash"}) /\ EndsLast(s2c'[0])
    BY <1>1, <1>2, <1>3, FromAppend, EndsLastAppend
  <2>2. /\ Len(s2c[0]) \in Nat /\ Len(s2c'[0]) = Len(s2c[0]) + 1
        /\ \A i \in 1..Len(s2c[0]) : s2c'[0][i] = s2c[0][i]
    BY <1>1, <1>3, AppendAt, SMT
  <2>3. \A i \in 1..Len(s2c[0]) : i \in 1..Len(s2c'[0])
    BY <2>2, SMT
  <2>. QED
    BY <2>1, <2>2, <2>3 DEF Announced, Holds
<1>4. CASE s2c' = s2c
  BY <1>1, <1>4, FromSame DEF Announced
<1>. QED
  BY <1>3, <1>4, AnswersFirst

LEMMA ServerSteady ==
  ASSUME ControlInv, Part(c2s[0], c2s'[0]), CopyEnded(c2s[0]) => CopyEnded(c2s'[0]),
         Holds(c2s[0], {"InfoReplicationCompleted"}) => Holds(c2s'[0], {"InfoReplicationCompleted"}),
         From(s2c[0], s2c'[0], Ends), From(s2c[0], s2c'[0], {"PayloadHash"}),
         EndsLast(s2c'[0]), Announced => Announced',
         UNCHANGED <<link, mon, lis, resets, hashQueue, compared, repl, hasher>>,
         current'.scan = current.scan,
         main' = "complete" /\ ~current'.cut => Finishing /\ ~Holds(c2s'[0], {"CorrectBlock"}),
         main' \in {"init", "leave"} /\ Up => main \in {"init", "leave"} \/ hasher.pc = "idle",
         main' \in {"start", "startFull", "startCopy"} => main' = main,
         synced' = "prefix" \/ state' = "Hashing" => synced = "prefix" \/ state = "Hashing",
         state' = "DestroyingReplica" => state = "DestroyingReplica",
         replOn' => replOn /\ (main = "copied" => main' = "copied"), EntryInv'
  PROVE  ControlInv'
<1>1. /\ From(c2s[0], c2s'[0], Commands \union Ends) /\ From(c2s[0], c2s'[0], Ends)
      /\ From(c2s[0], c2s'[0], Commands \union {"InfoReplicationCompleted"})
      /\ From(c2s[0], c2s'[0], {"CorrectBlock"})
  BY FromPart
<1>2. /\ (Accepted' => Accepted) /\ Hashing' = Hashing /\ Up' = Up
      /\ epoch' = epoch /\ (Requesting' <=> Requesting)
  BY  DEF Accepted, Hashing, epoch, Requesting, Up
<1>3. ScanNumbers'
  BY <1>1, <1>2, NumbersKept DEF ControlInv
<1>4. HashInv'
  <2>1. /\ Holds(c2s'[0], {"CorrectBlock"}) => Holds(c2s[0], {"CorrectBlock"})
        /\ Announced' => Announced
        /\ Comparing' => Comparing
    BY <1>1, FromHolds DEF Announced, Comparing
  <2>2. InOrder'
    BY OrderKept DEF ControlInv, HashInv
  <2>3. Finishing' => Finishing
    <3>1. \A p : Completion(p)' <=> Completion(p)
      BY  DEF Completion
    <3>2. ASSUME NEW i \in 1..Len(c2s'[0]), Completion(c2s'[0][i])
          PROVE  \E j \in 1..Len(c2s[0]) : Completion(c2s[0][j])
      BY <1>1, <3>2 DEF From, Completion, Ends
    <3>. QED
      BY <1>2, <3>1, <3>2 DEF Finishing
  <2>. QED
    BY <1>2, <2>1, <2>2, <2>3 DEF ControlInv, HashInv, Hashing
<1>5. CopyInv'
  BY <1>1, <1>2, CopyKept DEF ControlInv, CopyInv
<1>6. BatchInv'
  BY  DEF ControlInv, BatchInv
<1>. QED
  BY <1>3, <1>4, <1>5, <1>6 DEF ControlInv

(* The same when nothing is sent to the client.                            *)
LEMMA QuietKept ==
  ASSUME TypeOK, ControlInv, s2c' = s2c,
         c2s' = c2s \/ (c2s[0] # <<>> /\ c2s'[0] = Tail(c2s[0]) /\ c2s[0][1].type # "InfoReplicationCompleted"),
         UNCHANGED <<link, mon, lis, resets, hashQueue, compared, repl, hasher>>,
         current'.scan = current.scan,
         main' = "complete" /\ ~current'.cut => Finishing /\ ~Holds(c2s'[0], {"CorrectBlock"}),
         main' \in {"init", "leave"} /\ Up => main \in {"init", "leave"} \/ hasher.pc = "idle",
         main' \in {"start", "startFull", "startCopy"} => main' = main,
         synced' = "prefix" \/ state' = "Hashing" => synced = "prefix" \/ state = "Hashing",
         state' = "DestroyingReplica" => state = "DestroyingReplica",
         replOn' => replOn /\ (main = "copied" => main' = "copied"), EntryInv'
  PROVE  ControlInv'
<1>1. /\ Part(c2s[0], c2s'[0]) /\ (CopyEnded(c2s[0]) => CopyEnded(c2s'[0]))
      /\ Holds(c2s[0], {"InfoReplicationCompleted"}) => Holds(c2s'[0], {"InfoReplicationCompleted"})
  BY TakenFirst, PartSame, FirstTypes
<1>2. /\ From(s2c[0], s2c'[0], Ends) /\ From(s2c[0], s2c'[0], {"PayloadHash"})
      /\ EndsLast(s2c'[0]) /\ (Announced => Announced')
  BY FromSame DEF ControlInv, HashInv, Announced
<1>. QED
  BY <1>1, <1>2, ServerSteady


LEMMA AcceptClientControl ==
  ASSUME TypeOK, FirstSession, ControlInv, AcceptClient
  PROVE  ControlInv'
<1>1. main = "accept" /\ ses < cur /\ cur = 0 /\ ses \in -1..cur
  BY DEF AcceptClient, FirstSession, TypeOK, ServerType
<1>2. ses = -1
  BY <1>1, SMT
<1>3. hasher.pc = "idle" /\ writeQueue[0] = <<>> /\ writer[0] = <<>>
  BY <1>2 DEF TypeOK, ServerType, ControlInv, EntryInv
<1>4. UNCHANGED <<c2s, s2c, link, mon, lis, resets, hashQueue, compared, repl, hasher>>
  BY DEF AcceptClient, net, client, workers
<1>5. UNCHANGED <<synced, replOn, writeQueue, writer, current>> /\ state' = "Writing" /\ main' = "init" /\ ses' = 0
  BY <1>2, SMT DEF AcceptClient, direct
<1>6. EntryInv'
  <2>1. Len(<<>>) = 0 /\ Range(<<>>) = {}
    BY EmptySeq, SMT DEF Range
  <2>. QED
    BY <1>3, <1>5, <2>1, SMT DEF EntryInv, Entries
<1>. QED
  BY <1>1, <1>3, <1>4, <1>5, <1>6, QuietKept

LEMMA DetectDisconnectControl ==
  ASSUME TypeOK, FirstSession, ControlInv, DetectDisconnect
  PROVE  ControlInv'
<1>1. ses = 0 /\ ~Up
  <2>1. ses = 0
    BY ServesFirst DEF DetectDisconnect, TypeOK, ServerType
  <2>. QED
    BY <2>1 DEF DetectDisconnect, Dead, Up
<1>2. UNCHANGED <<c2s, s2c, link, mon, lis, resets, hashQueue, compared, repl, hasher>>
  BY  DEF DetectDisconnect, net, client, workers, history
<1>3. UNCHANGED <<synced, replOn, writeQueue, writer, current, state, ses>> /\ main' = "leave" /\ main = "receive"
  BY  DEF DetectDisconnect, direct, history
<1>4. EntryInv'
  BY <1>3, EntrySame DEF ControlInv
<1>. QED
  BY <1>1, <1>2, <1>3, <1>4, QuietKept

LEMMA HandleInitControl ==
  ASSUME TypeOK, FirstSession, ControlInv, InitInv, HandleInit
  PROVE  ControlInv'
<1>1. ses = 0 /\ main = "init" /\ main' \in {"receive", "leave"}
  BY ServesFirst DEF HandleInit, CheckValidSizes, TypeOK, ServerType
<1>2. UNCHANGED <<link, mon, lis, resets, hashQueue, compared, repl, hasher>>
  BY  DEF HandleInit, client, workers, history
<1>3. UNCHANGED <<synced, replOn, writeQueue, writer, current, state, ses>>
  BY  DEF HandleInit, direct, history
<1>4. EntryInv'
  BY <1>3, EntrySame DEF ControlInv
<1>5. c2s' = c2s \/ (c2s[0] # <<>> /\ c2s'[0] = Tail(c2s[0]) /\ c2s[0][1].type # "InfoReplicationCompleted")
  <2>1. c2s' = c2s \/ (c2s[0] # <<>> /\ c2s'[0] = Tail(c2s[0]))
    BY <1>1, FirstTypes DEF HandleInit, WaitForInitInfo
  <2>. QED
    BY <1>1, <2>1 DEF InitInv
<1>6. CASE s2c' = s2c
  BY <1>1, <1>2, <1>3, <1>4, <1>5, <1>6, QuietKept
<1>7. CASE s2c' # s2c
  <2>1. PICK p : p = [type |-> "ErrInvalidSizes"] /\ ToClient(p)
    BY <1>7 DEF HandleInit, CheckValidSizes
  <2>2. p.type \notin {"PayloadHash", "InfoHashingCompleted"}
    BY <2>1
  <2>3. /\ From(s2c[0], s2c'[0], Ends) /\ From(s2c[0], s2c'[0], {"PayloadHash"})
        /\ EndsLast(s2c'[0]) /\ (Announced => Announced')
    BY <1>1, <2>1, <2>2, AnsweredFirst
  <2>4. /\ Part(c2s[0], c2s'[0]) /\ (CopyEnded(c2s[0]) => CopyEnded(c2s'[0]))
        /\ Holds(c2s[0], {"InfoReplicationCompleted"}) => Holds(c2s'[0], {"InfoReplicationCompleted"})
    BY <1>5, TakenFirst, PartSame, FirstTypes
  <2>. QED
    BY <1>1, <1>2, <1>3, <1>4, <2>3, <2>4, ServerSteady
<1>. QED
  BY <1>6, <1>7

-----------------------------------------------------------------------------
(* Packets that belong to a scan or a copy arrive.                         *)
LEMMA ArrivedSame ==
  ASSUME NEW type, Arrived(type)
  PROVE  /\ UNCHANGED <<s2c, link, mon, lis, resets, hashQueue, compared, repl, hasher>>
         /\ UNCHANGED <<synced, replOn, writer, ses>>
BY DEF Arrived, client, workers

LEMMA BlockArrivesControl ==
  ASSUME TypeOK, FirstSession, ControlInv, HandleCorrectBlock \/ HandleReplicationBlock
  PROVE  ControlInv'
<1>1. PICK type \in {"CorrectBlock", "ReplicationBlock"} : Arrived(type)
  BY  DEF HandleCorrectBlock, HandleReplicationBlock
<1>2. /\ main = "receive" /\ c2s[0] # <<>> /\ Head(c2s[0]).type = type
      /\ c2s'[0] = Tail(c2s[0]) /\ Head(c2s[0]) = c2s[0][1]
  BY <1>1, ArrivesFirst
<1>3. UNCHANGED <<current, state, main, writeQueue>>
  BY  DEF HandleCorrectBlock, HandleReplicationBlock
<1>4. EntryInv'
  BY <1>1, <1>3, ArrivedSame, EntrySame DEF ControlInv
<1>. QED
  BY <1>1, <1>2, <1>3, <1>4, ArrivedSame, QuietKept

LEMMA RangeAppend ==
  ASSUME NEW S, NEW q \in Seq(S), NEW e
  PROVE  Range(Append(q, e)) = Range(q) \union {e}
<1>1. /\ Len(q) \in Nat /\ Len(Append(q, e)) = Len(q) + 1 /\ Append(q, e)[Len(q) + 1] = e
      /\ \A i \in 1..Len(q) : Append(q, e)[i] = q[i]
  BY AppendAt, SMT
<1>2. q \in Seq(S \union {e}) /\ Append(q, e) \in Seq(S \union {e})
  BY SeqMonotonic, AppendProperties
<1>3. DOMAIN q = 1..Len(q) /\ DOMAIN Append(q, e) = 1..Len(Append(q, e))
  BY <1>2, LenProperties
<1>4. \A i : i \in 1..Len(Append(q, e)) <=> i \in 1..Len(q) \/ i = Len(q) + 1
  BY <1>1, SMT
<1>. QED
  BY <1>1, <1>3, <1>4 DEF Range

LEMMA RangeTail ==
  ASSUME NEW S, NEW q \in Seq(S), q # <<>>
  PROVE  Range(Tail(q)) \subseteq Range(q) /\ Head(q) \in Range(q)
<1>1. /\ Len(q) \in Nat \ {0} /\ Head(q) = q[1] /\ Len(Tail(q)) = Len(q) - 1
      /\ \A i \in 1..Len(Tail(q)) : Tail(q)[i] = q[i + 1]
  BY TailAt
<1>2. DOMAIN q = 1..Len(q) /\ DOMAIN Tail(q) = 1..Len(Tail(q))
  BY HeadTailProperties, LenProperties
<1>3. 1 \in 1..Len(q) /\ \A i \in 1..Len(Tail(q)) : i + 1 \in 1..Len(q)
  BY <1>1, SMT
<1>. QED
  BY <1>1, <1>2, <1>3 DEF Range

LEMMA HandleBufferWriteControl ==
  ASSUME TypeOK, FirstSession, ControlInv, HandleBufferWrite
  PROVE  ControlInv'
<1>1. Arrived("BufferWrite")
  BY  DEF HandleBufferWrite
<1>2. /\ ses = 0 /\ main = "receive" /\ c2s[0] # <<>> /\ Head(c2s[0]).type = "BufferWrite"
      /\ c2s'[0] = Tail(c2s[0]) /\ Head(c2s[0]) = c2s[0][1]
  BY <1>1, ArrivesFirst
<1>3. UNCHANGED <<current, state, main>>
  BY  DEF HandleBufferWrite
<1>4. EntryInv'
  <2>1. CASE UNCHANGED writeQueue
    BY <1>1, <1>3, <2>1, ArrivedSame, EntrySame DEF ControlInv
  <2>2. CASE ~UNCHANGED writeQueue
    <3>1. PICK e : /\ e = [write |-> Head(c2s[ses]).write, scan |-> current.scan]
                   /\ state = "Writing" /\ writeQueue' = [writeQueue EXCEPT ![ses] = Append(@, e)]
      BY <2>2 DEF HandleBufferWrite
    <3>2. e.scan = current.scan
      BY <3>1
    <3>3. writeQueue'[0] = Append(writeQueue[0], e)
      BY <1>2, <3>1, FirstTypes
    <3>4. Entries' = Entries \union {e}
      <4>1. Range(writeQueue'[0]) = Range(writeQueue[0]) \union {e}
        BY <3>3, FirstTypes, RangeAppend
      <4>. QED
        BY <1>1, <4>1, ArrivedSame DEF Entries
    <3>5. current.scan <= current.scan
      BY FirstTypes, SMT
    <3>. QED
      BY <1>1, <1>2, <1>3, <3>1, <3>2, <3>4, <3>5, ArrivedSame, SMT DEF ControlInv, EntryInv
  <2>. QED
    BY <2>1, <2>2
<1>. QED
  BY <1>1, <1>2, <1>3, <1>4, ArrivedSame, QuietKept


(* What comes behind the packet the server takes.                          *)
LEMMA BehindFirst ==
  ASSUME TypeOK, ControlInv, c2s[0] # <<>>, c2s'[0] = Tail(c2s[0])
  PROVE  \A i \in 1..Len(c2s'[0]) : /\ i + 1 \in 1..Len(c2s[0]) /\ c2s'[0][i] = c2s[0][i + 1]
                                    /\ Ordered(c2s[0][1], c2s'[0][i])
<1>1. /\ Len(c2s[0]) \in Nat \ {0} /\ Len(Tail(c2s[0])) = Len(c2s[0]) - 1
      /\ \A i \in 1..Len(Tail(c2s[0])) : Tail(c2s[0])[i] = c2s[0][i + 1]
  BY FirstTypes, TailAt
<1>2. \A i \in 1..Len(c2s'[0]) : i + 1 \in 1..Len(c2s[0]) /\ 1 \in 1..Len(c2s[0]) /\ 1 < i + 1
  BY <1>1, SMT
<1>. QED
  BY <1>1, <1>2 DEF ControlInv, HashInv, InOrder

LEMMA HandleHashingCompletedControl ==
  ASSUME TypeOK, FirstSession, ControlInv, HandleHashingCompleted
  PROVE  ControlInv'
<1>1. Arrived("InfoHashingCompleted") /\ main' = "complete" /\ UNCHANGED <<state, writeQueue>>
  BY DEF HandleHashingCompleted, HandleCompleted
<1>2. /\ ses = 0 /\ main = "receive" /\ c2s[0] # <<>> /\ Head(c2s[0]).type = "InfoHashingCompleted"
      /\ c2s'[0] = Tail(c2s[0]) /\ Head(c2s[0]) = c2s[0][1]
  BY <1>1, ArrivesFirst
<1>3. /\ current'.scan = current.scan /\ current'.applied = current.applied
      /\ ~current'.cut => Completion(c2s[0][1])
  BY <1>2, FirstTypes DEF HandleHashingCompleted, HandleCompleted, Completion
<1>4. EntryInv'
  BY <1>1, <1>3, ArrivedSame DEF ControlInv, EntryInv, Entries
<1>5. ASSUME ~current'.cut PROVE Finishing /\ ~Holds(c2s'[0], {"CorrectBlock"})
  <2>1. 1 \in 1..Len(c2s[0])
    BY <1>2, FirstTypes, TailAt, SMT
  <2>2. Finishing
    BY <1>3, <1>5, <2>1 DEF Finishing
  <2>3. \A i \in 1..Len(c2s'[0]) : Ordered(c2s[0][1], c2s'[0][i])
    BY <1>2, BehindFirst
  <2>. QED
    BY <1>3, <1>5, <2>2, <2>3 DEF Ordered, Holds
<1>. QED
  BY <1>1, <1>2, <1>3, <1>4, <1>5, ArrivedSame, QuietKept

LEMMA HandleReplicationCompletedControl ==
  ASSUME TypeOK, FirstSession, ControlInv, HandleReplicationCompleted
  PROVE  ControlInv'
<1>1. Arrived("InfoReplicationCompleted") /\ main' = "copied" /\ UNCHANGED <<state, writeQueue>>
  BY DEF HandleReplicationCompleted, HandleCompleted
<1>2. /\ ses = 0 /\ main = "receive" /\ c2s[0] # <<>> /\ Head(c2s[0]).type = "InfoReplicationCompleted"
      /\ c2s'[0] = Tail(c2s[0]) /\ Head(c2s[0]) = c2s[0][1] /\ Part(c2s[0], c2s'[0])
  BY <1>1, ArrivesFirst
<1>3. current'.scan = current.scan /\ current'.applied = current.applied
  BY FirstTypes DEF HandleReplicationCompleted, HandleCompleted
<1>4. UNCHANGED <<s2c, link, mon, lis, resets, hashQueue, compared, repl, hasher, synced, replOn, writer, ses>>
  BY <1>1, ArrivedSame
<1>5. EntryInv'
  BY <1>1, <1>3, <1>4 DEF ControlInv, EntryInv, Entries
<1>6. /\ From(c2s[0], c2s'[0], Commands \union Ends) /\ From(c2s[0], c2s'[0], Ends)
      /\ From(c2s[0], c2s'[0], Copies) /\ From(c2s[0], c2s'[0], {"CorrectBlock"})
  BY <1>2, FromPart
<1>7. /\ ~Accepted' /\ Hashing' = Hashing /\ Up' = Up /\ Announced' = Announced /\ Comparing' = Comparing
      /\ epoch' = epoch
  BY <1>1, <1>4 DEF Accepted, Hashing, epoch, Up, Announced, Comparing
<1>8. ScanNumbers'
  BY <1>3, <1>4, <1>6, <1>7, NumbersKept, FromSame DEF ControlInv
<1>9. HashInv'
  <2>1. Finishing' => Finishing
    BY <1>1, <1>3, <1>4, <1>6, <1>7, FinishingKept
  <2>2. Holds(c2s'[0], {"CorrectBlock"}) => Holds(c2s[0], {"CorrectBlock"})
    BY <1>6, FromHolds
  <2>3. InOrder' /\ EndsLast(s2c'[0])
    BY <1>2, <1>3, <1>4, OrderKept DEF ControlInv, HashInv
  <2>. QED
    BY <1>1, <1>4, <1>7, <2>1, <2>2, <2>3, HashKept DEF ControlInv
<1>10. CopyInv'
  <2>1. 1 \in 1..Len(c2s[0])
    BY <1>2, FirstTypes, TailAt, SMT
  <2>2. mon.kind = "scan"
    BY <1>2, <2>1 DEF ControlInv, CopyInv, Holds
  <2>3. ~Holds(c2s'[0], {"InfoStartReplication"})
    <3>1. \A i \in 1..Len(c2s'[0]) : Ordered(c2s[0][1], c2s'[0][i])
      BY <1>2, BehindFirst
    <3>. QED
      BY <1>2, <3>1 DEF Ordered, Holds, Copies
  <2>4. ~CopyOpen'
    BY <1>1, <2>3 DEF CopyOpen
  <2>5. Holds(c2s'[0], Copies) => Holds(c2s[0], Copies)
    BY <1>6, FromHolds
  <2>. QED
    BY <1>1, <1>4, <2>2, <2>4, <2>5 DEF ControlInv, CopyInv
<1>11. BatchInv'
  BY <1>4 DEF ControlInv, BatchInv
<1>. QED
  BY <1>5, <1>8, <1>9, <1>10, <1>11 DEF ControlInv

LEMMA RangeIn ==
  ASSUME NEW S, NEW q \in Seq(S)
  PROVE  Range(q) \subseteq S
BY ElementOfSeq, LenProperties DEF Range

(* The server accepts a command: nothing on its way belongs to the new     *)
(* scan.                                                                   *)
LEMMA CommandTaken ==
  ASSUME TypeOK, FirstSession, ControlInv, NEW type \in Commands, NEW newState, NEW wait,
         HandleCommand(type, newState, wait)
  PROVE  /\ ses = 0 /\ main = "receive" /\ c2s[0] # <<>> /\ c2s[0][1].type = type
         /\ 1 \in 1..Len(c2s[0]) /\ c2s'[0] = Tail(c2s[0]) /\ Part(c2s[0], c2s'[0])
         /\ state' = newState /\ main' = wait
         /\ current'.scan = c2s[0][1].scan /\ ~current'.cut /\ ~current'.applied
         /\ current.scan < current'.scan /\ current'.scan <= epoch
         /\ current.scan \in Int /\ current'.scan \in Int /\ epoch \in Nat
         /\ UNCHANGED <<s2c, link, mon, lis, resets, hashQueue, compared, repl, hasher>>
         /\ UNCHANGED <<synced, replOn, writer, ses, writeQueue>>
<1>1. Arrived(type) /\ state' = newState /\ main' = wait /\ UNCHANGED writeQueue
  BY DEF HandleCommand
<1>2. /\ ses = 0 /\ main = "receive" /\ c2s[0] # <<>> /\ Head(c2s[0]).type = type
      /\ c2s'[0] = Tail(c2s[0]) /\ Head(c2s[0]) = c2s[0][1] /\ Part(c2s[0], c2s'[0])
  BY <1>1, ArrivesFirst
<1>3. current'.scan = c2s[0][1].scan /\ ~current'.cut /\ ~current'.applied
  BY <1>2 DEF HandleCommand, NoScan
<1>4. 1 \in 1..Len(c2s[0])
  BY <1>2, FirstTypes, TailAt, SMT
<1>5. current.scan < current'.scan /\ current'.scan <= epoch
  BY <1>2, <1>3, <1>4 DEF ControlInv, ScanNumbers, Numbered
<1>6. c2s[0][1].scan \in Nat
  <2>1. c2s[0][1] \in Packet /\ c2s[0][1].type \in Commands
    BY <1>2, <1>4, FirstTypes, ElementOfSeq
  <2>. QED
    BY <2>1 DEF Packet, WritePacket, BlockPacket, Commands, Scans, Copies
<1>. QED
  BY <1>1, <1>2, <1>3, <1>4, <1>5, <1>6, FirstTypes, ArrivedSame, SMT

LEMMA CommandNumbers ==
  ASSUME TypeOK, SessionInv, FirstSession, ControlInv, NEW type \in Commands, NEW newState, NEW wait,
         HandleCommand(type, newState, wait), newState # "Writing", wait # "complete",
         wait \in {"start", "startFull"} <=> type \in Scans
  PROVE  ScanNumbers' /\ EntryInv' /\ ~Finishing'
<1>1. /\ c2s[0] # <<>> /\ c2s[0][1].type = type /\ 1 \in 1..Len(c2s[0])
      /\ c2s'[0] = Tail(c2s[0]) /\ Part(c2s[0], c2s'[0])
      /\ state' = newState /\ main' = wait /\ current'.scan = c2s[0][1].scan /\ ~current'.applied
      /\ current.scan < current'.scan /\ current'.scan <= epoch
      /\ current.scan \in Int /\ current'.scan \in Int /\ epoch \in Nat
      /\ UNCHANGED <<s2c, link, mon, lis, resets, hasher, writer, ses, writeQueue>>
  BY CommandTaken
<1>2. epoch' = epoch /\ Hashing' = Hashing /\ Announced' = Announced /\ (Resetting' <=> Resetting)
  BY <1>1 DEF epoch, Hashing, Announced, Resetting
<1>3. ~Hashing /\ ~Announced /\ lis.pc \notin {"buffer", "send", "resume"}
  BY <1>1, SMT DEF ControlInv, ScanNumbers
<1>4. Accepted' => current'.scan = epoch
  BY <1>1 DEF ControlInv, ScanNumbers, Numbered, Accepted
<1>5. Resetting => current'.scan < epoch
  BY <1>1 DEF ControlInv, ScanNumbers
<1>6. ASSUME NEW i \in 1..Len(c2s'[0])
      PROVE  /\ c2s'[0][i].type \in Commands => current'.scan < c2s'[0][i].scan
             /\ c2s'[0][i].type \in Commands => c2s'[0][i].scan <= epoch
             /\ c2s'[0][i].type \in Scans => c2s'[0][i].scan = epoch
             /\ Resetting /\ c2s'[0][i].type \in Commands => c2s'[0][i].scan < epoch
             /\ c2s'[0][i].type = "InfoHashingCompleted" => c2s'[0][i].scan <= current.scan
                                                            /\ c2s'[0][i].scan \in Int
  <2>1. i + 1 \in 1..Len(c2s[0]) /\ c2s'[0][i] = c2s[0][i + 1] /\ Ordered(c2s[0][1], c2s'[0][i])
    BY <1>1, <1>6, BehindFirst
  <2>2. Numbered(c2s'[0][i])
    BY <2>1 DEF ControlInv, ScanNumbers
  <2>3. c2s'[0][i].type \in Commands => current'.scan < c2s'[0][i].scan
    BY <1>1, <2>1 DEF Ordered
  <2>4. Resetting /\ c2s'[0][i].type \in Commands => c2s'[0][i].scan < epoch
    BY <2>1 DEF ControlInv, ScanNumbers
  <2>5. c2s'[0][i].type = "InfoHashingCompleted" => c2s'[0][i].scan \in Int
    <3>1. c2s'[0][i] \in Packet
      BY <2>1, FirstTypes, ElementOfSeq
    <3>. QED
      BY <3>1, SMT DEF Packet, WritePacket, BlockPacket, Scan, Unknown
  <2>. QED
    BY <2>2, <2>3, <2>4, <2>5 DEF Numbered
<1>7. lis.pc = "complete" => lis.tag = lis.read /\ lis.tag <= current.scan /\ lis.tag \in Int
  BY ClientTypes, SMT DEF ControlInv, ScanNumbers
<1>8. ScanNumbers'
  <2>1. (\A i \in 1..Len(c2s[0]) : Numbered(c2s[0][i]))'
    <3>1. \A i \in 1..Len(c2s'[0]) : c2s'[0][i].type = "InfoHashingCompleted" => c2s'[0][i].scan <= current'.scan
      BY <1>1, <1>6, SMT
    <3>. QED
      BY <1>2, <1>6, <3>1 DEF Numbered
  <2>2. lis'.pc = "complete" => lis'.tag = lis'.read /\ lis'.tag <= current'.scan
    BY <1>1, <1>7, SMT
  <2>3. /\ mon'.pc \in {"pause", "request"} => mon'.tag = epoch' /\ current'.scan < epoch'
        /\ lis'.pc \in {"pause", "request"} => lis'.tag = epoch' /\ current'.scan < epoch'
    BY <1>1, <1>2, <1>5 DEF ControlInv, ScanNumbers, Resetting
  <2>4. \A i \in 1..Len(s2c'[0]) : s2c'[0][i].type \in Ends => s2c'[0][i].scan = epoch'
    BY <1>1, <1>2 DEF ControlInv, ScanNumbers
  <2>. QED
    BY <1>1, <1>2, <1>3, <1>4, <1>6, <2>1, <2>2, <2>3, <2>4 DEF ScanNumbers
<1>9. \A e \in Entries : e.scan \in Int
  <2>1. Range(writeQueue[0]) \subseteq QueuedWrite /\ Range(writer[0]) \subseteq QueuedWrite
    BY FirstTypes, RangeIn
  <2>. QED
    BY <2>1, SMT DEF Entries, QueuedWrite, Scan, Unknown
<1>10. EntryInv'
  <2>1. Entries' = Entries
    BY <1>1 DEF Entries
  <2>2. \A e \in Entries : e.scan < current'.scan
    BY <1>1, <1>9, SMT DEF ControlInv, EntryInv
  <2>3. \A e \in Entries : e.scan <= current'.scan /\ e.scan # current'.scan
    BY <1>1, <1>9, <2>2, SMT
  <2>. QED
    BY <1>1, <2>1, <2>3 DEF ControlInv, EntryInv
<1>11. ~Finishing'
  <2>1. (\A i \in 1..Len(c2s[0]) : ~Completion(c2s[0][i]))'
    <3>1. \A i \in 1..Len(c2s'[0]) : c2s'[0][i].type = "InfoHashingCompleted" => c2s'[0][i].scan # current'.scan
      BY <1>1, <1>6, SMT
    <3>. QED
      BY <3>1 DEF Completion
  <2>2. lis.pc \in {"send", "resume", "complete"} => lis.tag # current'.scan
    BY <1>1, <1>3, <1>7, SMT
  <2>. QED
    BY <1>1, <2>1, <2>2 DEF Finishing
<1>. QED
  BY <1>8, <1>10, <1>11


LEMMA CommandHash ==
  ASSUME TypeOK, SessionInv, FirstSession, ControlInv, NEW type \in Commands, NEW newState, NEW wait,
         HandleCommand(type, newState, wait), newState # "Writing",
         wait \in {"start", "startFull", "startCopy"},
         wait \in {"start", "startFull"} <=> type \in Scans
  PROVE  HashInv' /\ BatchInv'
<1>1. /\ c2s[0] # <<>> /\ c2s[0][1].type = type /\ c2s'[0] = Tail(c2s[0]) /\ main' = wait
      /\ current.scan < current'.scan /\ current'.scan <= epoch
      /\ current.scan \in Int /\ current'.scan \in Int /\ epoch \in Nat
      /\ UNCHANGED <<s2c, link, mon, lis, hashQueue, compared, repl, hasher>>
  BY CommandTaken
<1>2. ~Hashing /\ ~Announced /\ lis.pc # "buffer"
  BY <1>1, SMT DEF ControlInv, ScanNumbers
<1>3. ~Finishing'
  BY CommandNumbers
<1>4. ASSUME NEW i \in 1..Len(c2s'[0])
      PROVE  i + 1 \in 1..Len(c2s[0]) /\ c2s'[0][i] = c2s[0][i + 1] /\ Ordered(c2s[0][1], c2s'[0][i])
  BY <1>1, BehindFirst
<1>5. InOrder'
  <2>1. (\A i \in 1..Len(c2s[0]) : ~Completion(c2s[0][i]))'
    BY <1>3 DEF Finishing
  <2>2. ASSUME NEW i \in 1..Len(c2s'[0]), NEW j \in 1..Len(c2s'[0]), i < j
        PROVE  Ordered(c2s'[0][i], c2s'[0][j])
    <3>1. i + 1 < j + 1
      BY <2>2, SMT
    <3>. QED
      BY <1>4, <3>1 DEF ControlInv, HashInv, InOrder
  <2>. QED
    BY <2>1, <2>2 DEF InOrder, Ordered
<1>6. Accepted' => ~Holds(c2s'[0], {"CorrectBlock"})
  BY <1>1, <1>4 DEF Accepted, Holds, Ordered
<1>7. UNCHANGED <<Up, Comparing, Hashing, Announced>>
  BY <1>1 DEF Up, Comparing, Hashing, Announced
<1>8. HashInv'
  BY <1>1, <1>2, <1>3, <1>5, <1>6, <1>7 DEF ControlInv, HashInv, Hashing
<1>. QED
  BY <1>1, <1>8 DEF ControlInv, BatchInv

LEMMA HandleCmdStartHashingControl ==
  ASSUME TypeOK, SessionInv, FirstSession, ControlInv, HandleCmdStartHashing
  PROVE  ControlInv'
<1>1. HandleCommand("CmdStartHashing", "Hashing", "start")
  BY DEF HandleCmdStartHashing
<1>2. "CmdStartHashing" \in Commands /\ "CmdStartHashing" \in Scans
  BY DEF Commands, Scans
<1>3. ScanNumbers' /\ EntryInv' /\ HashInv' /\ BatchInv'
  BY <1>1, <1>2, CommandNumbers, CommandHash
<1>4. /\ c2s[0] # <<>> /\ c2s[0][1].type = "CmdStartHashing" /\ 1 \in 1..Len(c2s[0])
      /\ c2s'[0] = Tail(c2s[0]) /\ main = "receive"
      /\ state' = "Hashing" /\ main' = "start" /\ UNCHANGED <<mon, replOn>>
  BY <1>1, <1>2, CommandTaken
<1>5. mon.kind = "scan"
  BY <1>2, <1>4 DEF ControlInv, CopyInv, Holds
<1>6. ~replOn
  <2>1. ~CopyEnded(c2s[0])
    <3>1. 1 - 1 = 0
      BY SMT
    <3>. QED
      BY <1>2, <1>4, <3>1, SMT DEF CopyEnded
  <2>. QED
    BY <1>4, <2>1 DEF ControlInv, CopyInv, CopyOpen
<1>7. ~Holds(c2s'[0], Copies)
  <2>1. \A i \in 1..Len(c2s'[0]) : Ordered(c2s[0][1], c2s'[0][i])
    BY <1>4, BehindFirst
  <2>. QED
    BY <1>2, <1>4, <2>1 DEF Ordered, Holds
<1>8. ~CopyOpen'
  BY <1>4, <1>6, <1>7 DEF CopyOpen, Holds, Copies
<1>9. CopyInv'
  BY <1>4, <1>5, <1>6, <1>7, <1>8 DEF CopyInv
<1>. QED
  BY <1>3, <1>9 DEF ControlInv

LEMMA HandleCmdStartFullScanControl ==
  ASSUME TypeOK, SessionInv, FirstSession, ControlInv, HandleCmdStartFullScan
  PROVE  ControlInv'
<1>1. HandleCommand("CmdStartFullScan", "DestroyingReplica", "startFull")
  BY DEF HandleCmdStartFullScan
<1>2. "CmdStartFullScan" \in Commands /\ "CmdStartFullScan" \in Scans /\ "CmdStartFullScan" \in Copies
  BY DEF Commands, Scans, Copies
<1>3. ScanNumbers' /\ EntryInv' /\ HashInv' /\ BatchInv'
  BY <1>1, <1>2, CommandNumbers, CommandHash
<1>4. /\ c2s[0] # <<>> /\ c2s[0][1].type = "CmdStartFullScan" /\ 1 \in 1..Len(c2s[0])
      /\ c2s'[0] = Tail(c2s[0]) /\ main = "receive"
      /\ state' = "DestroyingReplica" /\ main' = "startFull" /\ UNCHANGED <<mon, replOn, synced>>
  BY <1>1, <1>2, CommandTaken
<1>5. mon.kind = "scan" /\ synced # "prefix"
  BY <1>2, <1>4 DEF ControlInv, CopyInv, Holds
<1>6. ~replOn
  <2>1. ~CopyEnded(c2s[0])
    <3>1. 1 - 1 = 0
      BY SMT
    <3>. QED
      BY <1>2, <1>4, <3>1, SMT DEF CopyEnded
  <2>. QED
    BY <1>4, <2>1 DEF ControlInv, CopyInv, CopyOpen
<1>7. ~Holds(c2s'[0], Copies)
  <2>1. \A i \in 1..Len(c2s'[0]) : Ordered(c2s[0][1], c2s'[0][i])
    BY <1>4, BehindFirst
  <2>. QED
    BY <1>2, <1>4, <2>1 DEF Ordered, Holds
<1>8. ~CopyOpen'
  BY <1>4, <1>6, <1>7 DEF CopyOpen, Holds, Copies
<1>9. CopyInv'
  BY <1>4, <1>5, <1>6, <1>7, <1>8 DEF CopyInv
<1>. QED
  BY <1>3, <1>9 DEF ControlInv

LEMMA HandleInfoStartReplicationControl ==
  ASSUME TypeOK, SessionInv, FirstSession, ControlInv, HandleInfoStartReplication
  PROVE  ControlInv'
<1>1. HandleCommand("InfoStartReplication", "Replicating", "startCopy")
  BY DEF HandleInfoStartReplication
<1>2. "InfoStartReplication" \in Commands /\ "InfoStartReplication" \notin Scans /\ "InfoStartReplication" \in Copies
  BY DEF Commands, Scans, Copies
<1>3. ScanNumbers' /\ EntryInv' /\ HashInv' /\ BatchInv'
  BY <1>1, <1>2, CommandNumbers, CommandHash
<1>4. /\ c2s[0] # <<>> /\ c2s[0][1].type = "InfoStartReplication" /\ 1 \in 1..Len(c2s[0])
      /\ c2s'[0] = Tail(c2s[0]) /\ main = "receive"
      /\ state' = "Replicating" /\ main' = "startCopy" /\ UNCHANGED <<mon, replOn, synced, repl, link>>
  BY <1>1, <1>2, CommandTaken
<1>5. mon.kind = "scan" /\ synced # "prefix" /\ CopyOpen
  BY <1>2, <1>4 DEF ControlInv, CopyInv, Holds, CopyOpen
<1>6. /\ CopyEnded(c2s[0]) => CopyEnded(c2s'[0])
      /\ Holds(c2s[0], {"InfoReplicationCompleted"}) => Holds(c2s'[0], {"InfoReplicationCompleted"})
  BY <1>4, TakenFirst
<1>7. CopyInv'
  BY <1>4, <1>5, <1>6 DEF ControlInv, CopyInv, Up
<1>. QED
  BY <1>3, <1>7 DEF ControlInv
-----------------------------------------------------------------------------
(* The main loop goes on when the goroutines before it have ended.         *)
LEMMA StartScanControl ==
  ASSUME TypeOK, SessionInv, FirstSession, ControlInv, StartScan
  PROVE  ControlInv'
<1>1. UNCHANGED <<c2s, s2c, link, mon, lis, resets, hashQueue, compared, repl, current>>
  BY DEF StartScan, net, client, workers, history
<1>2. UNCHANGED <<synced, replOn, writeQueue, writer, state, ses>>
  BY DEF StartScan, direct, history
<1>3. /\ Accepted /\ main' = "receive" /\ hasher' = [pc |-> "reset", todo |-> Blocks, scan |-> current.scan]
      /\ hasher'.pc = "reset" /\ hasher'.todo = Blocks /\ hasher'.scan = current.scan
      /\ main \in {"start", "startFull"}
  BY DEF StartScan, Accepted
<1>4. ~Requesting /\ ~Asked /\ ~Hashing /\ ~Announced /\ ~Finishing /\ current.scan = epoch
  BY <1>3 DEF SessionInv, OneScan, ControlInv, ScanNumbers, HashInv
<1>5. UNCHANGED <<Up, Comparing, Announced, epoch, Requesting, Resetting>>
  BY <1>1 DEF Up, Comparing, Announced, epoch, Requesting, Resetting
<1>6. ~Accepted' /\ Hashing'
  BY <1>3 DEF Accepted, Hashing
<1>7. ScanNumbers'
  <2>1. (\A i \in 1..Len(c2s[0]) : Numbered(c2s[0][i]))'
    BY <1>1, <1>5 DEF ControlInv, ScanNumbers, Numbered
  <2>. QED
    BY <1>1, <1>3, <1>4, <1>5, <1>6, <2>1 DEF ControlInv, ScanNumbers
<1>8. EntryInv'
  BY <1>1, <1>2, EntrySame DEF ControlInv
<1>9. HashInv'
  <2>1. ~Finishing'
    BY <1>1, <1>3, <1>4 DEF Finishing, Completion, Up
  <2>2. InOrder' /\ EndsLast(s2c'[0])
    BY <1>1 DEF ControlInv, HashInv, InOrder, Ordered, Completion
  <2>3. lis.pc # "buffer" /\ ~Holds(c2s[0], {"CorrectBlock"}) /\ ~(Up /\ Comparing)
    BY <1>3, <1>4 DEF ControlInv, HashInv, SessionInv, OneScan, Completing, Hashing
  <2>. QED
    BY <1>1, <1>3, <1>5, <1>6, <2>1, <2>2, <2>3 DEF HashInv
<1>10. CopyInv'
  BY <1>1, <1>2, <1>3, <1>5, CopyKept, FromSame DEF ControlInv, CopyInv
<1>11. BatchInv'
  BY <1>1 DEF ControlInv, BatchInv
<1>. QED
  BY <1>7, <1>8, <1>9, <1>10, <1>11 DEF ControlInv

LEMMA StartReplicationControl ==
  ASSUME TypeOK, ControlInv, StartReplication
  PROVE  ControlInv'
<1>1. UNCHANGED <<c2s, s2c, link, mon, lis, resets, hashQueue, compared, repl, current, hasher>>
  BY DEF StartReplication, net, client, workers, history
<1>2. UNCHANGED <<synced, writeQueue, writer, state, ses>> /\ main = "startCopy" /\ main' = "receive"
  BY DEF StartReplication, history
<1>3. UNCHANGED <<Up, Comparing, Announced, epoch, Requesting, Hashing>> /\ ~Accepted' /\ ~Accepted
  BY <1>1, <1>2 DEF Up, Comparing, Announced, epoch, Requesting, Hashing, Accepted
<1>4. ScanNumbers' /\ EntryInv'
  BY <1>1, <1>2, <1>3, NumbersKept, FromSame, EntrySame DEF ControlInv
<1>5. HashInv'
  <2>1. Finishing' => Finishing
    BY <1>1, <1>2, <1>3, FinishingKept, FromSame
  <2>2. InOrder' /\ EndsLast(s2c'[0])
    BY <1>1 DEF ControlInv, HashInv, InOrder, Ordered, Completion
  <2>. QED
    BY <1>1, <1>2, <1>3, <2>1, <2>2, HashKept DEF ControlInv
<1>6. CopyInv'
  <2>1. CopyOpen
    BY <1>2 DEF CopyOpen
  <2>. QED
    BY <1>1, <1>2, <1>3, <2>1 DEF ControlInv, CopyInv
<1>7. BatchInv'
  BY <1>1 DEF ControlInv, BatchInv
<1>. QED
  BY <1>4, <1>5, <1>6, <1>7 DEF ControlInv

LEMMA ScanEndsControl ==
  ASSUME TypeOK, ControlInv, HandleJournalWriting \/ HandleReplicationWriting
  PROVE  ControlInv'
<1>1. UNCHANGED <<c2s, s2c, link, mon, lis, resets, hashQueue, compared, repl, hasher>>
  BY DEF HandleJournalWriting, HandleReplicationWriting, ScanEnds, net, client, workers
<1>2. /\ UNCHANGED <<writeQueue, writer, ses>> /\ main' = "receive" /\ state' = "Writing"
      /\ current' = [current EXCEPT !.applied = TRUE]
  BY DEF HandleJournalWriting, HandleReplicationWriting, ScanEnds
<1>3. current'.scan = current.scan /\ current'.cut = current.cut /\ current'.applied
  BY <1>2, FirstTypes
<1>4. synced' = "prefix" => state = "Hashing"
  BY DEF HandleJournalWriting, HandleReplicationWriting, ApplyJournal
<1>5. replOn' => replOn /\ main # "copied"
  BY  DEF HandleJournalWriting, HandleReplicationWriting
<1>6. EntryInv'
  BY <1>2, <1>3 DEF ControlInv, EntryInv, Entries
<1>. QED
  BY <1>1, <1>2, <1>3, <1>4, <1>5, <1>6, QuietKept

-----------------------------------------------------------------------------
(* HashDisk.                                                               *)
LEMMA HashDiskSame ==
  ASSUME TypeOK, SessionInv, FirstSession, ControlInv, HashDisk
  PROVE  /\ UNCHANGED <<c2s, link, mon, lis, resets, hashQueue, compared, repl, current, main>>
         /\ UNCHANGED <<synced, replOn, writeQueue, writer, state, ses>>
         /\ EntryInv' /\ CopyInv' /\ BatchInv' /\ InOrder' /\ (Finishing' <=> Finishing)
         /\ ses = 0 /\ Hashing /\ ~Accepted /\ ~Announced /\ ~Finishing /\ lis.pc # "buffer"
         /\ current.scan = epoch /\ hasher.scan = epoch
         /\ ~(main = "complete" /\ ~current.cut)
<1>1. UNCHANGED <<c2s, link, mon, lis, resets, hashQueue, compared, repl, current, main>>
  BY  DEF HashDisk, HashDiskReset, HashBlock, HashDiskEnd, client, workers, history
<1>2. UNCHANGED <<synced, replOn, writeQueue, writer, state, ses>>
  BY  DEF HashDisk, HashDiskReset, HashBlock, HashDiskEnd, direct, history
<1>3. EntryInv' /\ CopyInv' /\ BatchInv' /\ InOrder'
  BY <1>1, <1>2, EntrySame, CopySame
     DEF ControlInv, BatchInv, CopyInv, Requesting, HashInv, InOrder, Ordered, Completion
<1>4. Finishing' <=> Finishing
  BY <1>1 DEF Finishing, Completion, Up
<1>5. Hashing
  BY  DEF HashDisk, HashDiskReset, HashBlock, HashDiskEnd, Hashing
<1>6. ses = 0
  BY <1>5, ServesFirst DEF TypeOK, ServerType, Hashing
<1>7. ~Accepted /\ ~Announced /\ ~Finishing /\ lis.pc # "buffer"
  BY <1>5 DEF SessionInv, OneScan, Completing, ControlInv, HashInv
<1>8. current.scan = epoch /\ hasher.scan = epoch
  BY <1>5 DEF ControlInv, ScanNumbers
<1>9. ~(main = "complete" /\ ~current.cut)
  BY <1>7 DEF Finishing
<1>. QED
  BY <1>1, <1>2, <1>3, <1>4, <1>5, <1>6, <1>7, <1>8, <1>9

LEMMA HashDiskResetControl ==
  ASSUME TypeOK, SessionInv, FirstSession, ControlInv, HashDiskReset
  PROVE  ControlInv'
<1>1. /\ UNCHANGED <<c2s, link, mon, lis, resets, hashQueue, compared, repl, current, main>>
      /\ UNCHANGED <<synced, replOn, writeQueue, writer, state, ses>>
      /\ EntryInv' /\ CopyInv' /\ BatchInv' /\ InOrder' /\ (Finishing' <=> Finishing)
      /\ ses = 0 /\ Hashing /\ ~Accepted /\ ~Announced /\ ~Finishing /\ lis.pc # "buffer"
      /\ ~(main = "complete" /\ ~current.cut)
  BY HashDiskSame DEF HashDisk
<1>2. PICK p : p = [type |-> "InfoStartHashing"] /\ ToClient(p)
  BY DEF HashDiskReset
<1>3. p.type \notin {"PayloadHash", "InfoHashingCompleted"}
  BY <1>2
<1>4. /\ From(s2c[0], s2c'[0], Ends) /\ From(s2c[0], s2c'[0], {"PayloadHash"}) /\ EndsLast(s2c'[0])
  BY <1>1, <1>2, <1>3, AnsweredFirst
<1>5. /\ hasher.pc = "reset" /\ hasher'.pc = IF ~Up THEN "idle" ELSE "hash"
      /\ hasher'.scan = hasher.scan
  <2>1. Dead(ses) <=> ~Up
    <3>1. Dead(0) \/ Up
      BY <1>1, <1>2 DEF ToClient, Room, Up
    <3>2. ~(Dead(0) /\ Up)
      BY DEF Dead, Up
    <3>. QED
      BY <1>1, <3>1, <3>2
  <2>. QED
    BY <2>1 DEF HashDiskReset, TypeOK, ServerType
<1>6. UNCHANGED <<Up, epoch, Accepted>> /\ (Hashing' => Hashing) /\ (Announced' => Announced) /\ (Comparing' => Comparing)
  BY <1>1, <1>4, FromHolds DEF Up, epoch, Accepted, Announced, Comparing
<1>7. ScanNumbers'
  BY <1>1, <1>4, <1>5, <1>6, NumbersKept, FromSame DEF ControlInv
<1>8. HashInv'
  <2>1. main \in {"init", "leave"} => ~Up
    BY <1>5 DEF ControlInv, HashInv
  <2>. QED
    BY <1>1, <1>4, <1>5, <1>6, <2>1 DEF HashInv
<1>. QED
  BY <1>1, <1>7, <1>8 DEF ControlInv

LEMMA HashBlockControl ==
  ASSUME TypeOK, SessionInv, FirstSession, ControlInv, NEW b \in Blocks, HashBlock(b)
  PROVE  ControlInv'
<1>1. /\ UNCHANGED <<c2s, link, mon, lis, resets, hashQueue, compared, repl, current, main>>
      /\ UNCHANGED <<synced, replOn, writeQueue, writer, state, ses>>
      /\ EntryInv' /\ CopyInv' /\ BatchInv' /\ InOrder' /\ (Finishing' <=> Finishing)
      /\ ses = 0 /\ Hashing /\ ~Accepted /\ ~Announced /\ ~Finishing /\ lis.pc # "buffer"
      /\ ~(main = "complete" /\ ~current.cut)
  BY HashDiskSame DEF HashDisk
<1>2. PICK p : p = [type |-> "PayloadHash", blk |-> b, val |-> replica[b]] /\ ToClient(p)
  BY DEF HashBlock
<1>3. p.type = "PayloadHash" /\ p.type \notin Ends
  BY <1>2 DEF Ends
<1>4. From(s2c[0], s2c'[0], Ends) /\ EndsLast(s2c'[0])
  <2>1. s2c'[0] = Append(s2c[0], p) \/ s2c' = s2c
    BY <1>1, <1>2, AnswersFirst
  <2>2. s2c[0] \in Seq(Reply) /\ EndsLast(s2c[0]) /\ ~Holds(s2c[0], Ends)
    BY <1>1, FirstTypes DEF ControlInv, HashInv, Announced
  <2>3. From(s2c[0], s2c'[0], Ends)
    BY <1>3, <2>1, <2>2, FromAppend, FromSame
  <2>4. EndsLast(s2c'[0])
    BY <2>1, <2>2, EndsLastAppend
  <2>. QED
    BY <2>3, <2>4
<1>5. hasher.pc = "hash" /\ hasher'.pc = "hash" /\ hasher'.scan = hasher.scan
  BY DEF HashBlock, TypeOK, ServerType
<1>6. UNCHANGED <<Up, epoch, Accepted>> /\ (Announced' => Announced)
  BY <1>1, <1>4, FromHolds DEF Up, epoch, Accepted, Announced
<1>7. ScanNumbers'
  BY <1>1, <1>4, <1>5, <1>6, NumbersKept, FromSame DEF ControlInv
<1>8. HashInv'
  <2>1. main \in {"init", "leave"} => ~Up
    BY <1>5 DEF ControlInv, HashInv
  <2>. QED
    BY <1>1, <1>4, <1>5, <1>6, <2>1 DEF HashInv
<1>. QED
  BY <1>1, <1>7, <1>8 DEF ControlInv

LEMMA HashDiskEndControl ==
  ASSUME TypeOK, SessionInv, FirstSession, ControlInv, HashDiskEnd
  PROVE  ControlInv'
<1>1. /\ UNCHANGED <<c2s, link, mon, lis, resets, hashQueue, compared, repl, current, main>>
      /\ UNCHANGED <<synced, replOn, writeQueue, writer, state, ses>>
      /\ EntryInv' /\ CopyInv' /\ BatchInv' /\ InOrder' /\ (Finishing' <=> Finishing)
      /\ ses = 0 /\ Hashing /\ ~Accepted /\ ~Announced /\ ~Finishing /\ lis.pc # "buffer"
      /\ current.scan = epoch /\ hasher.scan = epoch
      /\ ~(main = "complete" /\ ~current.cut)
  BY HashDiskSame DEF HashDisk
<1>2. PICK p : p = [type |-> "InfoHashingCompleted", scan |-> hasher.scan] /\ ToClient(p)
  BY DEF HashDiskEnd
<1>3. p.type = "InfoHashingCompleted" /\ p.type \in Ends /\ p.scan = epoch
  BY <1>1, <1>2 DEF Ends
<1>4. \/ Up /\ s2c'[0] = Append(s2c[0], p)
      \/ ~Up /\ s2c' = s2c
  BY <1>1, <1>2, AnswersFirst
<1>5. hasher'.pc = "idle"
  BY DEF HashDiskEnd, TypeOK, ServerType
<1>6. UNCHANGED <<Up, epoch, Accepted, Resetting>> /\ ~Hashing'
  BY <1>1, <1>5 DEF Up, epoch, Accepted, Hashing, Resetting
<1>7. /\ EndsLast(s2c'[0]) /\ (Up => Announced')
      /\ \A i \in 1..Len(s2c'[0]) : s2c'[0][i].type \in Ends => s2c'[0][i].scan = epoch
  <2>1. CASE ~Up
    BY <1>4, <2>1 DEF ControlInv, HashInv, ScanNumbers
  <2>2. CASE Up
    <3>1. s2c'[0] = Append(s2c[0], p) /\ s2c[0] \in Seq(Reply)
      BY <1>4, <2>2, FirstTypes
    <3>2. /\ Len(s2c[0]) \in Nat /\ Len(s2c'[0]) = Len(s2c[0]) + 1 /\ s2c'[0][Len(s2c[0]) + 1] = p
          /\ \A i \in 1..Len(s2c[0]) : s2c'[0][i] = s2c[0][i]
      BY <3>1, AppendAt, SMT
    <3>3. EndsLast(s2c'[0])
      BY <1>3, <3>1, EndsLastAppend DEF ControlInv, HashInv
    <3>4. Announced'
      BY <1>3, <3>2, SMT DEF Announced, Holds
    <3>5. \A i \in 1..Len(s2c'[0]) : i \in 1..Len(s2c[0]) \/ i = Len(s2c[0]) + 1
      BY <3>2, SMT
    <3>. QED
      BY <1>3, <3>2, <3>3, <3>4, <3>5 DEF ControlInv, ScanNumbers
  <2>. QED
    BY <2>1, <2>2
<1>8. ScanNumbers'
  <2>1. (\A i \in 1..Len(c2s[0]) : Numbered(c2s[0][i]))'
    BY <1>1, <1>6 DEF ControlInv, ScanNumbers, Numbered
  <2>. QED
    BY <1>1, <1>6, <1>7, <2>1 DEF ControlInv, ScanNumbers
<1>9. HashInv'
  BY <1>1, <1>5, <1>6, <1>7 DEF HashInv
<1>. QED
  BY <1>1, <1>8, <1>9 DEF ControlInv
-----------------------------------------------------------------------------
(* The goroutines that take packets from the queues.                       *)
LEMMA HandleJournalPacketControl ==
  ASSUME TypeOK, FirstSession, ControlInv, HandleJournalPacket
  PROVE  ControlInv'
<1>1. ses = 0
  BY ServesFirst DEF HandleJournalPacket, TypeOK, ServerType
<1>2. UNCHANGED <<c2s, link, mon, lis, resets, hashQueue, compared, repl, hasher, main>>
  BY  DEF HandleJournalPacket, client, workers, history
<1>3. UNCHANGED <<synced, replOn, writeQueue, writer, current, ses>> /\ state' \in {state, "JournalOverflow"}
  BY  DEF HandleJournalPacket, direct, history
<1>4. EntryInv'
  BY <1>3 DEF ControlInv, EntryInv, Entries
<1>5. main = "complete" /\ ~current.cut => Finishing /\ ~Holds(c2s[0], {"CorrectBlock"})
  BY  DEF ControlInv, HashInv, Finishing
<1>6. CASE s2c' = s2c
  BY <1>2, <1>3, <1>4, <1>5, <1>6, QuietKept
<1>7. CASE s2c' # s2c
  <2>1. PICK p : p = [type |-> "ErrJournalOverflow"] /\ ToClient(p)
    BY <1>7 DEF HandleJournalPacket
  <2>2. p.type \notin {"PayloadHash", "InfoHashingCompleted"}
    BY <2>1
  <2>3. /\ From(s2c[0], s2c'[0], Ends) /\ From(s2c[0], s2c'[0], {"PayloadHash"})
        /\ EndsLast(s2c'[0]) /\ (Announced => Announced')
    BY <1>1, <2>1, <2>2, AnsweredFirst
  <2>4. Part(c2s[0], c2s'[0])
    BY <1>2, PartSame, FirstTypes
  <2>. QED
    BY <1>2, <1>3, <1>4, <1>5, <2>3, <2>4, ServerSteady
<1>. QED
  BY <1>6, <1>7

LEMMA WritePacketsControl ==
  ASSUME TypeOK, ControlInv, NEW k \in Conns, WritePackets(k)
  PROVE  ControlInv' /\ Entries' \subseteq Entries
<1>1. UNCHANGED <<c2s, s2c, link, mon, lis, resets, hashQueue, compared, repl, hasher, main>>
  BY  DEF WritePackets, TakeWritePacket, HandleWritePacket, net, client, workers, history
<1>2. UNCHANGED <<synced, replOn, current, ses, state>>
  BY  DEF WritePackets, TakeWritePacket, HandleWritePacket, history
<1>3. Len(writer'[0]) <= 1 /\ Entries' \subseteq Entries
  <2>0. Len(writer[0]) <= 1
    BY DEF ControlInv, EntryInv
  <2>1. CASE k # 0
    BY <2>0, <2>1, FirstTypes DEF WritePackets, TakeWritePacket, HandleWritePacket, Entries
  <2>2. CASE k = 0 /\ TakeWritePacket(k)
    <3>1. /\ writeQueue[0] # <<>> /\ writeQueue'[0] = Tail(writeQueue[0])
          /\ writer'[0] = <<>> \/ writer'[0] = <<Head(writeQueue[0])>>
      BY <2>2, FirstTypes DEF TakeWritePacket
    <3>2. Range(Tail(writeQueue[0])) \subseteq Range(writeQueue[0]) /\ Head(writeQueue[0]) \in Range(writeQueue[0])
      BY <3>1, FirstTypes, RangeTail
    <3>3. Range(writer'[0]) \subseteq {Head(writeQueue[0])} /\ Len(writer'[0]) <= 1
      BY <3>1, SMT DEF Range
    <3>. QED
      BY <3>1, <3>2, <3>3 DEF Entries
  <2>3. CASE k = 0 /\ HandleWritePacket(k)
    <3>1. writeQueue' = writeQueue /\ writer'[0] = <<>>
      BY <2>3, FirstTypes DEF HandleWritePacket
    <3>2. Range(writer'[0]) = {} /\ Len(writer'[0]) <= 1
      BY <3>1, SMT DEF Range
    <3>. QED
      BY <3>1, <3>2 DEF Entries
  <2>. QED
    BY <2>1, <2>2, <2>3 DEF WritePackets
<1>4. ses = -1 => writeQueue'[0] = <<>> /\ writer'[0] = <<>>
  <2>1. CASE ses = -1
    <3>1. writeQueue[0] = <<>> /\ writer[0] = <<>>
      BY <2>1 DEF ControlInv, EntryInv
    <3>2. k # 0
      BY <3>1 DEF WritePackets, TakeWritePacket, HandleWritePacket
    <3>. QED
      BY <3>1, <3>2, FirstTypes DEF WritePackets, TakeWritePacket, HandleWritePacket
  <2>. QED
    BY <2>1
<1>5. EntryInv'
  BY <1>2, <1>3, <1>4 DEF ControlInv, EntryInv
<1>6. main = "complete" /\ ~current.cut => Finishing /\ ~Holds(c2s[0], {"CorrectBlock"})
  BY  DEF ControlInv, HashInv, Finishing
<1>. QED
  BY <1>1, <1>2, <1>3, <1>5, <1>6, QuietKept

-----------------------------------------------------------------------------
(* The session ends.                                                       *)
LEMMA LeaveClientControl ==
  ASSUME TypeOK, FirstSession, ControlInv, LeaveClient
  PROVE  ControlInv'
<1>1. ses = 0
  BY ServesFirst DEF LeaveClient, TypeOK, ServerType
<1>2. UNCHANGED <<mon, lis, current, resets, hashQueue, compared, synced, repl>>
  BY DEF LeaveClient, client, workers, history
<1>3. /\ UNCHANGED <<hasher, writeQueue, writer, ses>> /\ ~replOn' /\ state' = "Disconnected" /\ main' = "accept"
  BY DEF LeaveClient
<1>4. ~Up' /\ c2s'[0] = <<>>
  BY <1>1, FirstTypes DEF Up, LeaveClient
<1>5. PICK n \in 0..Len(s2c[0]) : s2c'[0] = SubSeq(s2c[0], 1, n)
  BY <1>1, FirstTypes DEF LeaveClient
<1>6. Part(c2s[0], c2s'[0]) /\ Part(s2c[0], s2c'[0]) /\ CopyEnded(c2s'[0])
  BY <1>4, <1>5, PartPrefix, PartEmpty, CopyEndedEmpty, FirstTypes, SMT
<1>7. EntryInv'
  BY <1>2, <1>3 DEF ControlInv, EntryInv, Entries
<1>. QED
  BY <1>2, <1>3, <1>4, <1>6, <1>7, CutControl

LEMMA ServerRestartControl ==
  ASSUME TypeOK, FirstSession, ControlInv, ServerRestart
  PROVE  ControlInv'
<1>1. UNCHANGED <<mon, lis, current, resets, hashQueue, compared, synced, repl>>
  BY  DEF ServerRestart, client, workers, history
<1>2. /\ hasher'.pc = "idle" /\ ~replOn' /\ state' = "Disconnected" /\ main' = "accept"
      /\ writeQueue' = [k \in Conns |-> <<>>] /\ writer' = [k \in Conns |-> <<>>]
  BY  DEF ServerRestart
<1>3. ~Up' /\ c2s'[0] = <<>> /\ writeQueue'[0] = <<>> /\ writer'[0] = <<>>
  BY <1>2, FirstTypes DEF Up, ServerRestart
<1>4. PICK n \in 0..Len(s2c[0]) : s2c'[0] = SubSeq(s2c[0], 1, n)
  BY FirstTypes DEF ServerRestart, FirstSession
<1>5. Part(c2s[0], c2s'[0]) /\ Part(s2c[0], s2c'[0]) /\ CopyEnded(c2s'[0])
  BY <1>3, <1>4, PartPrefix, PartEmpty, CopyEndedEmpty, FirstTypes, SMT
<1>6. EntryInv'
  <2>1. Entries' = {} /\ Len(writer'[0]) <= 1
    BY <1>3, SMT DEF Entries, Range
  <2>. QED
    BY <1>3, <2>1 DEF EntryInv
<1>. QED
  BY <1>1, <1>2, <1>3, <1>5, <1>6, CutControl

-----------------------------------------------------------------------------
(* The first packet.                                                       *)
LEMMA InitKept ==
  ASSUME TypeOK, InitInv, Up' => Up,
         main' \in {"accept", "init"} =>
           /\ main \in {"accept", "init"}
           /\ \/ c2s'[0] = c2s[0]
              \/ Up /\ \E p : c2s'[0] = Append(c2s[0], p)
              \/ ~Up' /\ \E n \in 0..Len(c2s[0]) : c2s'[0] = SubSeq(c2s[0], 1, n)
              \/ ~Up' /\ c2s'[0] = <<>>
  PROVE  InitInv'
<1> SUFFICES ASSUME main' \in {"accept", "init"}, Up' \/ c2s'[0] # <<>>
             PROVE  c2s'[0] # <<>> /\ c2s'[0][1].type = "InfoInit"
  BY  DEF InitInv
<1>1. main \in {"accept", "init"}
  OBVIOUS
<1>2. CASE c2s'[0] = c2s[0]
  BY <1>1, <1>2 DEF InitInv
<1>3. CASE Up /\ \E p : c2s'[0] = Append(c2s[0], p)
  <2>1. PICK p : c2s'[0] = Append(c2s[0], p)
    BY <1>3
  <2>2. c2s[0] # <<>> /\ c2s[0][1].type = "InfoInit" /\ c2s[0] \in Seq(Packet)
    BY <1>1, <1>3, FirstTypes DEF InitInv
  <2>3. 1 \in 1..Len(c2s[0])
    BY <2>2, TailAt, SMT
  <2>4. Len(c2s[0]) \in Nat /\ Len(c2s'[0]) = Len(c2s[0]) + 1 /\ c2s'[0][1] = c2s[0][1]
    BY <2>1, <2>2, <2>3, AppendAt, SMT
  <2>5. c2s'[0] # <<>>
    <3>1. Len(<<>>) = 0 /\ Len(c2s'[0]) # 0
      BY <2>4, EmptySeq, SMT
    <3>. QED
      BY <3>1
  <2>. QED
    BY <2>2, <2>4, <2>5
<1>4. CASE ~Up' /\ \E n \in 0..Len(c2s[0]) : c2s'[0] = SubSeq(c2s[0], 1, n)
  <2>1. PICK n \in 0..Len(c2s[0]) : c2s'[0] = SubSeq(c2s[0], 1, n)
    BY <1>4
  <2>2. Len(c2s[0]) \in Nat /\ Len(c2s'[0]) = n /\ \A i \in 1..n : c2s'[0][i] = c2s[0][i]
    BY <2>1, FirstTypes, PrefixAt, SMT
  <2>3. c2s'[0] # <<>>
    BY <1>4
  <2>4. c2s'[0] \in Seq(Packet)
    <3>1. \A i \in 1..n : c2s[0][i] \in Packet
      BY <2>2, FirstTypes, ElementOfSeq, SMT
    <3>. QED
      BY <2>1, <2>2, <3>1, SubSeqProperties, SMT
  <2>5. n # 0
    BY <2>2, <2>3, <2>4, EmptySeq
  <2>6. 1 \in 1..n /\ Len(c2s[0]) # 0
    BY <2>2, <2>5, SMT
  <2>7. c2s[0] # <<>>
    BY <2>6, EmptySeq
  <2>. QED
    BY <1>1, <2>2, <2>3, <2>6, <2>7 DEF InitInv
<1>5. CASE ~Up' /\ c2s'[0] = <<>>
  BY <1>5
<1>. QED
  BY <1>2, <1>3, <1>4, <1>5

LEMMA ClientInit ==
  ASSUME TypeOK, SessionInv, FirstSession, FirstSession', InitInv, Client
  PROVE  InitInv'
<1>0. ~Reconnect
  <2>1. Reconnect => cur' = cur + 1
    BY DEF Reconnect
  <2>. QED
    BY <2>1, SMT DEF FirstSession
<1>1. main' = main
  <2>1. CASE Monitor
    BY <2>1 DEF Monitor, WaitIfPaused, MonitorRead, MonitorCheck, MonitorSend, MonitorStartHashing,
                ResetRing, PauseMonitor, RequestScan, server
  <2>2. CASE Listener
    BY <2>2 DEF Listener, ReceiveHash, ReceiveStartHashing, ReceiveHashingCompleted, ReceiveError,
                Received, SendBuffer, ListenerSend, Resume, SendHashingCompleted, ListenerStartHashing,
                DetectClosed, Reconnect, CloseClientConn, ResetRing, PauseMonitor, RequestScan, server
  <2>3. CASE InitHashing \/ InitReplication
    BY <2>3 DEF InitHashing, CompareHash, SendCorrectBlock, WorkerStartHashing, ResetRing, PauseMonitor,
                RequestScan, InitReplication, ReadBlock, SendReplicationBlock, SendReplicationCompleted,
                ReplicationResume, server
  <2>. QED
    BY <2>1, <2>2, <2>3 DEF Client
<1>2. \/ UNCHANGED <<c2s, link>> \/ (\E p : ToServer(p) /\ UNCHANGED link) \/ CloseClientConn
  <2>1. CASE Monitor
    BY <2>1 DEF Monitor, WaitIfPaused, MonitorRead, MonitorCheck, MonitorSend, MonitorStartHashing,
                ResetRing, PauseMonitor, RequestScan, net
  <2>2. CASE Listener
    BY <1>0, <2>2 DEF Listener, ReceiveHash, ReceiveStartHashing, ReceiveHashingCompleted, ReceiveError,
                Received, SendBuffer, ListenerSend, Resume, SendHashingCompleted, ListenerStartHashing,
                DetectClosed, ResetRing, PauseMonitor, RequestScan, net
  <2>3. CASE InitHashing \/ InitReplication
    BY <2>3 DEF InitHashing, CompareHash, SendCorrectBlock, WorkerStartHashing, ResetRing, PauseMonitor,
                RequestScan, InitReplication, ReadBlock, SendReplicationBlock, SendReplicationCompleted,
                ReplicationResume, net
  <2>. QED
    BY <2>1, <2>2, <2>3 DEF Client
<1>3. CASE UNCHANGED <<c2s, link>>
  BY <1>1, <1>3, InitKept DEF Up
<1>4. CASE \E p : ToServer(p) /\ UNCHANGED link
  <2>1. PICK p : ToServer(p) /\ UNCHANGED link
    BY <1>4
  <2>2. Up /\ c2s'[0] = Append(c2s[0], p) /\ (Up' => Up)
    BY <2>1, SendsFirst DEF Up
  <2>. QED
    BY <1>1, <2>2, InitKept
<1>5. CASE CloseClientConn
  <2>1. cur = 0 /\ link' = [link EXCEPT ![cur] = "dead"]
    BY <1>5 DEF CloseClientConn, FirstSession
  <2>2. ~Up'
    BY <2>1, FirstTypes DEF Up
  <2>3. PICK m \in 0..Len(c2s[0]) : c2s'[0] = SubSeq(c2s[0], 1, m)
    BY <1>5, <2>1, FirstTypes DEF CloseClientConn
  <2>. QED
    BY <1>1, <2>2, <2>3, InitKept
<1>. QED
  BY <1>2, <1>3, <1>4, <1>5

LEMMA ServerInit ==
  ASSUME TypeOK, FirstSession, InitInv, Server
  PROVE  InitInv'
<1>1. CASE LeaveClient
  <2>1. ses = 0
    BY <1>1, ServesFirst DEF LeaveClient, TypeOK, ServerType
  <2>2. ~Up' /\ c2s'[0] = <<>>
    BY <1>1, <2>1, FirstTypes DEF Up, LeaveClient
  <2>. QED
    BY <2>2 DEF InitInv
<1>2. CASE MainLoop /\ ~LeaveClient
  <2>1. main' \in {"accept", "init"} => main \in {"accept", "init"} /\ UNCHANGED <<c2s, link>>
    BY <1>2 DEF MainLoop, AcceptClient, HandleInit, CheckValidSizes, DetectDisconnect, HandleCmdStartHashing,
              HandleCmdStartFullScan, HandleInfoStartReplication, HandleCommand, StartScan,
              StartReplication, HandleBufferWrite, HandleCorrectBlock, HandleReplicationBlock,
              HandleHashingCompleted, HandleReplicationCompleted, HandleCompleted, Arrived,
              HandleJournalWriting, HandleReplicationWriting, ScanEnds, net
  <2>. QED
    BY <2>1 DEF InitInv, Up
<1>3. CASE HashDisk \/ QueueWorkers
  <2>1. UNCHANGED <<main, c2s, link>>
    BY <1>3 DEF HashDisk, HashDiskReset, HashBlock, HashDiskEnd, QueueWorkers, HandleJournalPacket,
              HandleReplicationPacket, WritePackets, TakeWritePacket, HandleWritePacket,
              HandleCorrectPacket, net
  <2>. QED
    BY <2>1 DEF InitInv, Up
<1>. QED
  BY <1>1, <1>2, <1>3 DEF Server


LEMMA InitStep ==
  ASSUME TypeOK, SessionInv, FirstSession, FirstSession', InitInv, [Next]_vars
  PROVE  InitInv'
<1>1. CASE UNCHANGED vars \/ Applications
  BY <1>1 DEF vars, net, server, Applications, IssueWrite, CompleteWrite, InitInv, Up
<1>2. CASE ServerRestart
  <2>1. ~Up' /\ c2s'[0] = <<>>
    BY <1>2, FirstTypes DEF Up, ServerRestart
  <2>. QED
    BY <2>1 DEF InitInv
<1>3. ASSUME NEW k \in Conns, Break(k) PROVE InitInv'
  <2>0. main' = main
    BY <1>3 DEF Break, server
  <2>1. CASE k = 0
    <3>1. ~Up'
      BY <1>3, <2>1, FirstTypes DEF Up, Break
    <3>2. PICK m \in 0..Len(c2s[0]) : c2s'[0] = SubSeq(c2s[0], 1, m)
      BY <1>3, <2>1, FirstTypes DEF Break
    <3>. QED
      BY <2>0, <3>1, <3>2, InitKept
  <2>2. CASE k # 0
    <3>1. c2s'[0] = c2s[0] /\ link'[0] = link[0]
      BY <1>3, <2>2, FirstTypes DEF Break
    <3>. QED
      BY <2>0, <3>1 DEF InitInv, Up
  <2>. QED
    BY <2>1, <2>2
<1>. QED
  BY <1>1, <1>2, <1>3, ClientInit, ServerInit DEF Next
-----------------------------------------------------------------------------
LEMMA InitControl == Init => ControlInv /\ InitInv
<1> SUFFICES ASSUME Init PROVE ControlInv /\ InitInv
  OBVIOUS
<1>1. /\ c2s = [k \in Conns |-> IF k = 0 THEN <<InitInfo>> ELSE <<>>] /\ s2c = [k \in Conns |-> <<>>]
      /\ main = "accept" /\ hasher.pc = "idle" /\ repl.pc = "off" /\ ~replOn /\ state = "Disconnected"
      /\ resets = <<>> /\ hashQueue = {} /\ compared = {} /\ repl.read = {}
      /\ writeQueue = [k \in Conns |-> <<>>] /\ writer = [k \in Conns |-> <<>>]
  BY DEF Init, NewClient, NewServer
<1>2. 0 \in Conns /\ c2s[0] = <<InitInfo>> /\ s2c[0] = <<>> /\ writeQueue[0] = <<>> /\ writer[0] = <<>>
  BY <1>1, ConstantsAssumption, SMT DEF Conns
<1>3. Len(c2s[0]) = 1 /\ c2s[0][1].type = "InfoInit" /\ c2s[0] # <<>>
  BY <1>2, SMT DEF InitInfo
<1>4. \A types : "InfoInit" \notin types => ~Holds(c2s[0], types)
  BY <1>3, SMT DEF Holds
<1>5. Len(s2c[0]) = 0 /\ epoch = 0
  BY <1>1, <1>2, EmptySeq DEF epoch
<1>6. /\ mon.pc \in {"wait", "reset"} /\ lis.pc \in {"receive", "starting"}
      /\ mon.batch = <<>> /\ lis.batch = <<>> /\ current.scan \in {0, -1}
      /\ synced = "prefix" => mon.kind = "scan"
      /\ mon.kind # "scan" => mon.pc = "reset"
  BY SMT DEF Init, NoScan, Unknown
<1>7. ~Accepted /\ ~Hashing /\ ~Announced /\ ~Comparing
  BY <1>1, <1>5, SMT DEF Accepted, Hashing, Announced, Comparing, Holds
<1>8. ScanNumbers
  <2>1. ~Resetting
    BY <1>6 DEF Resetting
  <2>2. \A i \in 1..Len(c2s[0]) : Numbered(c2s[0][i])
    BY <1>3, SMT DEF Numbered, Commands, Scans, Copies
  <2>3. current.scan <= epoch
    BY <1>5, <1>6, SMT
  <2>. QED
    BY <1>5, <1>6, <1>7, <2>1, <2>2, <2>3, SMT DEF ScanNumbers
<1>9. EntryInv
  <2>1. Entries = {} /\ Len(writer[0]) <= 1
    BY <1>2, SMT DEF Entries, Range
  <2>. QED
    BY <1>2, <2>1 DEF EntryInv
<1>10. HashInv
  <2>1. ~Finishing
    BY <1>1, <1>3, <1>6, SMT DEF Finishing, Completion
  <2>2. InOrder /\ EndsLast(s2c[0])
    BY <1>3, <1>5, SMT DEF InOrder, EndsLast
  <2>. QED
    BY <1>1, <1>6, <1>7, <2>1, <2>2 DEF HashInv
<1>11. CopyInv
  <2>1. ~Holds(c2s[0], Copies) /\ ~Holds(c2s[0], {"InfoStartReplication"})
        /\ ~Holds(c2s[0], Commands \union {"InfoReplicationCompleted"})
    <3>1. "InfoInit" \notin Copies /\ "InfoInit" \notin Commands \union {"InfoReplicationCompleted"}
      BY DEF Copies, Commands, Scans
    <3>. QED
      BY <1>4, <3>1
  <2>2. ~CopyOpen
    BY <1>1, <2>1 DEF CopyOpen
  <2>. QED
    BY <1>1, <1>6, <2>1, <2>2 DEF CopyInv, Requesting
<1>12. BatchInv
  BY <1>1, <1>6 DEF BatchInv
<1>13. InitInv
  BY <1>3 DEF InitInv
<1>. QED
  BY <1>8, <1>9, <1>10, <1>11, <1>12, <1>13 DEF ControlInv

LEMMA ClientControl ==
  ASSUME TypeOK, SessionInv, FirstSession, FirstSession', ControlInv, Client
  PROVE  ControlInv'
<1>1. ASSUME Monitor PROVE ControlInv'
  BY <1>1, MonitorControl, MonitorSendControl, MonitorStartHashingControl DEF Monitor
<1>2. ASSUME Listener PROVE ControlInv'
  <2>1. ASSUME Reconnect PROVE FALSE
    <3>1. cur = 0 /\ cur' = 0 /\ cur' = cur + 1
      BY <2>1 DEF Reconnect, FirstSession
    <3>. QED
      BY <3>1, SMT
  <2>. QED
    BY <1>2, <2>1, ReceivedControl, ReceiveHashingCompletedControl, ListenerControl, ListenerSendControl,
       SendHashingCompletedControl, ListenerStartHashingControl, CloseClientConnControl DEF Listener
<1>3. ASSUME InitHashing PROVE ControlInv'
  <2>1. ~WorkerStartHashing
    BY DEF WorkerStartHashing, SessionInv
  <2>. QED
    BY <1>3, <2>1, CompareHashControl, SendCorrectBlockControl DEF InitHashing
<1>4. ASSUME InitReplication PROVE ControlInv'
  BY <1>4, CopyLocalControl, SendReplicationBlockControl, SendReplicationCompletedControl DEF InitReplication
<1>. QED
  BY <1>1, <1>2, <1>3, <1>4 DEF Client

LEMMA ServerControl ==
  ASSUME TypeOK, SessionInv, FirstSession, ControlInv, InitInv, Server
  PROVE  ControlInv'
<1>1. ASSUME MainLoop PROVE ControlInv'
  BY <1>1, AcceptClientControl, HandleInitControl, DetectDisconnectControl, LeaveClientControl,
     HandleCmdStartHashingControl, HandleCmdStartFullScanControl, HandleInfoStartReplicationControl,
     StartScanControl, StartReplicationControl, HandleBufferWriteControl, BlockArrivesControl,
     HandleHashingCompletedControl, HandleReplicationCompletedControl, ScanEndsControl DEF MainLoop
<1>2. ASSUME HashDisk PROVE ControlInv'
  BY <1>2, HashDiskResetControl, HashBlockControl, HashDiskEndControl DEF HashDisk
<1>3. ASSUME QueueWorkers PROVE ControlInv'
  BY <1>3, HandleJournalPacketControl, WritePacketsControl, SilentControl DEF QueueWorkers
<1>. QED
  BY <1>1, <1>2, <1>3 DEF Server

LEMMA ControlStep ==
  ASSUME TypeOK, SessionInv, FirstSession, FirstSession', ControlInv, InitInv, [Next]_vars
  PROVE  ControlInv' /\ InitInv'
<1>1. ControlInv'
  BY ClientControl, ServerControl, SilentControl, BreakControl, ServerRestartControl DEF Next
<1>. QED
  BY <1>1, InitStep
=============================================================================
