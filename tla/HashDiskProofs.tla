--------------------------- MODULE HashDiskProofs ---------------------------
(***************************************************************************)
(* The safety properties of HashDisk, for any number of chunks and of      *)
(* goroutines per pool.                                                    *)
(***************************************************************************)
EXTENDS HashDisk, FiniteSetTheorems, TLAPS

(* The places of a chunk, one after the other: EveryChunkOnce without the  *)
(* tuple Places.                                                           *)
InOnePlace(c) ==
  /\ c \in todo \/ c \in tasks \/ c \in reading \/ c \in failing \/ c \in work
     \/ c \in hashing \/ c \in results \/ c \in sending \/ c \in sent \/ c \in lost
  /\ c \in todo => c \notin tasks /\ c \notin reading /\ c \notin failing /\ c \notin work
       /\ c \notin hashing /\ c \notin results /\ c \notin sending /\ c \notin sent /\ c \notin lost
  /\ c \in tasks => c \notin reading /\ c \notin failing /\ c \notin work
       /\ c \notin hashing /\ c \notin results /\ c \notin sending /\ c \notin sent /\ c \notin lost
  /\ c \in reading => c \notin failing /\ c \notin work
       /\ c \notin hashing /\ c \notin results /\ c \notin sending /\ c \notin sent /\ c \notin lost
  /\ c \in failing => c \notin work
       /\ c \notin hashing /\ c \notin results /\ c \notin sending /\ c \notin sent /\ c \notin lost
  /\ c \in work =>
       c \notin hashing /\ c \notin results /\ c \notin sending /\ c \notin sent /\ c \notin lost
  /\ c \in hashing => c \notin results /\ c \notin sending /\ c \notin sent /\ c \notin lost
  /\ c \in results => c \notin sending /\ c \notin sent /\ c \notin lost
  /\ c \in sending => c \notin sent /\ c \notin lost
  /\ c \in sent => c \notin lost

Partition == \A c \in Chunks : InOnePlace(c)

(* A chunk whose read failed goes past the hashers.                        *)
FailedPastHashers ==
  /\ failing \subseteq failed
  /\ \A c \in failed : c \notin todo /\ c \notin tasks /\ c \notin reading /\ c \notin work
                       /\ c \notin hashing

(* Without a termination a reader returns only after a failed read, or     *)
(* when the generator closed its channel and no task is left.              *)
ReadersGone ==
  ~terminated =>
    /\ gen = "closed" => todo = {}
    /\ \/ readers + Cardinality(failed \ failing) = NumWorkers
       \/ gen = "closed" /\ tasks = {}

(* A pool's channel is closed when the pool before it is gone; without a   *)
(* termination its goroutines return only when the channel is closed and   *)
(* empty, and nothing is given up unless the connection broke.             *)
ClosedInOrder ==
  /\ workClosed => readers = 0
  /\ resultClosed => hashers = 0
  /\ ~terminated /\ hashers < NumWorkers => workClosed /\ work = {}
  /\ ~terminated /\ up /\ senders < NumWorkers => resultClosed /\ results = {}
  /\ ~terminated /\ up => lost = {}

IInv ==
  /\ TypeOK /\ Partition /\ FailedPastHashers /\ ReadersGone /\ ClosedInOrder
  /\ ScanComplete /\ NoPanic

(* Cardinalities of the sets of chunks that a step makes.                  *)
LEMMA ChunkSets ==
  ASSUME NEW S, S \subseteq Chunks
  PROVE  /\ IsFiniteSet(S) /\ Cardinality(S) \in Nat
         /\ Cardinality(S) = 0 <=> S = {}
         /\ \A c : c \in S => Cardinality(S \ {c}) = Cardinality(S) - 1
         /\ \A c : c \notin S => Cardinality(S \union {c}) = Cardinality(S) + 1
<1>1. IsFiniteSet(S)
  BY PoolAssumption, FS_Subset
<1> QED
  BY <1>1, FS_CardinalityType, FS_EmptySet, FS_AddElement, FS_RemoveElement, Zenon

(* The three parts of TypeOK, which are proved apart.                      *)
SetsOK ==
  /\ pc \in {"start", "run", "returned", "none"}
  /\ gen \in {"check", "send", "closed"}
  /\ todo \subseteq Chunks /\ tasks \subseteq Chunks /\ reading \subseteq Chunks
  /\ failing \subseteq Chunks /\ work \subseteq Chunks /\ hashing \subseteq Chunks
  /\ results \subseteq Chunks /\ sending \subseteq Chunks /\ sent \subseteq Chunks
  /\ lost \subseteq Chunks /\ failed \subseteq Chunks

FlagsOK ==
  /\ workClosed \in BOOLEAN /\ resultClosed \in BOOLEAN /\ announced \in BOOLEAN
  /\ terminated \in BOOLEAN /\ up \in BOOLEAN /\ panicked \in BOOLEAN

BoundsOK ==
  /\ readers \in 0..NumWorkers /\ hashers \in 0..NumWorkers /\ senders \in 0..NumWorkers
  /\ Cardinality(tasks) <= NumWorkers /\ Cardinality(work) <= NumWorkers
  /\ Cardinality(results) <= NumWorkers
  /\ Cardinality(reading \union failing) <= readers
  /\ Cardinality(hashing) <= hashers /\ Cardinality(sending) <= senders

LEMMA TypeOKParts == TypeOK <=> SetsOK /\ FlagsOK /\ BoundsOK
BY Zenon DEF TypeOK, SetsOK, FlagsOK, BoundsOK

LEMMA InitIInv == Init => IInv
<1> SUFFICES ASSUME Init PROVE IInv
  OBVIOUS
<1>1. Cardinality({}) = 0
  BY FS_EmptySet
<1>2. failed \ failing = {} /\ reading \union failing = {}
  BY DEF Init
<1>3. TypeOK
  <2>1. SetsOK
    BY DEF Init, SetsOK
  <2>2. FlagsOK
    BY Zenon DEF Init, FlagsOK
  <2>3. BoundsOK
    BY <1>1, <1>2, PoolAssumption DEF Init, BoundsOK
  <2> QED
    BY <2>1, <2>2, <2>3, TypeOKParts
<1>4. Partition
  BY DEF Init, Partition, InOnePlace
<1>5. FailedPastHashers /\ ClosedInOrder /\ ScanComplete /\ NoPanic
  BY PoolAssumption DEF Init, FailedPastHashers, ClosedInOrder, ScanComplete, NoPanic
<1>6. ReadersGone
  BY <1>1, <1>2, PoolAssumption DEF Init, ReadersGone
<1> QED
  BY <1>3, <1>4, <1>5, <1>6 DEF IInv
-----------------------------------------------------------------------------
LEMMA NextSets == SetsOK /\ [Next]_vars => SetsOK'
<1> SUFFICES ASSUME SetsOK, [Next]_vars PROVE SetsOK'
  OBVIOUS
<1> USE DEF SetsOK, generator, readerPool, hasherPool, senderPool, env
<1>1. CASE Begin \/ Terminate \/ Break \/ CloseWork \/ CloseResults \/ Complete
  BY <1>1 DEF Begin, Terminate, Break, CloseWork, CloseResults, Complete
<1>2. CASE Generator
  BY <1>2 DEF Generator, GeneratorCheck, GeneratorSend
<1>3. CASE Readers
  BY <1>3 DEF Readers, ReaderTake, ReaderSend, ReaderReport, ReaderExit
<1>4. CASE \E c \in Chunks : ReadFails(c)
  BY <1>4 DEF ReadFails
<1>5. CASE Hashers
  BY <1>5 DEF Hashers, HasherTake, HasherSend, HasherExit
<1>6. CASE Senders
  BY <1>6 DEF Senders, SenderTake, SenderSend, SenderExit
<1>7. CASE UNCHANGED vars
  BY <1>7 DEF vars
<1> QED
  BY <1>1, <1>2, <1>3, <1>4, <1>5, <1>6, <1>7 DEF Next

LEMMA NextFlags == FlagsOK /\ [Next]_vars => FlagsOK'
<1> SUFFICES ASSUME FlagsOK, [Next]_vars PROVE FlagsOK'
  OBVIOUS
<1> USE DEF FlagsOK, generator, readerPool, hasherPool, senderPool, env
<1>1. CASE Begin \/ Terminate \/ Break \/ CloseWork \/ CloseResults \/ Complete
  BY <1>1, Zenon DEF Begin, Terminate, Break, CloseWork, CloseResults, Complete
<1>2. CASE Generator
  BY <1>2 DEF Generator, GeneratorCheck, GeneratorSend
<1>3. CASE Readers
  BY <1>3, Zenon DEF Readers, ReaderTake, ReaderSend, ReaderReport, ReaderExit
<1>4. CASE \E c \in Chunks : ReadFails(c)
  BY <1>4 DEF ReadFails
<1>5. CASE Hashers
  BY <1>5 DEF Hashers, HasherTake, HasherSend, HasherExit
<1>6. CASE Senders
  BY <1>6 DEF Senders, SenderTake, SenderSend, SenderExit
<1>7. CASE UNCHANGED vars
  BY <1>7 DEF vars
<1> QED
  BY <1>1, <1>2, <1>3, <1>4, <1>5, <1>6, <1>7 DEF Next

(* Every step moves at most one chunk from one place to another.           *)
LEMMA NextPartition == SetsOK /\ Partition /\ [Next]_vars => Partition'
<1> SUFFICES ASSUME SetsOK, Partition, [Next]_vars, NEW d \in Chunks PROVE InOnePlace(d)'
  BY DEF Partition
<1>0. InOnePlace(d)
  BY DEF Partition
<1> USE DEF InOnePlace, generator, readerPool, hasherPool, senderPool, env
<1>1. CASE Begin \/ Terminate \/ Break \/ CloseWork \/ CloseResults \/ Complete
  BY <1>0, <1>1 DEF Begin, Terminate, Break, CloseWork, CloseResults, Complete
<1>2. CASE Generator
  BY <1>0, <1>2 DEF Generator, GeneratorCheck, GeneratorSend
<1>3. CASE Readers
  <2>1. CASE \E c \in Chunks : ReaderTake(c)
    BY <1>0, <2>1 DEF ReaderTake
  <2>2. CASE \E c \in Chunks : ReaderSend(c)
    BY <1>0, <2>2 DEF ReaderSend
  <2>3. CASE \E c \in Chunks : ReaderReport(c)
    BY <1>0, <2>3 DEF ReaderReport
  <2>4. CASE ReaderExit
    BY <1>0, <2>4 DEF ReaderExit
  <2> QED
    BY <1>3, <2>1, <2>2, <2>3, <2>4 DEF Readers
<1>4. CASE \E c \in Chunks : ReadFails(c)
  BY <1>0, <1>4 DEF ReadFails
<1>5. CASE Hashers
  BY <1>0, <1>5 DEF Hashers, HasherTake, HasherSend, HasherExit
<1>6. CASE Senders
  BY <1>0, <1>6 DEF Senders, SenderTake, SenderSend, SenderExit
<1>7. CASE UNCHANGED vars
  BY <1>0, <1>7 DEF vars
<1> QED
  BY <1>1, <1>2, <1>3, <1>4, <1>5, <1>6, <1>7 DEF Next

LEMMA NextBounds ==
  SetsOK /\ BoundsOK /\ Partition /\ [Next]_vars => BoundsOK'
<1> SUFFICES ASSUME SetsOK, BoundsOK, Partition, [Next]_vars PROVE BoundsOK'
  OBVIOUS
<1>0. /\ NumWorkers \in Nat \ {0}
      /\ tasks \subseteq Chunks /\ work \subseteq Chunks /\ results \subseteq Chunks
      /\ reading \union failing \subseteq Chunks /\ hashing \subseteq Chunks
      /\ sending \subseteq Chunks
  BY PoolAssumption DEF SetsOK
<1> USE DEF generator, readerPool, hasherPool, senderPool, env, Idle, HasRoom
<1>1. CASE Begin \/ Terminate \/ Break \/ CloseWork \/ CloseResults \/ Complete
  BY <1>1 DEF Begin, Terminate, Break, CloseWork, CloseResults, Complete, BoundsOK
<1>2. CASE Generator
  <2>1. CASE GeneratorCheck
    BY <2>1 DEF GeneratorCheck, BoundsOK
  <2>2. ASSUME NEW c \in Chunks, GeneratorSend(c) PROVE BoundsOK'
    <3>1. c \notin tasks
      BY <2>2 DEF GeneratorSend, Partition, InOnePlace
    <3>2. Cardinality(tasks \union {c}) = Cardinality(tasks) + 1 /\ Cardinality(tasks) \in Nat
      BY <1>0, <3>1, ChunkSets
    <3> QED
      BY <1>0, <2>2, <3>2 DEF GeneratorSend, BoundsOK
  <2> QED
    BY <1>2, <2>1, <2>2 DEF Generator
<1>3. ASSUME NEW c \in Chunks, ReaderTake(c) PROVE BoundsOK'
  <2>1. c \notin reading \union failing /\ c \in tasks
    BY <1>3 DEF ReaderTake, Partition, InOnePlace
  <2>2. /\ Cardinality(tasks \ {c}) = Cardinality(tasks) - 1
        /\ Cardinality((reading \union failing) \union {c}) = Cardinality(reading \union failing) + 1
        /\ Cardinality(reading \union failing) \in Nat /\ Cardinality(tasks) \in Nat
    BY <1>0, <2>1, ChunkSets, Zenon
  <2>3. (reading \union {c}) \union failing = (reading \union failing) \union {c}
    OBVIOUS
  <2>4. /\ Cardinality(tasks') = Cardinality(tasks) - 1
        /\ \/ readers' = readers - 1 /\ reading' \union failing' = reading \union failing
           \/ readers' = readers /\ reading' \union failing' = (reading \union failing) \union {c}
        /\ Cardinality(reading \union failing) < readers
        /\ UNCHANGED <<work, results, hashers, hashing, senders, sending>>
    BY <1>3, <2>2, <2>3 DEF ReaderTake
  <2>5. \/ /\ readers' = readers - 1
           /\ Cardinality((reading \union failing)') = Cardinality(reading \union failing)
        \/ /\ readers' = readers
           /\ Cardinality((reading \union failing)') = Cardinality(reading \union failing) + 1
    BY <2>2, <2>4, Zenon
  <2> QED
    BY <1>0, <2>2, <2>4, <2>5 DEF BoundsOK
<1>4. ASSUME NEW c \in Chunks, ReaderSend(c) PROVE BoundsOK'
  <2>1. c \in reading \union failing /\ c \notin failing /\ c \notin work
    BY <1>4 DEF ReaderSend, Partition, InOnePlace
  <2>2. /\ Cardinality((reading \union failing) \ {c}) = Cardinality(reading \union failing) - 1
        /\ Cardinality(reading \union failing) \in Nat
        /\ Cardinality(work \union {c}) = Cardinality(work) + 1 /\ Cardinality(work) \in Nat
    BY <1>0, <2>1, ChunkSets
  <2>3. (reading \ {c}) \union failing = (reading \union failing) \ {c}
    BY <2>1
  <2>4. /\ reading' \union failing' = (reading \union failing) \ {c}
        /\ Cardinality(work') = Cardinality(work) + 1 /\ Cardinality(work) < NumWorkers
        /\ UNCHANGED <<tasks, results, readers, hashers, hashing, senders, sending>>
    BY <1>4, <2>2, <2>3 DEF ReaderSend
  <2> QED
    BY <1>0, <2>2, <2>4 DEF BoundsOK
<1>5. ASSUME NEW c \in Chunks, ReaderReport(c) PROVE BoundsOK'
  <2>1. c \in reading \union failing /\ c \notin reading /\ c \notin results
    BY <1>5 DEF ReaderReport, Partition, InOnePlace
  <2>2. /\ Cardinality((reading \union failing) \ {c}) = Cardinality(reading \union failing) - 1
        /\ Cardinality(reading \union failing) \in Nat
        /\ Cardinality(results \union {c}) = Cardinality(results) + 1 /\ Cardinality(results) \in Nat
        /\ Cardinality(reading \union failing) # 0
    BY <1>0, <2>1, ChunkSets
  <2>3. reading \union (failing \ {c}) = (reading \union failing) \ {c}
    BY <2>1
  <2>4. \/ UNCHANGED <<readers, reading, failing, results>>
        \/ /\ readers' = readers - 1 /\ reading' \union failing' = (reading \union failing) \ {c}
           /\ Cardinality(results') = Cardinality(results) + 1 /\ Cardinality(results) < NumWorkers
    BY <1>5, <2>2, <2>3 DEF ReaderReport
  <2>5. UNCHANGED <<tasks, work, hashers, hashing, senders, sending>>
    BY <1>5 DEF ReaderReport
  <2>6. \/ /\ readers' = readers
           /\ Cardinality((reading \union failing)') = Cardinality(reading \union failing)
           /\ Cardinality(results') = Cardinality(results)
        \/ /\ readers' = readers - 1
           /\ Cardinality((reading \union failing)') = Cardinality(reading \union failing) - 1
           /\ Cardinality(results') = Cardinality(results) + 1 /\ Cardinality(results) < NumWorkers
    BY <2>2, <2>4, Zenon
  <2> QED
    BY <1>0, <2>2, <2>5, <2>6 DEF BoundsOK
<1>6. ASSUME NEW c \in Chunks, ReadFails(c) PROVE BoundsOK'
  <2>1. (reading \ {c}) \union (failing \union {c}) = reading \union failing
    BY <1>6 DEF ReadFails
  <2> QED
    BY <1>6, <2>1 DEF ReadFails, BoundsOK
<1>7. CASE ReaderExit \/ HasherExit \/ SenderExit
  <2>1. /\ Cardinality(reading \union failing) \in Nat /\ Cardinality(hashing) \in Nat
        /\ Cardinality(sending) \in Nat
    BY <1>0, ChunkSets
  <2>2. CASE ReaderExit
    <3>1. /\ readers' = readers - 1 /\ Cardinality(reading \union failing) < readers
          /\ UNCHANGED <<tasks, work, results, reading, failing, hashers, hashing, senders, sending>>
      BY <2>2 DEF ReaderExit
    <3> QED
      BY <1>0, <2>1, <3>1 DEF BoundsOK
  <2>3. CASE HasherExit
    <3>1. /\ hashers' = hashers - 1 /\ Cardinality(hashing) < hashers
          /\ UNCHANGED <<tasks, work, results, readers, reading, failing, hashing, senders, sending>>
      BY <2>3 DEF HasherExit
    <3> QED
      BY <1>0, <2>1, <3>1 DEF BoundsOK
  <2>4. CASE SenderExit
    <3>1. /\ senders' = senders - 1 /\ Cardinality(sending) < senders
          /\ UNCHANGED <<tasks, work, results, readers, reading, failing, hashers, hashing, sending>>
      BY <2>4 DEF SenderExit
    <3> QED
      BY <1>0, <2>1, <3>1 DEF BoundsOK
  <2> QED
    BY <1>7, <2>2, <2>3, <2>4
<1>8. ASSUME NEW c \in Chunks, HasherTake(c) PROVE BoundsOK'
  <2>1. c \notin hashing /\ c \in work
    BY <1>8 DEF HasherTake, Partition, InOnePlace
  <2>2. /\ Cardinality(work \ {c}) = Cardinality(work) - 1 /\ Cardinality(work) \in Nat
        /\ Cardinality(hashing \union {c}) = Cardinality(hashing) + 1 /\ Cardinality(hashing) \in Nat
    BY <1>0, <2>1, ChunkSets
  <2>3. /\ Cardinality(work') = Cardinality(work) - 1
        /\ \/ hashers' = hashers - 1 /\ Cardinality(hashing') = Cardinality(hashing)
           \/ hashers' = hashers /\ Cardinality(hashing') = Cardinality(hashing) + 1
        /\ Cardinality(hashing) < hashers
        /\ UNCHANGED <<tasks, results, readers, reading, failing, senders, sending>>
    BY <1>8, <2>2, Zenon DEF HasherTake
  <2> QED
    BY <1>0, <2>2, <2>3 DEF BoundsOK
<1>9. ASSUME NEW c \in Chunks, HasherSend(c) PROVE BoundsOK'
  <2>1. c \in hashing /\ c \notin results
    BY <1>9 DEF HasherSend, Partition, InOnePlace
  <2>2. /\ Cardinality(hashing \ {c}) = Cardinality(hashing) - 1 /\ Cardinality(hashing) \in Nat
        /\ Cardinality(results \union {c}) = Cardinality(results) + 1 /\ Cardinality(results) \in Nat
    BY <1>0, <2>1, ChunkSets
  <2> QED
    BY <1>0, <1>9, <2>2 DEF HasherSend, BoundsOK
<1>10. ASSUME NEW c \in Chunks, SenderTake(c) PROVE BoundsOK'
  <2>1. c \notin sending /\ c \in results
    BY <1>10 DEF SenderTake, Partition, InOnePlace
  <2>2. /\ Cardinality(results \ {c}) = Cardinality(results) - 1 /\ Cardinality(results) \in Nat
        /\ Cardinality(sending \union {c}) = Cardinality(sending) + 1 /\ Cardinality(sending) \in Nat
    BY <1>0, <2>1, ChunkSets
  <2>3. /\ Cardinality(results') = Cardinality(results) - 1
        /\ \/ senders' = senders - 1 /\ Cardinality(sending') = Cardinality(sending)
           \/ senders' = senders /\ Cardinality(sending') = Cardinality(sending) + 1
        /\ Cardinality(sending) < senders
        /\ UNCHANGED <<tasks, work, readers, reading, failing, hashers, hashing>>
    BY <1>10, <2>2, Zenon DEF SenderTake
  <2> QED
    BY <1>0, <2>2, <2>3 DEF BoundsOK
<1>11. ASSUME NEW c \in Chunks, SenderSend(c) PROVE BoundsOK'
  <2>1. c \in sending
    BY <1>11 DEF SenderSend
  <2>2. /\ Cardinality(sending \ {c}) = Cardinality(sending) - 1 /\ Cardinality(sending) \in Nat
        /\ Cardinality(sending) # 0
    BY <1>0, <2>1, ChunkSets
  <2> QED
    BY <1>0, <1>11, <2>2 DEF SenderSend, BoundsOK
<1>12. CASE UNCHANGED vars
  BY <1>12 DEF vars, BoundsOK
<1> QED
  BY <1>1, <1>2, <1>3, <1>4, <1>5, <1>6, <1>7, <1>8, <1>9, <1>10, <1>11, <1>12
  DEF Next, Readers, Hashers, Senders

LEMMA NextFailed ==
  SetsOK /\ Partition /\ FailedPastHashers /\ [Next]_vars => FailedPastHashers'
<1> SUFFICES ASSUME SetsOK, Partition, FailedPastHashers, [Next]_vars PROVE FailedPastHashers'
  OBVIOUS
<1> USE DEF FailedPastHashers, generator, readerPool, hasherPool, senderPool, env
<1>1. CASE Begin \/ Terminate \/ Break \/ CloseWork \/ CloseResults \/ Complete
  BY <1>1 DEF Begin, Terminate, Break, CloseWork, CloseResults, Complete
<1>2. CASE Generator
  BY <1>2 DEF Generator, GeneratorCheck, GeneratorSend
<1>3. CASE Readers
  BY <1>3 DEF Readers, ReaderTake, ReaderSend, ReaderReport, ReaderExit
<1>4. ASSUME NEW c \in Chunks, ReadFails(c) PROVE FailedPastHashers'
  <2>1. c \notin todo /\ c \notin tasks /\ c \notin work /\ c \notin hashing
    BY <1>4 DEF ReadFails, Partition, InOnePlace
  <2> QED
    BY <1>4, <2>1 DEF ReadFails
<1>5. CASE Hashers
  BY <1>5 DEF Hashers, HasherTake, HasherSend, HasherExit
<1>6. CASE Senders
  BY <1>6 DEF Senders, SenderTake, SenderSend, SenderExit
<1>7. CASE UNCHANGED vars
  BY <1>7 DEF vars
<1> QED
  BY <1>1, <1>2, <1>3, <1>4, <1>5, <1>6, <1>7 DEF Next

(* A pool whose goroutines are all gone has no chunk in its hands.         *)
LEMMA EmptyHands ==
  SetsOK /\ BoundsOK =>
    /\ readers = 0 => reading = {} /\ failing = {}
    /\ hashers = 0 => hashing = {}
    /\ senders = 0 => sending = {}
<1> SUFFICES ASSUME SetsOK, BoundsOK
             PROVE  /\ readers = 0 => reading = {} /\ failing = {}
                    /\ hashers = 0 => hashing = {}
                    /\ senders = 0 => sending = {}
  OBVIOUS
<1>1. reading \union failing \subseteq Chunks /\ hashing \subseteq Chunks /\ sending \subseteq Chunks
  BY DEF SetsOK
<1>2. /\ Cardinality(reading \union failing) \in Nat
      /\ Cardinality(reading \union failing) = 0 <=> reading \union failing = {}
      /\ Cardinality(hashing) \in Nat /\ (Cardinality(hashing) = 0 <=> hashing = {})
      /\ Cardinality(sending) \in Nat /\ (Cardinality(sending) = 0 <=> sending = {})
  BY <1>1, ChunkSets
<1>3. readers = 0 => reading \union failing = {}
  BY <1>2 DEF BoundsOK
<1>4. (hashers = 0 => hashing = {}) /\ (senders = 0 => sending = {})
  BY <1>2 DEF BoundsOK
<1> QED
  BY <1>3, <1>4

LEMMA NextReadersGone ==
  /\ SetsOK /\ FlagsOK /\ BoundsOK /\ Partition /\ FailedPastHashers /\ ReadersGone
  /\ [Next]_vars
  => ReadersGone'
<1> SUFFICES ASSUME SetsOK, FlagsOK, BoundsOK, Partition, FailedPastHashers, ReadersGone,
                    [Next]_vars, ~terminated'
             PROVE  /\ gen' = "closed" => todo' = {}
                    /\ \/ readers' + Cardinality((failed \ failing)') = NumWorkers
                       \/ gen' = "closed" /\ tasks' = {}
  BY DEF ReadersGone
<1> USE DEF generator, readerPool, hasherPool, senderPool, env
<1>0. ~terminated
  BY DEF Next, vars, Begin, Generator, GeneratorCheck, GeneratorSend, Readers, ReaderTake,
     ReaderSend, ReaderReport, ReaderExit, ReadFails, CloseWork, Hashers, HasherTake, HasherSend,
     HasherExit, CloseResults, Senders, SenderTake, SenderSend, SenderExit, Complete, Terminate,
     Break, FlagsOK
<1>1. /\ gen = "closed" => todo = {}
      /\ \/ readers + Cardinality(failed \ failing) = NumWorkers
         \/ gen = "closed" /\ tasks = {}
  BY <1>0 DEF ReadersGone
<1>2. CASE UNCHANGED <<gen, todo, tasks, readers, failed, failing>>
  BY <1>1, <1>2
<1>3. CASE Generator
  BY <1>0, <1>1, <1>3 DEF Generator, GeneratorCheck, GeneratorSend
<1>4. CASE \E c \in Chunks : ReaderTake(c)
  BY <1>0, <1>1, <1>4 DEF ReaderTake
<1>5. ASSUME NEW c \in Chunks, ReaderReport(c)
      PROVE  /\ gen' = "closed" => todo' = {}
             /\ \/ readers' + Cardinality((failed \ failing)') = NumWorkers
                \/ gen' = "closed" /\ tasks' = {}
  <2>1. c \in failed /\ c \notin failed \ failing /\ failed \ failing \subseteq Chunks
    BY <1>5 DEF ReaderReport, FailedPastHashers, SetsOK
  <2>2. /\ Cardinality((failed \ failing) \union {c}) = Cardinality(failed \ failing) + 1
        /\ Cardinality(failed \ failing) \in Nat
    BY <2>1, ChunkSets
  <2>3. \/ UNCHANGED <<readers, failing, failed>>
        \/ readers' = readers - 1 /\ (failed \ failing)' = (failed \ failing) \union {c}
    BY <1>5, <2>1 DEF ReaderReport
  <2>4. \/ readers' = readers /\ Cardinality((failed \ failing)') = Cardinality(failed \ failing)
        \/ /\ readers' = readers - 1
           /\ Cardinality((failed \ failing)') = Cardinality(failed \ failing) + 1
    BY <2>2, <2>3, Zenon
  <2>5. UNCHANGED <<gen, todo, tasks>>
    BY <1>5 DEF ReaderReport
  <2>6. readers \in Int /\ NumWorkers \in Int
    BY PoolAssumption DEF BoundsOK
  <2> QED
    BY <1>1, <2>2, <2>4, <2>5, <2>6
<1>6. ASSUME NEW c \in Chunks, ReadFails(c)
      PROVE  /\ gen' = "closed" => todo' = {}
             /\ \/ readers' + Cardinality((failed \ failing)') = NumWorkers
                \/ gen' = "closed" /\ tasks' = {}
  <2>1. c \notin failed
    BY <1>6 DEF ReadFails, FailedPastHashers
  <2>2. (failed \ failing)' = failed \ failing
    BY <1>6, <2>1 DEF ReadFails
  <2> QED
    BY <1>1, <1>6, <2>2 DEF ReadFails
<1>7. CASE ReaderExit
  BY <1>1, <1>7 DEF ReaderExit
<1> QED
  BY <1>2, <1>3, <1>4, <1>5, <1>6, <1>7
  DEF Next, vars, Begin, Readers, ReaderSend, CloseWork, Hashers, HasherTake, HasherSend,
     HasherExit, CloseResults, Senders, SenderTake, SenderSend, SenderExit, Complete, Terminate,
     Break

LEMMA NextClosed ==
  SetsOK /\ FlagsOK /\ BoundsOK /\ ClosedInOrder /\ [Next]_vars => ClosedInOrder'
<1> SUFFICES ASSUME SetsOK, FlagsOK, BoundsOK, ClosedInOrder, [Next]_vars PROVE ClosedInOrder'
  OBVIOUS
<1>0. /\ readers = 0 => reading = {} /\ failing = {}
      /\ hashers = 0 => hashing = {}
      /\ readers \in Nat /\ hashers \in Nat /\ senders \in Nat
      /\ NumWorkers \in Nat /\ 0 < NumWorkers
  BY EmptyHands, PoolAssumption DEF BoundsOK
<1>a. /\ Cardinality(reading \union failing) \in Nat /\ Cardinality(hashing) \in Nat
  <2>1. reading \union failing \subseteq Chunks /\ hashing \subseteq Chunks
    BY DEF SetsOK
  <2> QED
    BY <2>1, ChunkSets
<1> USE DEF ClosedInOrder, generator, readerPool, hasherPool, senderPool, env, Idle, HasRoom
<1>1. CASE Begin \/ Complete \/ Generator
  BY <1>1 DEF Begin, Complete, Generator, GeneratorCheck, GeneratorSend
<1>2. CASE Terminate \/ Break
  BY <1>2 DEF Terminate, Break, FlagsOK
<1>3. CASE CloseWork \/ CloseResults
  BY <1>3 DEF CloseWork, CloseResults
<1>4. CASE \E c \in Chunks : ReaderTake(c)
  BY <1>0, <1>a, <1>4 DEF ReaderTake
<1>5. CASE \E c \in Chunks : ReaderSend(c)
  BY <1>0, <1>5 DEF ReaderSend
<1>6. ASSUME NEW c \in Chunks, ReaderReport(c) PROVE ClosedInOrder'
  <2>1. readers # 0
    BY <1>0, <1>6 DEF ReaderReport
  <2>2. ~workClosed
    BY <2>1
  <2>3. CASE resultClosed
    BY <1>6, <2>2, <2>3 DEF ReaderReport
  <2>4. CASE ~resultClosed
    BY <1>6, <2>2, <2>4 DEF ReaderReport
  <2> QED
    BY <2>3, <2>4
<1>7. CASE \E c \in Chunks : ReadFails(c)
  BY <1>7 DEF ReadFails
<1>8. CASE ReaderExit
  BY <1>0, <1>a, <1>8 DEF ReaderExit
<1>9. CASE \E c \in Chunks : HasherTake(c)
  BY <1>0, <1>a, <1>9 DEF HasherTake
<1>10. CASE \E c \in Chunks : HasherSend(c)
  BY <1>0, <1>10 DEF HasherSend
<1>11. CASE HasherExit
  BY <1>0, <1>a, <1>11 DEF HasherExit
<1>12. CASE Senders
  BY <1>0, <1>12 DEF Senders, SenderTake, SenderSend, SenderExit
<1>13. CASE UNCHANGED vars
  BY <1>13 DEF vars
<1> QED
  BY <1>1, <1>2, <1>3, <1>4, <1>5, <1>6, <1>7, <1>8, <1>9, <1>10, <1>11, <1>12, <1>13
  DEF Next, Readers, Hashers

(* Only a reader with a failed read sends on the closed channel, and       *)
(* without a termination all readers are gone when it is closed.           *)
LEMMA NextNoPanic == IInv /\ [Next]_vars => NoPanic'
<1> SUFFICES ASSUME IInv, [Next]_vars PROVE NoPanic'
  OBVIOUS
<1>0. /\ SetsOK /\ FlagsOK /\ BoundsOK /\ ClosedInOrder /\ NoPanic
  BY TypeOKParts DEF IInv
<1> USE DEF NoPanic, generator, readerPool, hasherPool, senderPool, env
<1>1. ASSUME NEW c \in Chunks, ReaderReport(c) PROVE NoPanic'
  <2>1. readers # 0 /\ 0 < NumWorkers
    BY <1>0, <1>1, EmptyHands, PoolAssumption DEF ReaderReport
  <2>2. resultClosed => terminated
    BY <1>0, <2>1 DEF ClosedInOrder
  <2> QED
    BY <1>0, <1>1, <2>2, Zenon DEF ReaderReport, FlagsOK
<1>2. CASE Terminate
  BY <1>0, <1>2 DEF Terminate
<1>3. CASE UNCHANGED <<panicked, terminated>>
  BY <1>0, <1>3
<1> QED
  BY <1>1, <1>2, <1>3, Zenon
  DEF Next, vars, Begin, Generator, GeneratorCheck, GeneratorSend, Readers, ReaderTake,
     ReaderSend, ReaderExit, ReadFails, CloseWork, Hashers, HasherTake, HasherSend,
     HasherExit, CloseResults, Senders, SenderTake, SenderSend, SenderExit, Complete, Break

(* When HashDisk announces its end without a termination, and not every    *)
(* reader failed, the pools are gone one after the other and nothing is    *)
(* left in a channel.                                                      *)
LEMMA CompleteSent ==
  ASSUME IInv, Complete, announced', ~terminated, Cardinality(failed) < NumWorkers
  PROVE  sent = Chunks
<1>0. SetsOK /\ FlagsOK /\ BoundsOK /\ ClosedInOrder /\ ReadersGone /\ Partition
  BY TypeOKParts DEF IInv
<1>1. up /\ senders = 0 /\ sending = {}
  BY <1>0, EmptyHands DEF Complete
<1>2. 0 < NumWorkers /\ NumWorkers \in Nat
  BY PoolAssumption
<1>3. resultClosed /\ results = {} /\ lost = {}
  BY <1>0, <1>1, <1>2 DEF ClosedInOrder
<1>4. hashers = 0 /\ hashing = {}
  BY <1>0, <1>3, EmptyHands DEF ClosedInOrder
<1>5. workClosed /\ work = {}
  BY <1>0, <1>2, <1>4 DEF ClosedInOrder
<1>6. readers = 0 /\ reading = {} /\ failing = {}
  BY <1>0, <1>5, EmptyHands DEF ClosedInOrder
<1>7. failed \ failing = failed /\ Cardinality(failed) \in Nat
  BY <1>0, <1>6, ChunkSets DEF SetsOK
<1>8. gen = "closed" /\ tasks = {} /\ todo = {}
  BY <1>0, <1>2, <1>6, <1>7 DEF ReadersGone
<1>9. \A c \in Chunks : c \in sent
  BY <1>0, <1>1, <1>3, <1>4, <1>5, <1>6, <1>8 DEF Partition, InOnePlace
<1> QED
  BY <1>0, <1>9 DEF SetsOK

LEMMA NextScanComplete == IInv /\ [Next]_vars => ScanComplete'
<1> SUFFICES ASSUME IInv, [Next]_vars, announced', ~terminated', Cardinality(failed') < NumWorkers
             PROVE  sent' = Chunks
  BY DEF ScanComplete
<1>0. SetsOK /\ FlagsOK /\ ScanComplete /\ NumWorkers \in Nat
  BY TypeOKParts, PoolAssumption DEF IInv
<1>1. SetsOK'
  BY <1>0, NextSets
<1> USE DEF generator, readerPool, hasherPool, senderPool, env
<1>2. CASE Complete
  <2>1. UNCHANGED <<terminated, failed, sent>>
    BY <1>2 DEF Complete
  <2> QED
    BY <1>2, <2>1, CompleteSent
<1>3. ASSUME NEW c \in Chunks, ReadFails(c) PROVE sent' = Chunks
  <2>1. /\ failed' = failed \union {c} /\ failed \subseteq Chunks
        /\ UNCHANGED <<terminated, announced, sent>>
    BY <1>0, <1>3, Zenon DEF ReadFails, SetsOK
  <2>2. Cardinality(failed) \in Nat /\ Cardinality(failed') \in {Cardinality(failed), Cardinality(failed) + 1}
    <3>1. CASE c \in failed
      <4>1. failed' = failed
        BY <2>1, <3>1
      <4> QED
        BY <2>1, <4>1, ChunkSets, Zenon
    <3>2. CASE c \notin failed
      BY <2>1, <3>2, ChunkSets
    <3> QED
      BY <3>1, <3>2
  <2>3. Cardinality(failed) < NumWorkers
    BY <1>0, <2>2
  <2> QED
    BY <1>0, <2>1, <2>3 DEF ScanComplete
<1>4. ASSUME UNCHANGED <<announced, failed>>, sent \subseteq sent', ~terminated
      PROVE  sent' = Chunks
  BY <1>0, <1>1, <1>4 DEF ScanComplete, SetsOK
<1>5. ~terminated
  BY <1>0, Zenon DEF Next, vars, Begin, Generator, GeneratorCheck, GeneratorSend, Readers, ReaderTake,
     ReaderSend, ReaderReport, ReaderExit, ReadFails, CloseWork, Hashers, HasherTake, HasherSend,
     HasherExit, CloseResults, Senders, SenderTake, SenderSend, SenderExit, Complete, Terminate,
     Break, FlagsOK
<1>6. CASE Begin \/ Generator \/ Readers \/ CloseWork \/ Hashers \/ CloseResults \/ Terminate
             \/ Break \/ UNCHANGED vars
  <2>1. UNCHANGED <<announced, failed, sent>>
    BY <1>6, Zenon DEF vars, Begin, Generator, GeneratorCheck, GeneratorSend, Readers, ReaderTake,
       ReaderSend, ReaderReport, ReaderExit, CloseWork, Hashers, HasherTake, HasherSend,
       HasherExit, CloseResults, Terminate, Break
  <2> QED
    BY <1>4, <1>5, <2>1, Zenon
<1>7. CASE Senders
  <2>1. UNCHANGED <<announced, failed>> /\ sent \subseteq sent'
    BY <1>7, Zenon DEF Senders, SenderTake, SenderSend, SenderExit
  <2> QED
    BY <1>4, <1>5, <2>1, Zenon
<1> QED
  BY <1>2, <1>3, <1>6, <1>7 DEF Next

LEMMA NextIInv == IInv /\ [Next]_vars => IInv'
<1> SUFFICES ASSUME IInv, [Next]_vars PROVE IInv'
  OBVIOUS
<1>1. /\ SetsOK /\ FlagsOK /\ BoundsOK /\ Partition /\ FailedPastHashers /\ ReadersGone
      /\ ClosedInOrder
  BY TypeOKParts DEF IInv
<1>2. SetsOK' /\ FlagsOK' /\ BoundsOK'
  BY <1>1, NextSets, NextFlags, NextBounds
<1>3. TypeOK'
  BY <1>2 DEF TypeOK, SetsOK, FlagsOK, BoundsOK
<1>4. Partition' /\ FailedPastHashers' /\ ReadersGone' /\ ClosedInOrder'
  BY <1>1, NextPartition, NextFailed, NextReadersGone, NextClosed
<1>5. ScanComplete' /\ NoPanic'
  BY NextScanComplete, NextNoPanic
<1> QED
  BY <1>3, <1>4, <1>5 DEF IInv

LEMMA Invariance == Spec => []IInv
<1>1. Init => IInv
  BY InitIInv
<1>2. IInv /\ [Next]_vars => IInv'
  BY NextIInv
<1> QED
  BY <1>1, <1>2, PTL DEF Spec
-----------------------------------------------------------------------------
(* HashDisk: pools and channels never hold more than they have room for.   *)
THEOREM TypeCorrect == Spec => []TypeOK
<1>1. IInv => TypeOK
  BY DEF IInv
<1> QED
  BY <1>1, Invariance, PTL

(* HashDisk: no chunk is hashed twice or disappears.                       *)
THEOREM ChunksKept == Spec => []EveryChunkOnce
<1>1. IInv => EveryChunkOnce
  <2> SUFFICES ASSUME IInv, NEW c \in Chunks
               PROVE  \E i \in 1..10 : /\ c \in Places[i]
                                       /\ \A j \in 1..10 \ {i} : c \notin Places[j]
    BY DEF EveryChunkOnce
  <2>1. InOnePlace(c)
    BY DEF IInv, Partition
  <2> QED
    BY <2>1 DEF InOnePlace, Places
<1> QED
  BY <1>1, Invariance, PTL

(* InfoHashingCompleted without a termination means that every chunk of    *)
(* the disk was answered for, unless as many reads failed as there are     *)
(* readers.                                                                *)
THEOREM CompleteScans == Spec => []ScanComplete
<1>1. IInv => ScanComplete
  BY DEF IInv
<1> QED
  BY <1>1, Invariance, PTL

(* The send on resultChan panics at most in a scan that was terminated.    *)
THEOREM PanicsOnlyTerminated == Spec => []NoPanic
<1>1. IInv => NoPanic
  BY DEF IInv
<1> QED
  BY <1>1, Invariance, PTL
=============================================================================
