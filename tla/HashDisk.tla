------------------------------ MODULE HashDisk ------------------------------
(***************************************************************************)
(* HashDisk of src/user/server/server.go in detail: a generator of read    *)
(* tasks, three pools of goroutines (readers, hashers, senders) and the    *)
(* channels between them, each closed by whoever waits for the pool before *)
(* it.  The goroutines of a pool are alike, so a pool is the number of its *)
(* goroutines that still run and the set of chunks in their hands; a       *)
(* channel is a bounded set, since several goroutines take from it and     *)
(* the order of the chunks is nobody's concern.                            *)
(*                                                                         *)
(* The whole scan may be terminated (close of termChan), a read may fail,  *)
(* and the connection may break, at any time.                              *)
(***************************************************************************)
EXTENDS Naturals, FiniteSets

CONSTANTS Chunks,       \* the pieces of hashedSpace bytes of the disk
          NumWorkers    \* goroutines per pool, and room in each channel

ASSUME PoolAssumption == IsFiniteSet(Chunks) /\ NumWorkers \in Nat \ {0}

VARIABLES
  pc,           \* HashDisk itself: "start", "run", "returned", or "none" if
                \* it returned before it started any goroutine
  gen, todo,    \* the generator, the chunks for which it made no task yet
  tasks,        \* readTaskChan
  readers, reading, failing,    \* readers; chunks they read; reads that failed
  work, workClosed,             \* workChan
  hashers, hashing,
  results, resultClosed,        \* resultChan; an item of a failed chunk is an error
  senders, sending,
  sent,         \* chunks whose hash, or whose failure, was sent
  lost,         \* chunks taken out of a channel and given up
  failed,       \* chunks whose read failed
  announced,    \* InfoHashingCompleted was sent
  terminated, up,   \* termChan is closed; the connection is up
  panicked      \* a reader sent on the closed resultChan

generator == <<gen, todo, tasks>>
readerPool == <<readers, reading, failing, failed>>
hasherPool == <<work, workClosed, hashers, hashing>>
senderPool == <<resultClosed, senders, sending, sent, announced>>
env == <<terminated, up>>
vars == <<pc, generator, readerPool, hasherPool, results, senderPool, lost, env, panicked>>

Init ==
  /\ pc = "start"
  /\ gen = "check" /\ todo = Chunks /\ tasks = {}
  /\ readers = NumWorkers /\ reading = {} /\ failing = {}
  /\ work = {} /\ workClosed = FALSE
  /\ hashers = NumWorkers /\ hashing = {}
  /\ results = {} /\ resultClosed = FALSE
  /\ senders = NumWorkers /\ sending = {}
  /\ sent = {} /\ lost = {} /\ failed = {} /\ announced = FALSE
  /\ terminated = FALSE /\ up = TRUE /\ panicked = FALSE

Running == pc \in {"run", "returned"} /\ ~panicked
Idle(count, hands) == Cardinality(hands) < count
HasRoom(channel) == Cardinality(channel) < NumWorkers

(* InfoStartHashing is sent; on a closed connection there is no scan.      *)
Begin ==
  /\ pc = "start"
  /\ pc' = IF up THEN "run" ELSE "none"
  /\ UNCHANGED <<generator, readerPool, hasherPool, results, senderPool, lost, env, panicked>>
-----------------------------------------------------------------------------
(* Mutant: readTaskChan is not closed when the scan is at its end.         *)
GeneratorCheckUnclosed ==
  /\ gen = "check"
  /\ todo # {} \/ terminated
  /\ gen' = IF terminated THEN "closed" ELSE "send"
  /\ UNCHANGED <<pc, todo, tasks, readerPool, hasherPool, results, senderPool, lost, env, panicked>>

(* The generator looks at termChan before each task, and not while it      *)
(* waits for room in readTaskChan.                                         *)
GeneratorCheck ==
  /\ gen = "check"
  /\ gen' = IF todo = {} \/ terminated THEN "closed" ELSE "send"
  /\ UNCHANGED <<pc, todo, tasks, readerPool, hasherPool, results, senderPool, lost, env, panicked>>

GeneratorSend(c) ==
  /\ gen = "send" /\ c \in todo
  /\ HasRoom(tasks)
  /\ gen' = "check"
  /\ todo' = todo \ {c}
  /\ tasks' = tasks \union {c}
  /\ UNCHANGED <<pc, readerPool, hasherPool, results, senderPool, lost, env, panicked>>
-----------------------------------------------------------------------------
(* A reader takes a task and returns if the scan was terminated.           *)
ReaderTake(c) ==
  /\ Idle(readers, reading \union failing)
  /\ c \in tasks
  /\ tasks' = tasks \ {c}
  /\ IF terminated
       THEN readers' = readers - 1 /\ lost' = lost \union {c} /\ UNCHANGED reading
       ELSE reading' = reading \union {c} /\ UNCHANGED <<readers, lost>>
  /\ UNCHANGED <<pc, gen, todo, failing, failed, hasherPool, results, senderPool, env, panicked>>

ReaderSend(c) ==
  /\ c \in reading
  /\ HasRoom(work)
  /\ reading' = reading \ {c}
  /\ work' = work \union {c}
  /\ UNCHANGED <<pc, generator, readers, failing, failed, workClosed, hashers, hashing, results>>
  /\ UNCHANGED <<senderPool, lost, env, panicked>>

(* Mutant: a reader whose read failed also passes the chunk on.            *)
ReadFailsContinuing(c) ==
  /\ c \in reading
  /\ failing' = failing \union {c}
  /\ failed' = failed \union {c}
  /\ UNCHANGED <<pc, generator, readers, reading, hasherPool, results, senderPool, lost, env, panicked>>

ReadFails(c) ==
  /\ c \in reading
  /\ reading' = reading \ {c}
  /\ failing' = failing \union {c}
  /\ failed' = failed \union {c}
  /\ UNCHANGED <<pc, generator, readers, hasherPool, results, senderPool, lost, env, panicked>>

(* Mutant: wg.Done is called on the error path and deferred as well.       *)
ReaderReportTwice(c) ==
  /\ c \in failing
  /\ ~resultClosed /\ HasRoom(results)
  /\ results' = results \union {c}
  /\ failing' = failing \ {c}
  /\ readers' = readers - 2
  /\ UNCHANGED <<pc, generator, reading, failed, hasherPool, senderPool, lost, env, panicked>>

(* A reader whose read failed reports it to the senders, past the hashers, *)
(* and returns.  To send on a closed channel is a panic.                   *)
ReaderReport(c) ==
  /\ c \in failing
  /\ IF resultClosed
       THEN panicked' = TRUE /\ UNCHANGED <<failing, readers, results>>
       ELSE /\ HasRoom(results)
            /\ results' = results \union {c}
            /\ failing' = failing \ {c}
            /\ readers' = readers - 1
            /\ UNCHANGED panicked
  /\ UNCHANGED <<pc, generator, reading, failed, hasherPool, senderPool, lost, env>>

(* Mutant: a reader returns when it finds no task, though more may come.   *)
ReaderExitEarly ==
  /\ Idle(readers, reading \union failing)
  /\ tasks = {}
  /\ readers' = readers - 1
  /\ UNCHANGED <<pc, generator, reading, failing, failed, hasherPool, results, senderPool>>
  /\ UNCHANGED <<lost, env, panicked>>

ReaderExit ==
  /\ Idle(readers, reading \union failing)
  /\ gen = "closed" /\ tasks = {}
  /\ readers' = readers - 1
  /\ UNCHANGED <<pc, generator, reading, failing, failed, hasherPool, results, senderPool>>
  /\ UNCHANGED <<lost, env, panicked>>

(* Mutant: workChan is closed as soon as one reader returned.              *)
CloseWorkEarly ==
  /\ readers < NumWorkers /\ ~workClosed
  /\ workClosed' = TRUE
  /\ UNCHANGED <<pc, generator, readerPool, work, hashers, hashing, results, senderPool>>
  /\ UNCHANGED <<lost, env, panicked>>

(* Mutant: workChan is never closed.                                       *)
CloseWorkForgotten ==
  /\ readers = 0 /\ ~workClosed
  /\ UNCHANGED vars

CloseWork ==
  /\ readers = 0 /\ ~workClosed
  /\ workClosed' = TRUE
  /\ UNCHANGED <<pc, generator, readerPool, work, hashers, hashing, results, senderPool>>
  /\ UNCHANGED <<lost, env, panicked>>
-----------------------------------------------------------------------------
HasherTake(c) ==
  /\ Idle(hashers, hashing)
  /\ c \in work
  /\ work' = work \ {c}
  /\ IF terminated
       THEN hashers' = hashers - 1 /\ lost' = lost \union {c} /\ UNCHANGED hashing
       ELSE hashing' = hashing \union {c} /\ UNCHANGED <<hashers, lost>>
  /\ UNCHANGED <<pc, generator, readerPool, workClosed, results, senderPool, env, panicked>>

HasherSend(c) ==
  /\ c \in hashing
  /\ HasRoom(results)
  /\ hashing' = hashing \ {c}
  /\ results' = results \union {c}
  /\ UNCHANGED <<pc, generator, readerPool, work, workClosed, hashers, senderPool, lost, env, panicked>>

HasherExit ==
  /\ Idle(hashers, hashing)
  /\ workClosed /\ work = {}
  /\ hashers' = hashers - 1
  /\ UNCHANGED <<pc, generator, readerPool, work, workClosed, hashing, results, senderPool>>
  /\ UNCHANGED <<lost, env, panicked>>

CloseResults ==
  /\ hashers = 0 /\ ~resultClosed
  /\ resultClosed' = TRUE
  /\ UNCHANGED <<pc, generator, readerPool, hasherPool, results, senders, sending, sent>>
  /\ UNCHANGED <<announced, lost, env, panicked>>
-----------------------------------------------------------------------------
SenderTake(c) ==
  /\ Idle(senders, sending)
  /\ c \in results
  /\ results' = results \ {c}
  /\ IF terminated
       THEN senders' = senders - 1 /\ lost' = lost \union {c} /\ UNCHANGED sending
       ELSE sending' = sending \union {c} /\ UNCHANGED <<senders, lost>>
  /\ UNCHANGED <<pc, generator, readerPool, hasherPool, resultClosed, sent, announced, env, panicked>>

(* Encode on a closed connection fails and ends the sender.                *)
SenderSend(c) ==
  /\ c \in sending
  /\ sending' = sending \ {c}
  /\ IF up THEN sent' = sent \union {c} /\ UNCHANGED <<senders, lost>>
           ELSE senders' = senders - 1 /\ lost' = lost \union {c} /\ UNCHANGED sent
  /\ UNCHANGED <<pc, generator, readerPool, hasherPool, results, resultClosed, announced, env, panicked>>

SenderExit ==
  /\ Idle(senders, sending)
  /\ resultClosed /\ results = {}
  /\ senders' = senders - 1
  /\ UNCHANGED <<pc, generator, readerPool, hasherPool, results, resultClosed, sending, sent>>
  /\ UNCHANGED <<announced, lost, env, panicked>>

(* HashDisk waits for the senders alone.                                   *)
Complete ==
  /\ pc = "run" /\ senders = 0
  /\ pc' = "returned"
  /\ announced' = up
  /\ UNCHANGED <<generator, readerPool, hasherPool, results, resultClosed, senders, sending, sent>>
  /\ UNCHANGED <<lost, env, panicked>>
-----------------------------------------------------------------------------
(* HandleClient closes termChan when a new scan is requested or the        *)
(* session ends.                                                           *)
Terminate ==
  /\ ~terminated
  /\ terminated' = TRUE
  /\ UNCHANGED <<pc, generator, readerPool, hasherPool, results, senderPool, lost, up, panicked>>

Break ==
  /\ up
  /\ up' = FALSE
  /\ UNCHANGED <<pc, generator, readerPool, hasherPool, results, senderPool, lost, terminated, panicked>>

Generator == GeneratorCheck \/ \E c \in Chunks : GeneratorSend(c)
Readers ==
  \/ \E c \in Chunks : ReaderTake(c) \/ ReaderSend(c) \/ ReaderReport(c)
  \/ ReaderExit
Hashers == (\E c \in Chunks : HasherTake(c) \/ HasherSend(c)) \/ HasherExit
Senders == (\E c \in Chunks : SenderTake(c) \/ SenderSend(c)) \/ SenderExit

Next ==
  \/ Begin
  \/ /\ Running
     /\ \/ Generator \/ Readers \/ CloseWork \/ Hashers \/ CloseResults \/ Senders \/ Complete
        \/ \E c \in Chunks : ReadFails(c)
  \/ Terminate \/ Break

Spec == Init /\ [][Next]_vars

(* Every goroutine that can go on is scheduled; nothing has to fail.       *)
Fairness ==
  /\ WF_vars(Begin)
  /\ WF_vars(Running /\ Generator) /\ WF_vars(Running /\ Readers) /\ WF_vars(Running /\ CloseWork)
  /\ WF_vars(Running /\ Hashers) /\ WF_vars(Running /\ CloseResults)
  /\ WF_vars(Running /\ Senders) /\ WF_vars(Running /\ Complete)

FairSpec == Spec /\ Fairness
-----------------------------------------------------------------------------
(* Pools and channels hold chunks and never more than they have room for.  *)
TypeOK ==
  /\ pc \in {"start", "run", "returned", "none"}
  /\ gen \in {"check", "send", "closed"}
  /\ todo \subseteq Chunks /\ tasks \subseteq Chunks /\ reading \subseteq Chunks
  /\ failing \subseteq Chunks /\ work \subseteq Chunks /\ hashing \subseteq Chunks
  /\ results \subseteq Chunks /\ sending \subseteq Chunks /\ sent \subseteq Chunks
  /\ lost \subseteq Chunks /\ failed \subseteq Chunks
  /\ readers \in 0..NumWorkers /\ hashers \in 0..NumWorkers /\ senders \in 0..NumWorkers
  /\ workClosed \in BOOLEAN /\ resultClosed \in BOOLEAN /\ announced \in BOOLEAN
  /\ terminated \in BOOLEAN /\ up \in BOOLEAN /\ panicked \in BOOLEAN
  /\ Cardinality(tasks) <= NumWorkers /\ Cardinality(work) <= NumWorkers
  /\ Cardinality(results) <= NumWorkers
  /\ Cardinality(reading \union failing) <= readers
  /\ Cardinality(hashing) <= hashers /\ Cardinality(sending) <= senders

Places == <<todo, tasks, reading, failing, work, hashing, results, sending, sent, lost>>

(* No chunk is hashed twice or disappears: each is in one place, on its    *)
(* way through the pools, sent, or given up by a goroutine that returned.  *)
EveryChunkOnce ==
  \A c \in Chunks : \E i \in 1..10 :
    /\ c \in Places[i]
    /\ \A j \in 1..10 \ {i} : c \notin Places[j]

(* If HashDisk announces its end although nobody terminated it, a hash or  *)
(* a failure was sent for every chunk of the disk, as long as fewer reads  *)
(* failed than there are readers (each failed read costs one).             *)
ScanComplete ==
  announced /\ ~terminated /\ Cardinality(failed) < NumWorkers => sent = Chunks

(* The readers report failed reads on the channel the hashers' pool        *)
(* closes.  This is a panic only if the scan was terminated: then the      *)
(* hashers return, and the channel is closed, before the readers are done. *)
NoPanic == panicked => terminated

(* HashDisk returns, whatever fails: HandleClient waits for it (termWg).   *)
Returns == <>(pc \in {"returned", "none"} \/ panicked)

(* All goroutines return as well, unless the scan was terminated, the      *)
(* connection broke or every reader failed; then some wait for ever for    *)
(* room in a channel nobody reads.                                         *)
NoGoroutineLeft ==
  <>[]( \/ gen = "closed" /\ readers = 0 /\ hashers = 0 /\ senders = 0
        \/ terminated \/ ~up \/ Cardinality(failed) >= NumWorkers)
=============================================================================
