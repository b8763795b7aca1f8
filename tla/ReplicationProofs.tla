--------------------------- MODULE ReplicationProofs ---------------------------
(***************************************************************************)
(* What holds in the first session of a client, however often the ring     *)
(* buffer overflows, for all sizes of buffer, queues and journal.          *)
(***************************************************************************)
EXTENDS ReplicationTypeProofs, ReplicationControlProofs

(* In the first session the monitor is not paused in the middle of a batch *)
(* (PauseController.IsPaused in ProcessBufferInfo), whatever the sizes of  *)
(* buffer, queues and journal, as long as no read of the source failed.    *)
THEOREM MonitorRunsThrough == Spec => []MonitorNotInterrupted
<1>1. TypeOK /\ SessionInv /\ [Next]_vars => SessionInv'
  BY SessionStep
<1>2. SessionInv => MonitorNotInterrupted
  BY DEF SessionInv, FirstSession, MonitorHeld, MonitorNotInterrupted
<1>. QED
  BY <1>1, <1>2, TypeCorrect, InitSession, PTL DEF Spec

(* In the first session one scan at most is under way, from the decision   *)
(* to request it to the resumption of the monitor (StartHashing,           *)
(* HandleCmdStartHashing, HashDisk, ProcessBuffer).                        *)
THEOREM OneScanAtATime == Spec => []SessionInv
<1>1. TypeOK /\ SessionInv /\ [Next]_vars => SessionInv'
  BY SessionStep
<1>. QED
  BY <1>1, TypeCorrect, InitSession, PTL DEF Spec

(* In the first session a completion never reaches the server before the   *)
(* correct blocks of its scan, nor a hash the client after the end of the  *)
(* hashing; commands carry growing numbers; and nothing of a full scan or  *)
(* a full replication is left when a scan with a journal runs.             *)
THEOREM ScansInOrder == Spec => [](FirstSession => ControlInv /\ InitInv)
<1> DEFINE CInv == FirstSession => ControlInv /\ InitInv
<1>1. TypeOK /\ SessionInv /\ CInv /\ [Next]_vars => CInv'
  <2> SUFFICES ASSUME TypeOK, SessionInv, CInv, [Next]_vars, FirstSession'
               PROVE  ControlInv' /\ InitInv'
    OBVIOUS
  <2>1. FirstSession
    BY StillFirst
  <2>. QED
    BY <2>1, ControlStep
<1>2. Init => CInv
  BY InitControl
<1>. QED
  BY <1>1, <1>2, TypeCorrect, OneScanAtATime, PTL DEF Spec
=============================================================================
