------------------------ MODULE PauseControllerProofs ------------------------
(***************************************************************************)
(* The waiter of the PauseController obeys the last command, for any       *)
(* number of calls of Pause and Resume.                                    *)
(***************************************************************************)
EXTENDS PauseController, TLAPS

(* The strengthening: the channel is empty between the drain and the send  *)
(* of a call, unless nobody drained yet.                                   *)
IInv ==
  /\ TypeOK
  /\ LastCommandObeyed
  /\ holder.at = "send" => stateChan = "empty"
  /\ waiter.at = "peek" => stateChan = "empty"

(* IInv is an invariant: one step per action of pause.go.                  *)
THEOREM InductiveInvariant == Spec => []IInv
<1>1. Init => IInv
  BY BoundAssumption DEF Init, IInv, TypeOK, LastCommandObeyed, Free
<1>2. IInv /\ [Next]_vars => IInv'
  <2> SUFFICES ASSUME IInv, [Next]_vars PROVE IInv'
    OBVIOUS
  <2> USE BoundAssumption DEF IInv, TypeOK, LastCommandObeyed, Free
  <2>1. ASSUME NEW s \in {"Paused", "Running"}, Lock(s) PROVE IInv'
    BY <2>1 DEF Lock
  <2>2. CASE drainChannel
    BY <2>2 DEF drainChannel
  <2>3. CASE Send
    BY <2>3 DEF Send
  <2>4. CASE IsPaused
    BY <2>4 DEF IsPaused
  <2>5. CASE PutBack
    BY <2>5 DEF PutBack
  <2>6. CASE WaitIfPaused
    BY <2>6 DEF WaitIfPaused
  <2>7. CASE Terminate
    BY <2>7 DEF Terminate
  <2>8. CASE UNCHANGED vars
    BY <2>8 DEF vars
  <2> QED
    BY <2>1, <2>2, <2>3, <2>4, <2>5, <2>6, <2>7, <2>8 DEF Next
<1> QED
  BY <1>1, <1>2, PTL DEF Spec

(* Between calls the waiter does, or is about to learn, what the last call *)
(* of Pause or Resume said.                                                *)
THEOREM CommandObeyed == Spec => []LastCommandObeyed
<1>1. IInv => LastCommandObeyed
  BY DEF IInv
<1> QED
  BY <1>1, InductiveInvariant, PTL

(* The lock of pause.go keeps Pause and Resume apart from each other and   *)
(* from IsPaused, and the channel holds at most one state.                 *)
THEOREM TypeCorrect == Spec => []TypeOK
<1>1. IInv => TypeOK
  BY DEF IInv
<1> QED
  BY <1>1, InductiveInvariant, PTL
=============================================================================
