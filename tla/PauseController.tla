--------------------------- MODULE PauseController ---------------------------
(***************************************************************************)
(* src/user/pause/pause.go: a channel with room for one state, with which  *)
(* any goroutine pauses and resumes one waiter, the client's monitor.      *)
(* Pause and Resume hold the write lock, IsPaused the read lock; the       *)
(* waiter's selects take from the channel without a lock.                  *)
(***************************************************************************)
EXTENDS Integers

CONSTANT MaxCommands     \* bound: calls of Pause and Resume

ASSUME BoundAssumption == MaxCommands \in Nat

VARIABLES stateChan,     \* the state in the channel, or "empty"
          holder,        \* the call that holds the write lock: where it is, its state
          waiter,        \* where the waiter is, and the state IsPaused took
          last,          \* history: the state sent last
          issued         \* number of calls so far

vars == <<stateChan, holder, waiter, last, issued>>

Free == [at |-> "free", state |-> "empty"]

Init ==
  /\ stateChan = "empty"
  /\ holder = Free
  /\ waiter = [at |-> "run", state |-> "empty"]
  /\ last = "Running"
  /\ issued = 0

(* Mutant: the lock is granted while IsPaused holds the read lock.         *)
LockIgnoringReader(s) ==
  /\ holder = Free
  /\ issued < MaxCommands
  /\ issued' = issued + 1
  /\ holder' = [at |-> "drain", state |-> s]
  /\ UNCHANGED <<stateChan, waiter, last>>

(* Pause and Resume: lock, drain the channel, send, unlock.  Any number of *)
(* goroutines may call; the lock lets them through one by one.             *)
Lock(s) ==
  /\ holder = Free
  /\ waiter.at # "peek"
  /\ issued < MaxCommands
  /\ issued' = issued + 1
  /\ holder' = [at |-> "drain", state |-> s]
  /\ UNCHANGED <<stateChan, waiter, last>>

(* Mutant: the old state is left in the channel.                           *)
SkipDrain ==
  /\ holder.at = "drain"
  /\ holder' = [holder EXCEPT !.at = "send"]
  /\ UNCHANGED <<stateChan, waiter, last, issued>>

drainChannel ==
  /\ holder.at = "drain"
  /\ stateChan' = "empty"
  /\ holder' = [holder EXCEPT !.at = "send"]
  /\ UNCHANGED <<waiter, last, issued>>

(* The send blocks while the channel is full.                              *)
Send ==
  /\ holder.at = "send"
  /\ stateChan = "empty"
  /\ stateChan' = holder.state
  /\ last' = holder.state
  /\ holder' = Free
  /\ UNCHANGED <<waiter, issued>>

(* IsPaused takes the state, if any, and puts it back.                     *)
IsPaused ==
  /\ waiter.at = "run"
  /\ holder = Free
  /\ stateChan # "empty"
  /\ waiter' = [at |-> "peek", state |-> stateChan]
  /\ stateChan' = "empty"
  /\ UNCHANGED <<holder, last, issued>>

(* Mutant: the state is not put back.                                      *)
Forget ==
  /\ waiter.at = "peek"
  /\ waiter' = [at |-> "run", state |-> "empty"]
  /\ UNCHANGED <<stateChan, holder, last, issued>>

PutBack ==
  /\ waiter.at = "peek"
  /\ stateChan = "empty"
  /\ stateChan' = waiter.state
  /\ waiter' = [at |-> "run", state |-> "empty"]
  /\ UNCHANGED <<holder, last, issued>>

(* Mutant: the loop of waitUntilResumed does not leave at Running.         *)
WaitForever ==
  /\ waiter.at \in {"run", "blocked"}
  /\ stateChan # "empty"
  /\ waiter' = [waiter EXCEPT !.at = IF stateChan = "Paused" THEN "blocked" ELSE @]
  /\ stateChan' = "empty"
  /\ UNCHANGED <<holder, last, issued>>

(* WaitIfPaused, and the loop of waitUntilResumed.                         *)
WaitIfPaused ==
  /\ waiter.at \in {"run", "blocked"}
  /\ stateChan # "empty"
  /\ waiter' = [waiter EXCEPT !.at = IF stateChan = "Paused" THEN "blocked" ELSE "run"]
  /\ stateChan' = "empty"
  /\ UNCHANGED <<holder, last, issued>>

(* termChan is closed: the waiter returns.                                 *)
Terminate ==
  /\ waiter.at \in {"run", "blocked"}
  /\ waiter' = [waiter EXCEPT !.at = "returned"]
  /\ UNCHANGED <<stateChan, holder, last, issued>>

Next ==
  \/ \E s \in {"Paused", "Running"} : Lock(s)
  \/ drainChannel \/ Send
  \/ IsPaused \/ PutBack \/ WaitIfPaused \/ Terminate

(* A call that may go on does; the waiter, when it runs, comes back to     *)
(* WaitIfPaused, and its selects see what is in the channel.               *)
Spec ==
  /\ Init /\ [][Next]_vars
  /\ WF_vars(drainChannel) /\ WF_vars(Send)
  /\ WF_vars(PutBack) /\ WF_vars(WaitIfPaused)
-----------------------------------------------------------------------------
(* The lock is held by one call at a time and never together with a read.  *)
TypeOK ==
  /\ stateChan \in {"empty", "Paused", "Running"}
  /\ holder = Free \/ holder \in [at : {"drain", "send"}, state : {"Paused", "Running"}]
  /\ waiter \in [at : {"run", "peek", "blocked", "returned"}, state : {"empty", "Paused", "Running"}]
  /\ last \in {"Paused", "Running"}
  /\ issued \in 0..MaxCommands
  /\ waiter.at = "peek" => holder = Free /\ waiter.state # "empty"

(* Between calls, what the waiter does or is about to learn is the last    *)
(* command: it is never left blocked by an older Pause nor running past a  *)
(* newer one.                                                              *)
LastCommandObeyed ==
  holder = Free =>
    \/ stateChan = last
    \/ waiter.at = "peek" /\ waiter.state = last
    \/ stateChan = "empty" /\ waiter.at = "blocked" /\ last = "Paused"
    \/ stateChan = "empty" /\ waiter.at = "run" /\ last = "Running"
    \/ waiter.at = "returned"

(* Pause and Resume return whatever the waiter does: the send in them      *)
(* never waits for somebody to take a state.                               *)
CallsReturn == (holder # Free) ~> (holder = Free)

(* A waiter blocked by Pause goes on after a Resume that no other command  *)
(* follows.                                                                *)
ResumeArrives == (last = "Running" /\ holder = Free) ~> (waiter.at # "blocked" \/ holder # Free)
=============================================================================
