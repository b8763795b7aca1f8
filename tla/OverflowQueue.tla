---------------------------- MODULE OverflowQueue ----------------------------
(***************************************************************************)
(* What the kernel promises to userspace about the writes it intercepts:   *)
(* a queue of the writes not yet handed out, the number of writes of the   *)
(* last batch handed out (their slots stay reserved for the reader until   *)
(* it asks for the next batch), and an overflow flag which, once raised,   *)
(* is lowered by nothing but a reset.  It is the abstraction of the shared *)
(* ring buffer of src/kern/ring-buffer.c.                                  *)
(***************************************************************************)
EXTENDS Naturals, Sequences

CONSTANTS Writes,     \* the writes that may be put into the queue
          Capacity    \* max_writes of the buffer

VARIABLES fresh,      \* writes accepted and not handed out yet, oldest first
          held,       \* size of the batch the reader was handed last
          overflown   \* BDR_OVERFLOWN_BUFFER_FLAG

qvars == <<fresh, held, overflown>>

QueueInit == fresh = <<>> /\ held = 0 /\ overflown = FALSE

(* The slots of the last batch and of the fresh writes never cover the     *)
(* whole buffer: the write that would fill it is refused and raises the    *)
(* overflow flag.                                                          *)
Full == held + Len(fresh) + 1 >= Capacity

Accept(w) ==
  /\ ~overflown /\ ~Full
  /\ fresh' = Append(fresh, w)
  /\ UNCHANGED <<held, overflown>>

Refuse ==
  /\ overflown \/ Full
  /\ overflown' = TRUE
  /\ UNCHANGED <<fresh, held>>

(* A reader is handed the fresh writes, or told of the overflow and handed *)
(* nothing.                                                                *)
Take ==
  /\ ~overflown
  /\ held' = Len(fresh)
  /\ fresh' = <<>>
  /\ UNCHANGED overflown

Discard == fresh' = <<>> /\ held' = 0 /\ overflown' = FALSE

QueueNext == (\E w \in Writes : Accept(w)) \/ Refuse \/ Take \/ Discard

QueueSpec == QueueInit /\ [][QueueNext]_qvars
=============================================================================
