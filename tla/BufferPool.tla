----------------------------- MODULE BufferPool ------------------------------
(***************************************************************************)
(* BufferPool (src/buffer_pool.cpp): a FIFO of free buffers behind a mutex, *)
(* so that a call is one step whichever thread makes it.                   *)
(*                                                                         *)
(* release() does not look at the pointer it is given.  Release assumes    *)
(* what the client guarantees: a caller gives back what it was given.      *)
(***************************************************************************)
EXTENDS Naturals, Sequences

CONSTANTS
  Callers,           \* who calls the pool
  BUFFER_POOL_SIZE   \* number of buffers

VARIABLES
  free_buffers_,   \* the buffers in the FIFO
  held             \* for each caller, the buffers it has been given

poolVars == <<free_buffers_, held>>

Buffers == 1 .. BUFFER_POOL_SIZE

nullptr == 0

Init ==
  /\ free_buffers_ = [i \in Buffers |-> i]
  /\ held = [c \in Callers |-> {}]

AcquireEmpty(c, b) ==
  /\ free_buffers_ = <<>>
  /\ b = nullptr
  /\ UNCHANGED poolVars

AcquireFront(c, b) ==
  /\ free_buffers_ # <<>>
  /\ b = Head(free_buffers_)
  /\ free_buffers_' = Tail(free_buffers_)
  /\ held' = [held EXCEPT ![c] = @ \cup {b}]

(* acquire() returning b. *)
Acquire(c, b) == AcquireEmpty(c, b) \/ AcquireFront(c, b)

\* Mutant: the buffer is not pushed back.
ReleaseForgets(c, b) ==
  /\ b \in held[c]
  /\ held' = [held EXCEPT ![c] = @ \ {b}]
  /\ UNCHANGED free_buffers_

(* release(b) *)
Release(c, b) ==
  /\ b \in held[c]
  /\ free_buffers_' = Append(free_buffers_, b)
  /\ held' = [held EXCEPT ![c] = @ \ {b}]

Next ==
  \E c \in Callers :
    \/ \E b \in Buffers \cup {nullptr} : Acquire(c, b)
    \/ \E b \in held[c] : Release(c, b)

Spec == Init /\ [][Next]_poolVars

-----------------------------------------------------------------------------
Free == {free_buffers_[i] : i \in 1 .. Len(free_buffers_)}

(* A buffer is never in two hands, nor in a hand and in the pool, nor twice  *)
(* in the pool, and none gets lost, however the calls of several threads     *)
(* interleave.                                                              *)
BuffersConserved ==
  /\ \A i, j \in 1 .. Len(free_buffers_) :
       free_buffers_[i] = free_buffers_[j] => i = j
  /\ \A c \in Callers : held[c] \cap Free = {}
  /\ \A c, d \in Callers : c # d => held[c] \cap held[d] = {}
  /\ Free \cup UNION {held[c] : c \in Callers} = Buffers

=============================================================================
