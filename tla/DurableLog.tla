----------------------------- MODULE DurableLog -----------------------------
(***************************************************************************)
(* What a caller of a Sink (include/sink.h) may rely on: write() appends   *)
(* the whole chunk to a log, in the order of the calls, and flush() makes  *)
(* everything written before it durable.  Buffering is invisible.  The     *)
(* promise holds up to the moment the medium loses a byte, and no further. *)
(* A byte is its position in the log.                                      *)
(***************************************************************************)
EXTENDS Naturals, Sequences

CONSTANT ChunkSizes   \* sizes of the chunks that write() is given

VARIABLES
  intact,    \* has the medium kept every byte so far?
  log,       \* the bytes written so far
  durable    \* how many leading bytes of log survive a power failure

Init ==
  /\ intact = TRUE
  /\ log = <<>>
  /\ durable = 0

Put(n) ==
  /\ intact
  /\ log' = log \o [i \in 1 .. n |-> Len(log) + i - 1]
  /\ UNCHANGED <<intact, durable>>

Harden ==
  /\ intact
  /\ durable' = Len(log)
  /\ UNCHANGED <<intact, log>>

(* The medium loses a byte: from now on nothing is promised. *)
Break ==
  /\ intact
  /\ intact' = FALSE
  /\ log' = <<>>
  /\ durable' = 0

Next == (\E n \in ChunkSizes : Put(n)) \/ Harden \/ Break

Spec == Init /\ [][Next]_<<intact, log, durable>>

=============================================================================
