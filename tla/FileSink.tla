------------------------------ MODULE FileSink ------------------------------
(***************************************************************************)
(* FileSink (src/file_sink.cpp): the sink that coalesces the chunks of a   *)
(* backup in a write buffer and hands them to the file with WriteFile.     *)
(*                                                                         *)
(* A byte is its position in the stream of bytes offered to write(), so a  *)
(* lost, duplicated or reordered byte shows in the file.  The counters     *)
(* dropped and refused are history: the code keeps neither.                *)
(*                                                                         *)
(* A definition marked "Mutant" is a faulty variant of the one after it.   *)
(* No action uses it: it stands in for that one to test a property.        *)
(***************************************************************************)
EXTENDS Naturals, Sequences

CONSTANTS
  WRITE_BUFFER_SIZE,  \* capacity of write_buffer_, in bytes
  Sizes,              \* sizes a caller passes to write()
  MaxBytes,           \* bound: bytes offered to write() in a behaviour
  DiskFaults          \* may WriteFile fall short and FlushFileBuffers fail?

ASSUME SinkAssumption ==
  /\ WRITE_BUFFER_SIZE \in Nat \ {0}
  /\ Sizes \subseteq Nat
  /\ MaxBytes \in Nat
  /\ DiskFaults \in BOOLEAN

VARIABLES
  alive,          \* does the FileSink object still exist?
  file_handle_,   \* is the handle valid?
  write_buffer_,  \* is the buffer allocated?
  buffered,       \* the bytes in write_buffer_; buffered_bytes_ is its length
  file,           \* the bytes WriteFile has put in the file
  synced,         \* how many leading bytes of file are on stable storage
  offered,        \* bytes offered to write() on a usable sink
  dropped,        \* buffered bytes that flush_buffer() discarded
  refused         \* bytes of a failed write() that did not reach the file

sinkVars ==
  <<alive, file_handle_, write_buffer_, buffered, file, synced, offered,
    dropped, refused>>

-----------------------------------------------------------------------------
\* Mutant: positions start one too low.
RunOffByOne(first, n) == [i \in 1 .. n |-> first + i - 2]

(* n consecutive bytes of the offered stream, starting at position first. *)
Run(first, n) == [i \in 1 .. n |-> first + i - 1]

(* How many of the n bytes given to WriteFile may reach the file. *)
Written(n) == IF DiskFaults THEN 0 .. n ELSE {n}

(* The file after flush_buffer() whose WriteFile wrote w bytes.  The result *)
(* of that WriteFile is not looked at: the buffer is emptied in any case.   *)
Flushed(w) == file \o SubSeq(buffered, 1, w)

Usable == file_handle_ /\ write_buffer_

(* FlushFileBuffers covers the whole file, or fails and nobody looks. *)
Sync ==
  \/ synced' = Len(file')
  \/ DiskFaults /\ synced' = synced

-----------------------------------------------------------------------------
(* The constructor: CreateFileW and _aligned_malloc may each fail. *)
Init ==
  /\ alive = TRUE
  /\ file_handle_ \in BOOLEAN
  /\ write_buffer_ \in BOOLEAN
  /\ buffered = <<>>
  /\ file = <<>>
  /\ synced = 0
  /\ offered = 0
  /\ dropped = 0
  /\ refused = 0

WriteUnusable(n, ok) ==
  /\ ~Usable
  /\ ok = FALSE
  /\ UNCHANGED sinkVars

(* A chunk as large as the buffer: drain the buffer, then write it directly. *)
WriteDirect(n, ok) ==
  /\ Usable
  /\ n >= WRITE_BUFFER_SIZE
  /\ \E w \in Written(Len(buffered)), k \in Written(n) :
       /\ file' = Flushed(w) \o Run(offered, k)
       /\ dropped' = dropped + (Len(buffered) - w)
       /\ refused' = refused + (n - k)
       /\ ok = (k = n)
  /\ buffered' = <<>>
  /\ offered' = offered + n
  /\ UNCHANGED <<alive, file_handle_, write_buffer_, synced>>

\* Mutant: the room left in the buffer is not checked.
WriteCopyUnchecked(n, ok) ==
  /\ Usable
  /\ n < WRITE_BUFFER_SIZE
  /\ ok = TRUE
  /\ buffered' = buffered \o Run(offered, n)
  /\ offered' = offered + n
  /\ UNCHANGED <<alive, file_handle_, write_buffer_, file, synced, dropped,
                 refused>>

(* A smaller chunk that still fits is copied. *)
WriteCopy(n, ok) ==
  /\ Usable
  /\ n < WRITE_BUFFER_SIZE
  /\ Len(buffered) + n <= WRITE_BUFFER_SIZE
  /\ ok = TRUE
  /\ buffered' = buffered \o Run(offered, n)
  /\ offered' = offered + n
  /\ UNCHANGED <<alive, file_handle_, write_buffer_, file, synced, dropped,
                 refused>>

(* A smaller chunk that does not fit: flush_buffer() first. *)
WriteSpill(n, ok) ==
  /\ Usable
  /\ n < WRITE_BUFFER_SIZE
  /\ Len(buffered) + n > WRITE_BUFFER_SIZE
  /\ ok = TRUE
  /\ \E w \in Written(Len(buffered)) :
       /\ file' = Flushed(w)
       /\ dropped' = dropped + (Len(buffered) - w)
  /\ buffered' = Run(offered, n)
  /\ offered' = offered + n
  /\ UNCHANGED <<alive, file_handle_, write_buffer_, synced, refused>>

(* write(data, n) returning ok. *)
Write(n, ok) ==
  /\ alive
  /\ \/ WriteUnusable(n, ok)
     \/ WriteDirect(n, ok)
     \/ WriteCopy(n, ok)
     \/ WriteSpill(n, ok)

\* Mutant: FlushFileBuffers without flush_buffer().
FlushHandleOnly ==
  /\ alive
  /\ IF file_handle_ THEN synced' = Len(file) ELSE UNCHANGED synced
  /\ UNCHANGED <<alive, file_handle_, write_buffer_, buffered, file, offered,
                 dropped, refused>>

\* Mutant: a short WriteFile leaves buffered_bytes_ as it was.
FlushKeepsOnShortWrite ==
  /\ alive
  /\ \E w \in Written(Len(buffered)) :
       /\ file' = Flushed(w)
       /\ buffered' = IF w = Len(buffered) THEN <<>> ELSE buffered
  /\ IF file_handle_ THEN Sync ELSE UNCHANGED synced
  /\ UNCHANGED <<alive, file_handle_, write_buffer_, offered, dropped, refused>>

(* flush(): flush_buffer(), then FlushFileBuffers if the handle is valid. *)
Flush ==
  /\ alive
  /\ \E w \in Written(Len(buffered)) :
       /\ file' = Flushed(w)
       /\ dropped' = dropped + (Len(buffered) - w)
  /\ buffered' = <<>>
  /\ IF file_handle_ THEN Sync ELSE UNCHANGED synced
  /\ UNCHANGED <<alive, file_handle_, write_buffer_, offered, refused>>

\* Mutant: the buffer is freed without flush_buffer().
DestroyNoFlush ==
  /\ alive
  /\ alive' = FALSE
  /\ buffered' = <<>>
  /\ file_handle_' = FALSE
  /\ write_buffer_' = FALSE
  /\ UNCHANGED <<file, synced, offered, dropped, refused>>

(* The destructor: flush_buffer(), CloseHandle, _aligned_free. *)
Destroy ==
  /\ alive
  /\ alive' = FALSE
  /\ \E w \in Written(Len(buffered)) :
       /\ file' = Flushed(w)
       /\ dropped' = dropped + (Len(buffered) - w)
  /\ buffered' = <<>>
  /\ file_handle_' = FALSE
  /\ write_buffer_' = FALSE
  /\ UNCHANGED <<synced, offered, refused>>

Next ==
  \/ \E n \in Sizes, ok \in BOOLEAN :
       /\ offered + n <= MaxBytes
       /\ Write(n, ok)
  \/ Flush
  \/ Destroy

Spec == Init /\ [][Next]_sinkVars

-----------------------------------------------------------------------------
(* The values the state may take. *)
TypeOK ==
  /\ alive \in BOOLEAN
  /\ file_handle_ \in BOOLEAN
  /\ write_buffer_ \in BOOLEAN
  /\ buffered \in Seq(Nat)
  /\ file \in Seq(Nat)
  /\ synced \in Nat
  /\ offered \in Nat
  /\ dropped \in Nat
  /\ refused \in Nat

(* memcpy into write_buffer_ stays inside it, and the bytes in it are the  *)
(* last ones offered.                                                      *)
BufferFits ==
  /\ Len(buffered) <= WRITE_BUFFER_SIZE
  /\ \A i \in 1 .. Len(buffered) :
       buffered[i] + Len(buffered) = offered + i - 1

(* Whatever the sequence of small and large chunks, flushes and faults, the *)
(* file never holds a byte twice nor a later byte before an earlier one,    *)
(* and nothing in it is still waiting in the buffer.                        *)
InOrder ==
  /\ \A i, j \in 1 .. Len(file) : i < j => file[i] < file[j]
  /\ \A i \in 1 .. Len(file) : file[i] + Len(buffered) < offered

(* Every offered byte is accounted for: in the file, in the buffer, dropped *)
(* by flush_buffer(), or reported lost by write() returning false.          *)
Conserved ==
  Len(file) + Len(buffered) + dropped + refused = offered

(* As long as nothing was dropped or refused, the file is a prefix of the    *)
(* stream that was offered.                                                 *)
Intact ==
  dropped = 0 /\ refused = 0 => \A i \in 1 .. Len(file) : file[i] = i - 1

(* Nothing was dropped by flush_buffer() nor refused by write(). *)
Lossless == dropped = 0 /\ refused = 0

(* Until a WriteFile falls short the buffering cannot be told from a sink    *)
(* that writes every chunk through: write() appends, and what flush() makes  *)
(* durable is everything accepted before it, in whatever way the chunks fall *)
(* on the buffer.                                                           *)
Promise == INSTANCE DurableLog WITH
             ChunkSizes <- Sizes,
             intact <- Lossless,
             log <- IF Lossless THEN file \o buffered ELSE <<>>,
             durable <- IF Lossless THEN synced ELSE 0

ImplementsDurableLog == Promise!Spec

=============================================================================
