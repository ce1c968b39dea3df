----------------------------- MODULE PyVdiClient -----------------------------
(***************************************************************************)
(* The benchmark's second client: PyVdiClient with its Metrics             *)
(* (src/benchmarks/python/py_vdi_client.py), driven by main() of           *)
(* run_py_benchmark.py.  Everything runs on one thread, so the module      *)
(* models one run of the script: main() in order, an exception at every    *)
(* call that may raise one, the finally clause and the object's __del__.   *)
(* What COM and SQL Server answer is free.                                 *)
(*                                                                         *)
(* Latencies are not modelled, only how many of them are recorded.         *)
(*                                                                         *)
(* A definition marked "Mutant" is a faulty variant of the one after it.   *)
(* No action uses it: it stands in for that one to test a property.        *)
(***************************************************************************)
EXTENDS Naturals, Sequences, FiniteSetsExt, SequencesExt

CONSTANTS
  Commands,     \* commands that GetCommand may return
  PoolSize,     \* _POOL_SIZE
  UINT64_MAX,   \* the sentinel of min_chunk_size, above every size
  MaxCommands   \* bound: calls of GetCommand that succeed in a behaviour

Codes == {"VDC_Write", "VDC_Flush", "VDC_Close", "other"}

ASSUME PyAssumption ==
  /\ Commands \subseteq [code : Codes, size : Nat]
  /\ PoolSize \in Nat \ {0}
  /\ UINT64_MAX \in Nat
  /\ \A c \in Commands : c.size < UINT64_MAX
  /\ MaxCommands \in Nat

VARIABLES
  pc,               \* where main() is
  exit_code,        \* what main() returns
  device_set,       \* is the pointer other than None?
  device,           \* is the pointer other than None?
  cmd,              \* the command in hand, or NoCommand
  metrics,          \* the Metrics object
  pool_available    \* indices of the free buffers, in order

(* COM's own state. *)
VARIABLES
  apartment,        \* how COM was initialised on the thread before
  comCount,         \* CoInitializeEx not yet matched by CoUninitialize
  setRefs,          \* references held to device sets
  setCloses,        \* IClientVirtualDeviceSet::Close calls
  deviceRefs        \* references held to device interfaces

(* History, for the properties. *)
VARIABLES
  initialised,      \* did CoInitializeEx succeed?
  sizes             \* sizes of the VDC_Write commands processed

clientVars == <<device_set, device, cmd>>
metricVars == <<metrics, pool_available, sizes>>
objectVars == <<setRefs, setCloses, deviceRefs>>
apartmentVars == <<apartment, comCount, initialised>>
vars == <<pc, exit_code, clientVars, metricVars, objectVars, apartmentVars>>

NoCommand == [code |-> "none", size |-> 0]
Buffers == 0 .. PoolSize - 1
Apartments == {"none", "multithreaded", "single-threaded"}
ComBefore == IF apartment = "none" THEN 0 ELSE 1

Init ==
  /\ pc = "new"
  /\ exit_code = 0
  /\ device_set = FALSE /\ device = FALSE /\ cmd = NoCommand
  /\ metrics = [total_bytes |-> 0, chunk_count |-> 0,
                min_chunk_size |-> UINT64_MAX, max_chunk_size |-> 0,
                sum_chunk_sizes |-> 0, buffer_acquire_count |-> 0,
                buffer_release_count |-> 0, buffer_pool_hits |-> 0,
                buffer_pool_misses |-> 0, getcommand_latencies |-> 0,
                chunk_latencies |-> 0]
  /\ pool_available = [i \in 1 .. PoolSize |-> i - 1]
  /\ apartment \in Apartments
  /\ comCount = ComBefore
  /\ setRefs = 0 /\ setCloses = 0 /\ deviceRefs = 0
  /\ initialised = FALSE
  /\ sizes = <<>>

-----------------------------------------------------------------------------
(* main(): to the command loop *)

(* An exception: main() will return 1, after the finally clause. *)
Raise ==
  /\ exit_code' = 1
  /\ pc' = "finally"
  /\ UNCHANGED <<cmd, metricVars>>

Proceed(to) ==
  /\ pc' = to
  /\ UNCHANGED <<exit_code, cmd, metricVars>>

\* Mutant: COM is initialised for the constructor only.
NewLocalCom ==
  /\ pc = "new"
  /\ apartment # "single-threaded"
  /\ initialised' = TRUE
  /\ Proceed("connect")
  /\ UNCHANGED <<device_set, device, objectVars, apartment, comCount>>

New ==
  /\ pc = "new"
  /\ apartment # "single-threaded"
  /\ comCount' = comCount + 1
  /\ initialised' = TRUE
  /\ Proceed("connect")
  /\ UNCHANGED <<device_set, device, objectVars, apartment>>

(* CoInitializeEx fails, as it does in another kind of apartment.  main() has *)
(* no object to close, but the object exists and its __del__ will run.        *)
NewFails ==
  /\ pc = "new"
  /\ exit_code' = 1
  /\ pc' = "del"
  /\ UNCHANGED <<clientVars, metricVars, objectVars, apartmentVars>>

Connecting ==
  /\ pc = "connect"
  /\ UNCHANGED <<device, deviceRefs, setCloses, apartmentVars>>

ConnectNoSet ==
  /\ Connecting
  /\ Raise
  /\ UNCHANGED <<device_set, setRefs>>

(* CoCreateInstance succeeds; CreateEx may still fail. *)
Connect ==
  /\ Connecting
  /\ device_set' = TRUE
  /\ setRefs' = setRefs + 1
  /\ Proceed("prompt") \/ Raise

(* input() raises EOFError when there is no console. *)
Prompt ==
  /\ pc = "prompt"
  /\ Proceed("open_devices") \/ Raise
  /\ UNCHANGED <<device_set, device, objectVars, apartmentVars>>

Opening ==
  /\ pc = "open_devices"
  /\ UNCHANGED <<device_set, setRefs, setCloses, apartmentVars>>

OpenDevices ==
  /\ Opening
  /\ device' = TRUE
  /\ deviceRefs' = deviceRefs + 1
  /\ Proceed("GetCommand")

(* GetConfiguration or OpenDevice fails. *)
OpenDevicesFails ==
  /\ Opening
  /\ Raise
  /\ UNCHANGED <<device, deviceRefs>>

-----------------------------------------------------------------------------
(* process_commands() *)

LoopStep ==
  UNCHANGED <<exit_code, device_set, device, objectVars, apartmentVars>>

(* Every failure ends the loop, and main() takes none for an error. *)
GetFails ==
  /\ pc = "GetCommand"
  /\ pc' = "finally"
  /\ LoopStep
  /\ UNCHANGED <<cmd, metricVars>>

TimedGet ==
  /\ metrics.getcommand_latencies < MaxCommands
  /\ metrics' = [metrics EXCEPT !.getcommand_latencies = @ + 1]
  /\ UNCHANGED <<pool_available, sizes>>

GetNothing ==
  /\ pc = "GetCommand"
  /\ TimedGet
  /\ LoopStep
  /\ UNCHANGED <<pc, cmd>>

GetCommand(c) ==
  /\ pc = "GetCommand"
  /\ TimedGet
  /\ cmd' = c
  /\ pc' = "dispatch"
  /\ LoopStep

\* Mutant: _pool_release() finds no slot.
PoolNotReturned == Tail(pool_available)

(* _pool_release() appends the slot that _pool_acquire() took from the front. *)
PoolAfterUse == Append(Tail(pool_available), Head(pool_available))

\* Mutant: the running maximum is compared only when the minimum is not moved.
ChunkSizesElse(n) ==
  IF n < metrics.min_chunk_size
    THEN [metrics EXCEPT !.min_chunk_size = n, !.sum_chunk_sizes = @ + n]
    ELSE [metrics EXCEPT
            !.max_chunk_size = IF n > @ THEN n ELSE @,
            !.sum_chunk_sizes = @ + n]

(* Metrics.record_chunk_size() *)
ChunkSizes(n) ==
  [metrics EXCEPT
     !.min_chunk_size = IF n < @ THEN n ELSE @,
     !.max_chunk_size = IF n > @ THEN n ELSE @,
     !.sum_chunk_sizes = @ + n]

(* _process_write(): a release is recorded whether or not a buffer was free. *)
ProcessWrite ==
  LET hit == IF pool_available # <<>> THEN 1 ELSE 0 IN
  /\ metrics' = [ChunkSizes(cmd.size) EXCEPT
                   !.total_bytes = @ + cmd.size,
                   !.chunk_count = @ + 1,
                   !.buffer_acquire_count = @ + 1,
                   !.buffer_release_count = @ + 1,
                   !.buffer_pool_hits = @ + hit,
                   !.buffer_pool_misses = @ + (1 - hit),
                   !.chunk_latencies = @ + 1]
  /\ pool_available' = IF hit = 1 THEN PoolAfterUse ELSE pool_available
  /\ sizes' = Append(sizes, cmd.size)

(* VDC_Close leaves the loop without a completion. *)
Dispatch ==
  /\ pc = "dispatch"
  /\ pc' = IF cmd.code = "VDC_Close" THEN "finally" ELSE "complete"
  /\ IF cmd.code = "VDC_Write" THEN ProcessWrite ELSE UNCHANGED metricVars
  /\ LoopStep
  /\ UNCHANGED cmd

(* A failed CompleteCommand is printed, and the loop goes on. *)
CompleteCommand ==
  /\ pc = "complete"
  /\ pc' = "GetCommand"
  /\ cmd' = NoCommand
  /\ LoopStep
  /\ UNCHANGED metricVars

-----------------------------------------------------------------------------
(* The end: close() in the finally clause, then __del__ *)

\* Mutant: without a device, the set is not closed either.
CloseNeedsDevice ==
  /\ deviceRefs' = IF device THEN deviceRefs - 1 ELSE deviceRefs
  /\ setRefs' = IF device_set /\ device THEN setRefs - 1 ELSE setRefs
  /\ setCloses' = IF device_set /\ device THEN setCloses + 1 ELSE setCloses
  /\ device' = FALSE /\ device_set' = FALSE

\* Mutant: the pointers are not set to None.
CloseKeepsPointers ==
  /\ deviceRefs' = IF device THEN deviceRefs - 1 ELSE deviceRefs
  /\ setRefs' = IF device_set THEN setRefs - 1 ELSE setRefs
  /\ setCloses' = IF device_set THEN setCloses + 1 ELSE setCloses
  /\ UNCHANGED <<device, device_set>>

(* PyVdiClient.close() *)
CloseClient ==
  /\ deviceRefs' = IF device THEN deviceRefs - 1 ELSE deviceRefs
  /\ setRefs' = IF device_set THEN setRefs - 1 ELSE setRefs
  /\ setCloses' = IF device_set THEN setCloses + 1 ELSE setCloses
  /\ device' = FALSE /\ device_set' = FALSE

\* Mutant: close() also uninitialises COM.
FinallyUninitialises ==
  /\ pc = "finally"
  /\ pc' = "del"
  /\ CloseClient
  /\ comCount' = comCount - 1
  /\ UNCHANGED <<exit_code, cmd, metricVars, apartment, initialised>>

Finally ==
  /\ pc = "finally"
  /\ pc' = "del"
  /\ CloseClient
  /\ UNCHANGED <<exit_code, cmd, metricVars, apartmentVars>>

(* __del__ closes again and calls CoUninitialize whatever __init__ did. *)
Del ==
  /\ pc = "del"
  /\ pc' = "exited"
  /\ CloseClient
  /\ comCount' = IF comCount > 0 THEN comCount - 1 ELSE 0
  /\ UNCHANGED <<exit_code, cmd, metricVars, apartment, initialised>>

-----------------------------------------------------------------------------
Next ==
  \/ New \/ NewFails
  \/ ConnectNoSet \/ Connect
  \/ Prompt
  \/ OpenDevices \/ OpenDevicesFails
  \/ GetFails \/ GetNothing
  \/ \E c \in Commands : GetCommand(c)
  \/ Dispatch \/ CompleteCommand
  \/ Finally \/ Del

Spec == Init /\ [][Next]_vars

-----------------------------------------------------------------------------
(* The values the state may take. *)
TypeOK ==
  /\ pc \in {"new", "connect", "prompt", "open_devices", "GetCommand",
            "dispatch", "complete", "finally", "del", "exited"}
  /\ exit_code \in {0, 1}
  /\ device_set \in BOOLEAN /\ device \in BOOLEAN
  /\ cmd \in Commands \cup {NoCommand}
  /\ \A f \in DOMAIN metrics : metrics[f] \in Nat
  /\ pool_available \in Seq(Buffers)
  /\ apartment \in Apartments
  /\ comCount \in Nat
  /\ setRefs \in Nat /\ setCloses \in Nat /\ deviceRefs \in Nat
  /\ initialised \in BOOLEAN
  /\ sizes \in Seq(Nat)

(* Whichever call raised, when the script ends no interface is held, and the *)
(* device set was closed if there was one and not closed twice by the two    *)
(* calls of close().                                                         *)
ScriptReleasesAll ==
  /\ setCloses <= 1
  /\ deviceRefs > 0 => setRefs > 0
  /\ pc = "exited" => setRefs = 0 /\ deviceRefs = 0

(* COM stays initialised while the client holds an interface, until __del__; *)
(* the C++ client does not have this.                                        *)
ComOutlivesInterfaces == setRefs + deviceRefs > 0 => comCount > 0

(* A client that was constructed leaves COM on its thread as it found it.    *)
ComBalanced == pc = "exited" /\ initialised => comCount = ComBefore

(* The report is that of the chunks processed: the minimum is a size that    *)
(* occurred and no smaller one did, also for a first, a smallest and an      *)
(* empty chunk, and the average divides the same bytes by the same count.    *)
ReportOfChunks ==
  /\ metrics.chunk_count = Len(sizes)
  /\ metrics.chunk_latencies = Len(sizes)
  /\ metrics.total_bytes = FoldSeq(+, 0, sizes)
  /\ metrics.sum_chunk_sizes = metrics.total_bytes
  /\ sizes # <<>> =>
       /\ metrics.min_chunk_size = Min(ToSet(sizes))
       /\ metrics.max_chunk_size = Max(ToSet(sizes))

(* No buffer of the pool is ever lost or free twice, so that no acquisition  *)
(* misses however many chunks there are, and the pool's counters agree.      *)
PoolConserved ==
  /\ ToSet(pool_available) = Buffers
  /\ Len(pool_available) = PoolSize
  /\ metrics.buffer_pool_hits = metrics.buffer_acquire_count
  /\ metrics.buffer_pool_misses = 0
  /\ metrics.buffer_release_count = metrics.buffer_acquire_count

=============================================================================
