------------------------- MODULE PyVdiClientProofs --------------------------
(***************************************************************************)
(* Proofs about PyVdiClient, for every pool size and set of commands.      *)
(*                                                                         *)
(* The invariant has three parts that do not need each other: what the     *)
(* pointers and COM's counts have to do with the place main() is at, what  *)
(* the metrics have to do with the chunks processed, and the order of the  *)
(* pool, which every chunk rotates.                                        *)
(***************************************************************************)
EXTENDS PyVdiClient, ChunkTotals

MetricsType ==
  [total_bytes : Nat, chunk_count : Nat, min_chunk_size : Nat,
   max_chunk_size : Nat, sum_chunk_sizes : Nat, buffer_acquire_count : Nat,
   buffer_release_count : Nat, buffer_pool_hits : Nat,
   buffer_pool_misses : Nat, getcommand_latencies : Nat,
   chunk_latencies : Nat]

(* A pointer other than None is one reference; COM is as it was before       *)
(* __init__ and after __del__, and one deeper in between.                    *)
ComInv ==
  /\ initialised = TRUE \/ initialised = FALSE
  /\ apartment \in Apartments
  /\ \/ device_set = TRUE /\ setRefs = 1
     \/ device_set = FALSE /\ setRefs = 0
  /\ \/ device = TRUE /\ deviceRefs = 1
     \/ device = FALSE /\ deviceRefs = 0
  /\ setRefs = 0 => deviceRefs = 0
  /\ setCloses \in {0, 1} /\ setCloses + setRefs <= 1
  /\ pc \in {"new", "connect", "prompt", "open_devices"} => deviceRefs = 0
  /\ pc \in {"prompt", "open_devices"} => setRefs = 1
  /\ pc \in {"new", "connect"} => setRefs = 0 /\ setCloses = 0
  /\ pc \in {"del", "exited"} => setRefs = 0
  /\ pc = "new" => initialised = FALSE
  /\ initialised = FALSE => pc \in {"new", "del", "exited"} /\ setRefs = 0
  /\ comCount \in Nat
  /\ pc # "exited" /\ initialised = TRUE => comCount = ComBefore + 1
  /\ pc # "exited" /\ initialised = FALSE => comCount = ComBefore
  /\ pc = "exited" /\ initialised = TRUE => comCount = ComBefore

(* The types of the rest. *)
LoopTypes ==
  /\ pc \in {"new", "connect", "prompt", "open_devices", "GetCommand",
            "dispatch", "complete", "finally", "del", "exited"}
  /\ exit_code \in {0, 1}
  /\ cmd \in Commands \cup {NoCommand}
  /\ metrics \in MetricsType
  /\ sizes \in Seq(Nat)

(* A metrics object that tells of the chunks in s. *)
Tells(m, s) ==
  /\ m.chunk_count = Len(s) /\ m.chunk_latencies = Len(s)
  /\ m.sum_chunk_sizes = m.total_bytes
  /\ TotalsOf(m.total_bytes, m.min_chunk_size, m.max_chunk_size, UINT64_MAX, s)

(* Every buffer is somewhere in the pool, and there is no room for a second. *)
Rotation(q) ==
  /\ q \in Seq(Buffers)
  /\ Len(q) = PoolSize
  /\ \A b \in Buffers : \E i \in 1 .. Len(q) : q[i] = b

PoolInv ==
  /\ Rotation(pool_available)
  /\ metrics.buffer_pool_hits = metrics.buffer_acquire_count
  /\ metrics.buffer_pool_misses = 0
  /\ metrics.buffer_release_count = metrics.buffer_acquire_count

IInv == ComInv /\ LoopTypes /\ Tells(metrics, sizes) /\ PoolInv

-----------------------------------------------------------------------------
(* The pool after it served a chunk. *)
LEMMA RotationStep ==
  ASSUME NEW q, Rotation(q), q # <<>>
  PROVE  Rotation(Append(Tail(q), Head(q)))
<1> DEFINE r == Append(Tail(q), Head(q))
           n == Len(q)
<1>1. /\ q \in Seq(Buffers) /\ n \in Nat \ {0} /\ n = PoolSize
      /\ \A b \in Buffers : \E i \in 1 .. n : q[i] = b
  BY DEF Rotation
<1>2. /\ r \in Seq(Buffers) /\ Len(r) = n
      /\ \A i \in 1 .. n - 1 : r[i] = q[i + 1]
      /\ r[n] = q[1]
  <2>1. /\ Tail(q) \in Seq(Buffers) /\ Head(q) \in Buffers /\ Head(q) = q[1]
        /\ Len(Tail(q)) = n - 1 /\ \A i \in 1 .. n - 1 : Tail(q)[i] = q[i + 1]
    BY <1>1
  <2> QED
    BY <1>1, <2>1
<1> HIDE DEF r, n
<1>3. ASSUME NEW b \in Buffers
      PROVE  \E i \in 1 .. Len(r) : r[i] = b
  <2>1. PICK i \in 1 .. n : q[i] = b
    BY <1>1
  <2>2. CASE i = 1
    BY <1>1, <1>2, <2>1, <2>2
  <2>3. CASE i # 1
    <3>1. i - 1 \in 1 .. n - 1 /\ i - 1 \in 1 .. Len(r) /\ (i - 1) + 1 = i
      BY <1>1, <1>2, <2>3
    <3>2. r[i - 1] = q[i]
      BY <1>2, <3>1
    <3> QED
      BY <2>1, <3>1, <3>2
  <2> QED
    BY <2>2, <2>3
<1> QED
  BY <1>1, <1>2, <1>3 DEF Rotation, r

(* The metrics of one chunk more. *)
LEMMA TellsStep ==
  ASSUME NEW m \in MetricsType, NEW s \in Seq(Nat), NEW n \in Nat,
         NEW r \in MetricsType, Tells(m, s), n < UINT64_MAX,
         r.chunk_count = m.chunk_count + 1,
         r.chunk_latencies = m.chunk_latencies + 1,
         r.total_bytes = m.total_bytes + n,
         r.sum_chunk_sizes = m.sum_chunk_sizes + n,
         r.min_chunk_size = IF n < m.min_chunk_size THEN n ELSE m.min_chunk_size,
         r.max_chunk_size = IF n > m.max_chunk_size THEN n ELSE m.max_chunk_size
  PROVE  Tells(r, Append(s, n))
<1>1. /\ m.min_chunk_size \in Nat /\ m.max_chunk_size \in Nat
      /\ UINT64_MAX \in Nat /\ n <= UINT64_MAX
  BY PyAssumption DEF MetricsType
<1>2. TotalsOf(m.total_bytes, m.min_chunk_size, m.max_chunk_size, UINT64_MAX, s)
  BY DEF Tells
<1>3. TotalsOf(r.total_bytes, r.min_chunk_size, r.max_chunk_size, UINT64_MAX,
               Append(s, n))
  BY <1>1, <1>2, TotalsOfAppend
<1>4. Len(Append(s, n)) = Len(s) + 1
  OBVIOUS
<1> QED
  BY <1>3, <1>4 DEF Tells

(* The constructor. *)
LEMMA InitInv == Init => IInv
<1> SUFFICES ASSUME Init
             PROVE  IInv
  OBVIOUS
<1> USE PyAssumption
<1>1. ComInv
  <2>1. ComBefore \in Nat
    BY DEF ComBefore
  <2> QED
    BY <2>1 DEF Init, ComInv
<1>2. LoopTypes
  BY DEF Init, LoopTypes, MetricsType
<1>3. Tells(metrics, sizes)
  <2>1. sizes = <<>> /\ Len(sizes) = 0
    BY DEF Init
  <2>2. TotalsOf(0, UINT64_MAX, 0, UINT64_MAX, sizes)
    BY <2>1, TotalsOfNone
  <2> QED
    BY <2>1, <2>2 DEF Init, Tells
<1>4. Rotation(pool_available)
  <2> DEFINE q == [i \in 1 .. PoolSize |-> i - 1]
  <2>1. q \in Seq(Buffers) /\ Len(q) = PoolSize
    BY DEF Buffers
  <2>2. ASSUME NEW b \in Buffers
        PROVE  \E i \in 1 .. Len(q) : q[i] = b
    <3>1. b + 1 \in 1 .. PoolSize /\ (b + 1) - 1 = b
      BY DEF Buffers
    <3> QED
      BY <2>1, <3>1
  <2>3. pool_available = q
    BY DEF Init
  <2> QED
    BY <2>1, <2>2, <2>3 DEF Rotation
<1>5. PoolInv
  BY <1>4 DEF Init, PoolInv
<1> QED
  BY <1>1, <1>2, <1>3, <1>5 DEF IInv

(* main() and the two calls of close() keep the counts of COM. *)
LEMMA ComStep == ComInv /\ [Next]_vars => ComInv'
<1> SUFFICES ASSUME ComInv, [Next]_vars
             PROVE  ComInv'
  OBVIOUS
<1>0. /\ ComBefore \in Nat
      /\ (apartment' = apartment => ComBefore' = ComBefore)
  BY DEF ComBefore
<1> USE DEF ComInv, Proceed, Raise
<1>1. CASE New
  <2>1. /\ pc' = "connect" /\ initialised' = TRUE
        /\ UNCHANGED <<device_set, device, setRefs, setCloses, deviceRefs, apartment>>
        /\ setRefs = 0 /\ setCloses = 0 /\ deviceRefs = 0
    BY <1>1 DEF New, objectVars
  <2>2. comCount' = ComBefore' + 1
    BY <1>0, <1>1 DEF New
  <2> QED
    BY <1>0, <2>1, <2>2
<1>2. CASE NewFails
  BY <1>0, <1>2 DEF NewFails, apartmentVars, objectVars, clientVars
<1>3. CASE ConnectNoSet
  BY <1>0, <1>3 DEF ConnectNoSet, Connecting, apartmentVars
<1>4. CASE Connect
  BY <1>0, <1>4 DEF Connect, Connecting, apartmentVars
<1>5. CASE Prompt
  BY <1>0, <1>5 DEF Prompt, apartmentVars, objectVars
<1>6. CASE OpenDevices
  BY <1>0, <1>6 DEF OpenDevices, Opening, apartmentVars
<1>7. CASE OpenDevicesFails
  BY <1>0, <1>7 DEF OpenDevicesFails, Opening, apartmentVars
<1>8. CASE \/ GetFails \/ GetNothing \/ \E c \in Commands : GetCommand(c)
           \/ Dispatch \/ CompleteCommand
  <2>1. /\ UNCHANGED <<device_set, device, objectVars, apartmentVars>>
        /\ pc \in {"GetCommand", "dispatch", "complete"}
        /\ pc' \in {"GetCommand", "dispatch", "complete", "finally"}
    BY <1>8 DEF GetFails, GetNothing, GetCommand, Dispatch, CompleteCommand,
                LoopStep
  <2> QED
    BY <1>0, <2>1 DEF apartmentVars, objectVars
<1>9. CASE Finally
  BY <1>0, <1>9 DEF Finally, CloseClient, apartmentVars
<1>10. CASE Del
  BY <1>0, <1>10 DEF Del, CloseClient
<1>11. CASE UNCHANGED vars
  BY <1>0, <1>11 DEF vars, clientVars, objectVars, apartmentVars
<1> QED
  BY <1>1, <1>2, <1>3, <1>4, <1>5, <1>6, <1>7, <1>8, <1>9, <1>10, <1>11 DEF Next

(* What a step can do to the metrics, the sizes and the pool. *)
LEMMA MetricSteps ==
  ASSUME [Next]_vars
  PROVE  \/ UNCHANGED metricVars
         \/ TimedGet
         \/ pc = "dispatch" /\ cmd.code = "VDC_Write" /\ ProcessWrite
<1>1. CASE New \/ NewFails \/ ConnectNoSet \/ Connect \/ Prompt
  BY <1>1 DEF New, NewFails, ConnectNoSet, Connect, Prompt, Raise, Proceed
<1>2. CASE OpenDevices \/ OpenDevicesFails
  BY <1>2 DEF OpenDevices, OpenDevicesFails, Raise, Proceed
<1>3. CASE GetFails \/ GetNothing \/ \E c \in Commands : GetCommand(c)
  BY <1>3 DEF GetFails, GetNothing, GetCommand
<1>4. CASE Dispatch \/ CompleteCommand
  BY <1>4 DEF Dispatch, CompleteCommand
<1>5. CASE Finally \/ Del
  BY <1>5 DEF Finally, Del
<1>6. CASE UNCHANGED vars
  BY <1>6 DEF vars
<1> QED
  BY <1>1, <1>2, <1>3, <1>4, <1>5, <1>6 DEF Next

(* The metrics after a chunk: the pool is never empty, so that it hits. *)
LEMMA WriteStep ==
  ASSUME LoopTypes, PoolInv, cmd.code = "VDC_Write", ProcessWrite
  PROVE  /\ cmd.size \in Nat /\ cmd.size < UINT64_MAX
         /\ metrics' \in MetricsType
         /\ metrics'.chunk_count = metrics.chunk_count + 1
         /\ metrics'.chunk_latencies = metrics.chunk_latencies + 1
         /\ metrics'.total_bytes = metrics.total_bytes + cmd.size
         /\ metrics'.sum_chunk_sizes = metrics.sum_chunk_sizes + cmd.size
         /\ metrics'.min_chunk_size =
              IF cmd.size < metrics.min_chunk_size
                THEN cmd.size ELSE metrics.min_chunk_size
         /\ metrics'.max_chunk_size =
              IF cmd.size > metrics.max_chunk_size
                THEN cmd.size ELSE metrics.max_chunk_size
         /\ PoolInv'
<1>1. cmd \in Commands /\ cmd.size \in Nat /\ cmd.size < UINT64_MAX
  BY PyAssumption DEF LoopTypes, NoCommand
<1>2. pool_available # <<>>
  BY PyAssumption DEF PoolInv, Rotation
<1> DEFINE m == metrics
           n == cmd.size
           low == IF n < m.min_chunk_size THEN n ELSE m.min_chunk_size
           high == IF n > m.max_chunk_size THEN n ELSE m.max_chunk_size
           sum == m.sum_chunk_sizes + n
           total == m.total_bytes + n
           count == m.chunk_count + 1
           acquired == m.buffer_acquire_count + 1
           released == m.buffer_release_count + 1
           hits == m.buffer_pool_hits + 1
           misses == m.buffer_pool_misses + 0
           latencies == m.chunk_latencies + 1
           c == ChunkSizes(n)
<1>3. /\ {low, high, sum, total, count} \subseteq Nat
      /\ {acquired, released, hits, misses, latencies} \subseteq Nat
      /\ m \in MetricsType
  <2>1. m \in MetricsType
    BY DEF LoopTypes
  <2>2. /\ m.total_bytes \in Nat /\ m.chunk_count \in Nat
        /\ m.min_chunk_size \in Nat /\ m.max_chunk_size \in Nat
        /\ m.sum_chunk_sizes \in Nat /\ m.buffer_acquire_count \in Nat
        /\ m.buffer_release_count \in Nat /\ m.buffer_pool_hits \in Nat
        /\ m.buffer_pool_misses \in Nat /\ m.chunk_latencies \in Nat
    BY <2>1 DEF MetricsType
  <2> QED
    BY <1>1, <2>1, <2>2
<1>4. /\ metrics' = [c EXCEPT !.total_bytes = @ + n,
                              !.chunk_count = @ + 1,
                              !.buffer_acquire_count = @ + 1,
                              !.buffer_release_count = @ + 1,
                              !.buffer_pool_hits = @ + 1,
                              !.buffer_pool_misses = @ + 0,
                              !.chunk_latencies = @ + 1]
      /\ pool_available' = Append(Tail(pool_available), Head(pool_available))
  <2>1. 1 - 1 = 0
    OBVIOUS
  <2> HIDE DEF c
  <2> QED
    BY <1>2, <2>1 DEF ProcessWrite, PoolAfterUse, c
<1>5. c = [m EXCEPT !.min_chunk_size = low, !.max_chunk_size = high,
                    !.sum_chunk_sizes = sum]
  BY DEF ChunkSizes
<1> HIDE DEF c
<1>6. /\ c.total_bytes = m.total_bytes /\ c.chunk_count = m.chunk_count
      /\ c.buffer_acquire_count = m.buffer_acquire_count
      /\ c.buffer_release_count = m.buffer_release_count
      /\ c.buffer_pool_hits = m.buffer_pool_hits
      /\ c.buffer_pool_misses = m.buffer_pool_misses
      /\ c.chunk_latencies = m.chunk_latencies
  BY <1>3, <1>5 DEF MetricsType
<1>7. metrics' = [c EXCEPT !.total_bytes = total, !.chunk_count = count,
                           !.buffer_acquire_count = acquired,
                           !.buffer_release_count = released,
                           !.buffer_pool_hits = hits,
                           !.buffer_pool_misses = misses,
                           !.chunk_latencies = latencies]
  BY <1>4, <1>6
<1> HIDE DEF m, low, high, sum, total, count, acquired, released, hits, misses,
             latencies
<1>8. c \in MetricsType
  BY <1>3, <1>5 DEF MetricsType
<1>9. /\ metrics' \in MetricsType
      /\ metrics'.total_bytes = total /\ metrics'.chunk_count = count
      /\ metrics'.min_chunk_size = c.min_chunk_size
      /\ metrics'.max_chunk_size = c.max_chunk_size
      /\ metrics'.sum_chunk_sizes = c.sum_chunk_sizes
      /\ metrics'.buffer_acquire_count = acquired
      /\ metrics'.buffer_release_count = released
      /\ metrics'.buffer_pool_hits = hits
      /\ metrics'.buffer_pool_misses = misses
      /\ metrics'.chunk_latencies = latencies
  BY <1>3, <1>7, <1>8 DEF MetricsType
<1>10. /\ c.min_chunk_size = low /\ c.max_chunk_size = high
       /\ c.sum_chunk_sizes = sum
  BY <1>3, <1>5 DEF MetricsType
<1>11. Rotation(pool_available')
  BY <1>2, <1>4, RotationStep DEF PoolInv
<1>12. /\ hits = acquired /\ misses = 0 /\ released = acquired
  BY DEF PoolInv, hits, acquired, misses, released, m
<1>13. PoolInv'
  BY <1>9, <1>11, <1>12 DEF PoolInv, Rotation
<1> QED
  BY <1>1, <1>9, <1>10, <1>13
     DEF m, low, high, sum, total, count, latencies

(* A timed GetCommand counts itself and nothing else. *)
LEMMA TimedStep ==
  ASSUME LoopTypes, Tells(metrics, sizes), PoolInv, TimedGet
  PROVE  metrics' \in MetricsType /\ Tells(metrics, sizes)' /\ PoolInv'
<1> DEFINE n == metrics.getcommand_latencies + 1
<1>1. metrics \in MetricsType
  BY DEF LoopTypes
<1>2. n \in Nat
  BY <1>1 DEF MetricsType
<1>3. /\ metrics' = [metrics EXCEPT !.getcommand_latencies = n]
      /\ UNCHANGED <<pool_available, sizes>>
  BY DEF TimedGet
<1> HIDE DEF n
<1>4. /\ metrics' \in MetricsType
      /\ metrics'.total_bytes = metrics.total_bytes
      /\ metrics'.chunk_count = metrics.chunk_count
      /\ metrics'.min_chunk_size = metrics.min_chunk_size
      /\ metrics'.max_chunk_size = metrics.max_chunk_size
      /\ metrics'.sum_chunk_sizes = metrics.sum_chunk_sizes
      /\ metrics'.chunk_latencies = metrics.chunk_latencies
      /\ metrics'.buffer_acquire_count = metrics.buffer_acquire_count
      /\ metrics'.buffer_release_count = metrics.buffer_release_count
      /\ metrics'.buffer_pool_hits = metrics.buffer_pool_hits
      /\ metrics'.buffer_pool_misses = metrics.buffer_pool_misses
  BY <1>1, <1>2, <1>3 DEF MetricsType
<1>5. Tells(metrics, sizes)'
  BY <1>3, <1>4 DEF Tells
<1>6. PoolInv'
  BY <1>3, <1>4 DEF PoolInv, Rotation
<1> QED
  BY <1>4, <1>5, <1>6

(* The parts that are about the loop. *)
LEMMA LoopStepInv ==
  LoopTypes /\ Tells(metrics, sizes) /\ PoolInv /\ [Next]_vars
    => (LoopTypes /\ Tells(metrics, sizes) /\ PoolInv)'
<1> SUFFICES ASSUME LoopTypes, Tells(metrics, sizes), PoolInv, [Next]_vars
             PROVE  (LoopTypes /\ Tells(metrics, sizes) /\ PoolInv)'
  OBVIOUS
<1>1. /\ pc' \in {"new", "connect", "prompt", "open_devices", "GetCommand",
                 "dispatch", "complete", "finally", "del", "exited"}
      /\ exit_code' \in {0, 1}
      /\ cmd' \in Commands \cup {NoCommand}
  <2> USE DEF LoopTypes, Raise, Proceed
  <2>1. CASE New \/ NewFails \/ ConnectNoSet \/ Connect \/ Prompt
    BY <2>1 DEF New, NewFails, ConnectNoSet, Connect, Prompt, clientVars
  <2>2. CASE OpenDevices \/ OpenDevicesFails
    BY <2>2 DEF OpenDevices, OpenDevicesFails
  <2>3. CASE GetFails \/ GetNothing \/ \E c \in Commands : GetCommand(c)
    BY <2>3 DEF GetFails, GetNothing, GetCommand, LoopStep
  <2>4. CASE Dispatch \/ CompleteCommand
    BY <2>4 DEF Dispatch, CompleteCommand, LoopStep
  <2>5. CASE Finally \/ Del
    BY <2>5 DEF Finally, Del
  <2>6. CASE UNCHANGED vars
    BY <2>6 DEF vars, clientVars
  <2> QED
    BY <2>1, <2>2, <2>3, <2>4, <2>5, <2>6 DEF Next
<1>2. CASE UNCHANGED metricVars
  BY <1>1, <1>2 DEF metricVars, LoopTypes, Tells, PoolInv, Rotation
<1>3. CASE TimedGet
  <2>1. sizes' = sizes
    BY <1>3 DEF TimedGet
  <2> QED
    BY <1>1, <1>3, <2>1, TimedStep DEF LoopTypes
<1>4. CASE cmd.code = "VDC_Write" /\ ProcessWrite
  <2>1. sizes' = Append(sizes, cmd.size) /\ sizes \in Seq(Nat)
        /\ metrics \in MetricsType
    BY <1>4 DEF ProcessWrite, LoopTypes
  <2>2. /\ cmd.size \in Nat /\ cmd.size < UINT64_MAX
        /\ metrics' \in MetricsType /\ PoolInv'
        /\ Tells(metrics', Append(sizes, cmd.size))
    BY <1>4, <2>1, WriteStep, TellsStep
  <2>3. sizes' \in Seq(Nat)
    BY <2>1, <2>2
  <2>4. LoopTypes'
    BY <1>1, <2>2, <2>3 DEF LoopTypes
  <2> QED
    BY <2>1, <2>2, <2>4 DEF Tells
<1> QED
  BY <1>2, <1>3, <1>4, MetricSteps

(* The invariant holds in every run of the script. *)
LEMMA Invariant == Spec => []IInv
<1>1. IInv /\ [Next]_vars => IInv'
  BY ComStep, LoopStepInv DEF IInv
<1> QED
  BY InitInv, <1>1, PTL DEF Spec

-----------------------------------------------------------------------------
(* The values the state may take, after every call and every exception.      *)
THEOREM ScriptTypes == Spec => []TypeOK
<1>1. IInv => TypeOK
  <2> SUFFICES ASSUME IInv
               PROVE  TypeOK
    OBVIOUS
  <2>1. \A f \in DOMAIN metrics : metrics[f] \in Nat
    BY DEF IInv, LoopTypes, MetricsType
  <2>2. /\ device_set \in BOOLEAN /\ device \in BOOLEAN
        /\ initialised \in BOOLEAN
    BY Zenon DEF IInv, ComInv
  <2>3. /\ pool_available \in Seq(Buffers)
        /\ apartment \in Apartments /\ comCount \in Nat
        /\ setRefs \in Nat /\ setCloses \in Nat /\ deviceRefs \in Nat
    BY DEF IInv, PoolInv, Rotation, ComInv
  <2> QED
    BY <2>1, <2>2, <2>3 DEF IInv, LoopTypes, TypeOK
<1> QED
  BY Invariant, <1>1, PTL

(* Whatever main() and the object's __del__ did, no interface is left when   *)
(* the script ends, and close(), called by both, closes the set once.        *)
THEOREM EverythingReleased == Spec => []ScriptReleasesAll
<1>1. IInv => ScriptReleasesAll
  BY DEF IInv, ComInv, ScriptReleasesAll
<1> QED
  BY Invariant, <1>1, PTL

(* CoUninitialize is called after the last Release: __del__ runs close()     *)
(* first.                                                                    *)
THEOREM ComHeldLast == Spec => []ComOutlivesInterfaces
<1>1. IInv => ComOutlivesInterfaces
  <2> SUFFICES ASSUME IInv, setRefs + deviceRefs > 0
               PROVE  comCount > 0
    BY DEF ComOutlivesInterfaces
  <2>1. setRefs = 1 /\ pc # "exited" /\ initialised = TRUE
    BY DEF IInv, ComInv
  <2>2. comCount = ComBefore + 1 /\ ComBefore \in Nat
    BY <2>1 DEF IInv, ComInv, ComBefore
  <2> QED
    BY <2>2
<1> QED
  BY Invariant, <1>1, PTL

(* A client whose __init__ succeeded leaves COM as it found it. *)
THEOREM ComAsFound == Spec => []ComBalanced
<1>1. IInv => ComBalanced
  BY DEF IInv, ComInv, ComBalanced
<1> QED
  BY Invariant, <1>1, PTL

(* The report of the metrics is that of the chunks that were processed, for  *)
(* every sequence of sizes.                                                  *)
THEOREM ReportIsOfChunks == Spec => []ReportOfChunks
<1>1. IInv => ReportOfChunks
  <2> SUFFICES ASSUME IInv
               PROVE  ReportOfChunks
    OBVIOUS
  <2>1. /\ sizes \in Seq(Nat) /\ Tells(metrics, sizes)
    BY DEF IInv, LoopTypes
  <2>2. FoldSeq(+, 0, sizes) = SumOf(sizes)
    BY DEF FoldSeq, SumOf
  <2>3. ASSUME sizes # <<>>
        PROVE  /\ metrics.min_chunk_size = Min(ToSet(sizes))
               /\ metrics.max_chunk_size = Max(ToSet(sizes))
    <3> DEFINE S == ToSet(sizes)
               low == metrics.min_chunk_size
               high == metrics.max_chunk_size
    <3>1. /\ S \subseteq Nat /\ low \in S /\ high \in S
          /\ \A n \in S : low <= n /\ n <= high
      BY <2>1, <2>3 DEF Tells, TotalsOf, ToSet
    <3> HIDE DEF S, low, high
    <3>2. low = Min(S)
      <4>1. \A n \in S : (\A k \in S : n <= k) => n = low
        BY <3>1
      <4> QED
        BY <3>1, <4>1, Zenon DEF Min
    <3>3. high = Max(S)
      <4>1. \A n \in S : (\A k \in S : n >= k) => n = high
        BY <3>1
      <4>2. \A k \in S : high >= k
        BY <3>1
      <4> QED
        BY <3>1, <4>1, <4>2, Zenon DEF Max
    <3> QED
      BY <3>2, <3>3 DEF S, low, high
  <2>4. /\ metrics.chunk_count = Len(sizes)
        /\ metrics.chunk_latencies = Len(sizes)
        /\ metrics.total_bytes = SumOf(sizes)
        /\ metrics.sum_chunk_sizes = metrics.total_bytes
    BY <2>1 DEF Tells, TotalsOf
  <2>5. metrics.total_bytes = FoldSeq(+, 0, sizes)
    BY <2>2, <2>4, Zenon
  <2> QED
    BY <2>3, <2>4, <2>5, Zenon DEF ReportOfChunks
<1> QED
  BY Invariant, <1>1, PTL

(* The pool keeps all its buffers, in any number of chunks. *)
THEOREM PoolIsConserved == Spec => []PoolConserved
<1>1. IInv => PoolConserved
  BY DEF IInv, PoolInv, Rotation, PoolConserved, ToSet
<1> QED
  BY Invariant, <1>1, PTL

=============================================================================
