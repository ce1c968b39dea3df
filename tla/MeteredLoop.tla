----------------------------- MODULE MeteredLoop -----------------------------
(***************************************************************************)
(* What process_commands() (src/vdi_client.cpp) measures: the clock        *)
(* readings around its calls, the ChunkTiming records made of them, the    *)
(* counters of Metrics, the simulated use of the BufferPool and the two    *)
(* reports at its end.  VdiSession has the rest of the client.             *)
(*                                                                         *)
(* A step is a call that takes time, on the one thread there is.  Which    *)
(* device a command came from makes no difference here.  A session that    *)
(* ended is not run again, unless VDC_Close left its state STREAMING.      *)
(*                                                                         *)
(* A definition marked "Mutant" is a faulty variant of the one after it.   *)
(* No action uses it: it stands in for that one to test a property.        *)
(***************************************************************************)
EXTENDS Metrics

CONSTANTS
  Commands,          \* commands that GetCommand may return
  Delays,            \* ticks that a call may take
  TimerModes,        \* timers the client may be constructed with
  StartTicks,        \* the hardware counter when it is constructed
  BUFFER_POOL_SIZE,
  ReusedSizes,       \* sizes SQL Server may put in a command it got back
  MaxTicks,          \* bound: ticks from the construction on
  MaxCommands        \* bound: commands taken

ASSUME MeteredAssumption ==
  /\ Commands \subseteq
       [code : {"VDC_Write", "VDC_Close", "other"}, size : 0 .. UINT64_MAX]
  /\ Delays \subseteq Nat
  /\ TimerModes \subseteq {"Chrono", "QPC"}
  /\ StartTicks \subseteq Nat
  /\ BUFFER_POOL_SIZE \in Nat
  /\ ReusedSizes \subseteq Nat
  /\ MaxTicks \in Nat
  /\ MaxCommands \in Nat /\ MaxCommands < UINT64
  /\ 150 * MaxCommands <= PRECISION

VARIABLES
  timer_mode,         \* the timer that was constructed
  start,              \* the hardware counter at that moment
  ticks,              \* the hardware counter
  pc,                 \* the call the loop is about to make; "idle" outside it
  streaming,          \* is the session state STREAMING?
  cmd,                \* the command in hand, or NoCommand
  session_start_us,
  lap,                \* gc_start and the durations of the stages so far
  metrics,
  buffer,             \* pool_buf
  active_buffers_,
  max_active_buffers_,
  report              \* the last reports, or Nothing

VARIABLES free_buffers_, held   \* of BufferPool

(* History, for the properties. *)
VARIABLES
  taken,              \* sizes of the VDC_Write commands taken
  others,             \* number of other commands taken
  first               \* index of the session's first ChunkTiming

Pool == INSTANCE BufferPool WITH Callers <- {"client"}

clockVars == <<timer_mode, start, ticks>>
poolVars == <<buffer, active_buffers_, max_active_buffers_, free_buffers_, held>>
historyVars == <<taken, others, first>>
vars == <<clockVars, pc, streaming, cmd, session_start_us, lap, metrics,
          poolVars, report, historyVars>>

NoCommand == [code |-> "none", size |-> 0]

NoLap == [gc_start |-> 0, gc_us |-> 0, dispatch_us |-> 0, sink_us |-> 0]

Init ==
  /\ timer_mode \in TimerModes
  /\ start \in StartTicks
  /\ ticks = start
  /\ pc = "idle" /\ streaming = TRUE
  /\ cmd = NoCommand
  /\ session_start_us = 0
  /\ lap = NoLap
  /\ metrics = NewMetrics
  /\ buffer = Pool!nullptr
  /\ active_buffers_ = 0 /\ max_active_buffers_ = 0
  /\ report = Nothing
  /\ Pool!Init
  /\ taken = <<>> /\ others = 0 /\ first = 1

-----------------------------------------------------------------------------
(* metrics_.now_us() *)
Now == NowUs(timer_mode, start, ticks)

(* A call of d ticks: Now is the reading before it, Now' the one after. *)
Call(at, d) ==
  /\ pc = at
  /\ ticks' = ticks + d
  /\ UNCHANGED <<timer_mode, start>>

Took == Since(Now, Now')

(* Out of the loop, and of the scope of its variables. *)
Leave(s) ==
  /\ pc' = "report"
  /\ streaming' = s
  /\ cmd' = NoCommand
  /\ lap' = NoLap
  /\ UNCHANGED <<session_start_us, metrics, poolVars, report, historyVars>>

(* From the construction, or the last call, to the first reading of the loop. *)
ProcessCommands(d) ==
  /\ Call("idle", d)
  /\ streaming
  /\ pc' = "get"
  /\ session_start_us' = Now'
  /\ first' = Len(metrics.timings) + 1
  /\ UNCHANGED <<streaming, cmd, lap, metrics, poolVars, report, taken, others>>

(* VD_E_TIMEOUT, or S_OK without a command. *)
GetNothing(d) ==
  /\ Call("get", d)
  /\ UNCHANGED <<pc, streaming, cmd, session_start_us, lap, metrics, poolVars,
                 report, historyVars>>

(* GetCommand reports the end or fails: FLUSHING, then close(), or FAILED. *)
GetEnds(d) ==
  /\ Call("get", d)
  /\ Leave(FALSE)

\* Mutant: sink_us is not reset for each command.
GetCommandKeepsSink(c, d) ==
  /\ Call("get", d)
  /\ pc' = "dispatch"
  /\ cmd' = c
  /\ lap' = [lap EXCEPT !.gc_start = Now, !.gc_us = Took]
  /\ taken' = IF c.code = "VDC_Write" THEN Append(taken, c.size) ELSE taken
  /\ others' = IF c.code = "VDC_Write" THEN others ELSE others + 1
  /\ UNCHANGED <<streaming, session_start_us, metrics, poolVars, report, first>>

GetCommand(c, d) ==
  /\ Call("get", d)
  /\ pc' = "dispatch"
  /\ cmd' = c
  /\ lap' = [NoLap EXCEPT !.gc_start = Now, !.gc_us = Took]
  /\ taken' = IF c.code = "VDC_Write" THEN Append(taken, c.size) ELSE taken
  /\ others' = IF c.code = "VDC_Write" THEN others ELSE others + 1
  /\ UNCHANGED <<streaming, session_start_us, metrics, poolVars, report, first>>

(* dispatch_command(); VDC_Close leaves the loop and the state as it is. *)
DispatchClose(d) ==
  /\ Call("dispatch", d)
  /\ cmd.code = "VDC_Close"
  /\ Leave(streaming)

Dispatch(d) ==
  /\ Call("dispatch", d)
  /\ cmd.code # "VDC_Close"
  /\ pc' = IF cmd.code = "VDC_Write" THEN "acquire" ELSE "complete"
  /\ lap' = [lap EXCEPT !.dispatch_us = Took]
  /\ UNCHANGED <<streaming, cmd, session_start_us, metrics, poolVars, report,
                 historyVars>>

(* A write is counted, and a buffer acquired, before the chunk is looked at. *)
AcquireBuffer(d) ==
  /\ Call("acquire", d)
  /\ \E b \in Pool!Buffers \cup {Pool!nullptr} :
       /\ Pool!Acquire("client", b)
       /\ buffer' = b
       /\ metrics' = RecordBufferAcquire(
                       AddBytes(RecordChunkSize(metrics, cmd.size), cmd.size),
                       b # Pool!nullptr)
  /\ active_buffers_' =
       IF buffer' # Pool!nullptr THEN active_buffers_ + 1 ELSE active_buffers_
  /\ max_active_buffers_' = IF active_buffers_' > max_active_buffers_
                              THEN active_buffers_' ELSE max_active_buffers_
  /\ pc' = IF buffer' # Pool!nullptr THEN "release" ELSE "sink"
  /\ UNCHANGED <<streaming, cmd, session_start_us, lap, report, historyVars>>

(* ... and given back: the chunk never is in it. *)
ReleaseBuffer ==
  /\ Call("release", 0)
  /\ Pool!Release("client", buffer)
  /\ buffer' = Pool!nullptr
  /\ active_buffers_' = active_buffers_ - 1
  /\ metrics' = RecordBufferRelease(metrics)
  /\ pc' = "sink"
  /\ UNCHANGED <<streaming, cmd, session_start_us, lap, max_active_buffers_,
                 report, historyVars>>

SinkWrite(d) ==
  /\ Call("sink", d)
  /\ pc' = "complete"
  /\ lap' = [lap EXCEPT !.sink_us = Took]
  /\ UNCHANGED <<streaming, cmd, session_start_us, metrics, poolVars, report,
                 historyVars>>

(* The chunk is invalid, the sink not open, or write() fails. *)
SinkFails(d) ==
  /\ Call("sink", d)
  /\ Leave(FALSE)

(* The ChunkTiming of the command in hand. *)
Timing(size, complete_us) ==
  [size |-> size,
   getcommand_us |-> lap.gc_us,
   dispatch_us |-> lap.dispatch_us,
   sink_us |-> lap.sink_us,
   complete_us |-> complete_us,
   total_us |-> lap.gc_us + lap.dispatch_us + lap.sink_us + complete_us,
   timestamp_us |-> Since(session_start_us, lap.gc_start)]

(* cmd->size is read once SQL Server has the command back: it may be the     *)
(* size of the command it puts there next.                                  *)
CompleteCommand(d, size) ==
  /\ Call("complete", d)
  /\ metrics' = RecordChunkTiming(metrics, Timing(size, Took))
  /\ pc' = "get"
  /\ cmd' = NoCommand
  /\ UNCHANGED <<streaming, session_start_us, lap, poolVars, report,
                 historyVars>>

(* CompleteCommand fails, or the fault injector ends the session after it. *)
CompleteFails(d) ==
  /\ Call("complete", d)
  /\ Leave(FALSE)

(* The reports, made one after the other after the loop. *)
Report(d) ==
  /\ Call("report", d)
  /\ pc' = "idle"
  /\ report' = [summary |-> Summary(metrics, ticks - start),
                json |-> Json(metrics, ticks' - start)]
  /\ UNCHANGED <<streaming, cmd, session_start_us, lap, metrics, poolVars,
                 historyVars>>

Next ==
  \E d \in Delays :
    /\ ticks + d <= start + MaxTicks
    /\ \/ ProcessCommands(d)
       \/ GetNothing(d) \/ GetEnds(d)
       \/ /\ Len(taken) + others < MaxCommands
          /\ \E c \in Commands : GetCommand(c, d)
       \/ DispatchClose(d) \/ Dispatch(d)
       \/ AcquireBuffer(d) \/ ReleaseBuffer
       \/ SinkWrite(d) \/ SinkFails(d)
       \/ \E size \in {cmd.size} \cup ReusedSizes : CompleteCommand(d, size)
       \/ CompleteFails(d)
       \/ Report(d)

Spec == Init /\ [][Next]_vars

-----------------------------------------------------------------------------
TimingType ==
  [size : Nat, getcommand_us : Nat, dispatch_us : Nat, sink_us : Nat,
   complete_us : Nat, total_us : Nat, timestamp_us : Nat]

MetricsType ==
  [total_bytes : Nat, chunk_count : Nat, min_chunk_size : Nat,
   max_chunk_size : Nat, sum_chunk_sizes : Nat, acquires : Nat,
   releases : Nat, hits : Nat, misses : Nat, timings : Seq(TimingType)]

(* The values the state may take. *)
TypeOK ==
  /\ timer_mode \in {"Chrono", "QPC"}
  /\ start \in Nat /\ ticks \in Nat /\ start <= ticks
  /\ pc \in {"idle", "get", "dispatch", "acquire", "release", "sink",
            "complete", "report"}
  /\ streaming \in BOOLEAN
  /\ cmd \in Commands \cup {NoCommand}
  /\ session_start_us \in Nat
  /\ lap \in [gc_start : Nat, gc_us : Nat, dispatch_us : Nat, sink_us : Nat]
  /\ metrics \in MetricsType
  /\ buffer \in Pool!Buffers \cup {Pool!nullptr}
  /\ active_buffers_ \in Nat /\ max_active_buffers_ \in Nat
  /\ free_buffers_ \in Seq(Pool!Buffers)
  /\ held \in [{"client"} -> SUBSET Pool!Buffers]
  /\ taken \in Seq(Nat) /\ others \in Nat /\ first \in Nat \ {0}

(* Has the clock not overflowed yet?  In QPCTimer it is the product of the   *)
(* ticks and a million that does, after 21 days of a 10 MHz counter.         *)
WithinHorizon ==
  IF timer_mode = "QPC" THEN (ticks - start) * MICRO < UINT64 ELSE Now < UINT64

(* Within a session the clock does not run backwards, as include/timer.h     *)
(* demands of it, until it overflows.                                        *)
ClockMonotone == [][WithinHorizon' => Now' >= Now]_vars

(* The stages of a chunk, added up from its timestamp on, end before the     *)
(* next chunk of the session begins and before now: no stage counts time of  *)
(* another stage, of another chunk or of an earlier session.                 *)
TimingsFit ==
  WithinHorizon /\ pc # "idle" =>
    \A i \in first .. Len(metrics.timings) :
      LET t == metrics.timings[i]
          end == t.timestamp_us + t.total_us
      IN /\ t.total_us = t.getcommand_us + t.dispatch_us + t.sink_us
                           + t.complete_us
         /\ session_start_us + end <= Now
         /\ i < Len(metrics.timings) =>
              end <= metrics.timings[i + 1].timestamp_us

Sum(s) == FoldFunction(+, 0, s)

(* Every VDC_Write that was taken is counted once, with the size it had when *)
(* it was taken, before the next GetCommand and before the report, whether   *)
(* it was stored or not and whatever SQL Server does with the command.       *)
TakenIsCounted ==
  pc \in {"get", "report", "idle"} =>
    /\ metrics.total_bytes = Sum(taken)
    /\ metrics.sum_chunk_sizes = Sum(taken)
    /\ metrics.chunk_count = Len(taken)
    /\ \A n \in Range(taken) :
         metrics.min_chunk_size <= n /\ n <= metrics.max_chunk_size
    /\ taken # <<>> =>
         {metrics.min_chunk_size, metrics.max_chunk_size} \subseteq Range(taken)

(* The loop holds at most one buffer, and none over a call to the sink or to *)
(* the device, so that a pool with a buffer in it is never found empty.      *)
PoolNeverDry ==
  /\ Pool!BuffersConserved
  /\ held["client"] = IF pc = "release" THEN {buffer} ELSE {}
  /\ metrics.misses > 0 => BUFFER_POOL_SIZE = 0
  /\ metrics.acquires = metrics.hits + metrics.misses
  /\ metrics.hits = metrics.releases + active_buffers_
  /\ max_active_buffers_ <= 1

(* percentile() is the nearest-rank percentile at the percents that the      *)
(* reports print, the smallest value that at least p percent of the values   *)
(* do not exceed: neither rounding in the rank makes it miss that value.     *)
IsNearestRank(v, values, p) ==
  LET n == Len(values)
      upTo(w) == Cardinality({i \in DOMAIN values : values[i] <= w})
  IN /\ v \in Range(values)
     /\ 100 * upTo(v) >= p * n
     /\ \A w \in Range(values) : w < v => 100 * upTo(w) < p * n

PercentilesAreNearestRank ==
  pc = "report" /\ metrics.timings # <<>> =>
    \A field \in StageFields, p \in Percents :
      LET values == StageValues(metrics, field)
      IN IsNearestRank(Percentile(values, p), values, p)

(* The printed summary and the JSON report, two separate computations over   *)
(* the same counters, tell the same: where the one has no data the other has *)
(* zeros, and the average from the totals is the one of the chunk sizes.     *)
ReportsAgree ==
  report # Nothing =>
    LET s == report.summary
        j == report.json
    IN /\ s.total_bytes = j.total_bytes /\ s.chunk_count = j.chunk_count
       /\ s.pool = j.pool
       /\ s.elapsed <= j.elapsed
       /\ j.sizes = IF s.sizes = Nothing THEN <<0, 0, 0>> ELSE s.sizes
       /\ s.average # Nothing => s.average[1] = j.sizes[2]
       /\ j.stages = IF s.stages = Nothing
                       THEN [f \in StageFields |-> [p \in Percents |-> 0]]
                       ELSE s.stages
       /\ \A f \in StageFields :
            j.stages[f][50] <= j.stages[f][95] /\ j.stages[f][95] <= j.stages[f][99]

=============================================================================
