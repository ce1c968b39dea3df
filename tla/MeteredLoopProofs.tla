-------------------------- MODULE MeteredLoopProofs --------------------------
(***************************************************************************)
(* Proofs about MeteredLoop, for every width of the integers, frequency of *)
(* the counter, set of commands and number of buffers.  The clock is       *)
(* dealt with first, as a function; what the loop measures then follows    *)
(* from an invariant that adds the stages up from the first reading on.    *)
(* The last part is about what is reported: the sorted values and their    *)
(* percentiles, the sums and bounds of the chunk sizes (by the lemmas of   *)
(* ChunkTotals), and the two reports made of them.                         *)
(***************************************************************************)
EXTENDS MeteredLoop, ChunkTotals

PoolProofs == INSTANCE BufferPoolProofs WITH Callers <- {"client"}

-----------------------------------------------------------------------------
(* Arithmetic. *)

(* A division by a positive number, as a bound on the quotient. *)
LEMMA Quotient ==
  ASSUME NEW a \in Nat, NEW f \in Nat \ {0}
  PROVE  a \div f \in Nat /\ f * (a \div f) <= a /\ a < f * (a \div f) + f
  OBVIOUS

(* A larger count of ticks is a larger product. *)
LEMMA ProductGrows ==
  ASSUME NEW a \in Nat, NEW b \in Nat, a <= b, NEW m \in Nat
  PROVE  a * m \in Nat /\ b * m \in Nat /\ a * m <= b * m
  OBVIOUS

(* Division keeps the order of its dividends. *)
LEMMA QuotientGrows ==
  ASSUME NEW a \in Nat, NEW b \in Nat, a <= b, NEW f \in Nat \ {0}
  PROVE  a \div f <= b \div f /\ b \div f <= b
<1> DEFINE p == a \div f
           q == b \div f
<1>1. /\ p \in Nat /\ f * p <= a /\ a < f * p + f
      /\ q \in Nat /\ f * q <= b /\ b < f * q + f
  BY Quotient
<1> HIDE DEF p, q
<1>2. f * q < f * q + f /\ f * (q + 1) = f * q + f /\ f * p \in Nat /\ f * q \in Nat
  BY <1>1
<1>3. p <= q
  <2> SUFFICES ASSUME q + 1 <= p PROVE FALSE
    BY <1>1
  <2>1. (q + 1) * f <= p * f
    BY <1>1, ProductGrows
  <2>2. (q + 1) * f = f * q + f /\ p * f = f * p
    BY <1>1, <1>2
  <2> QED
    BY <1>1, <1>2, <2>1, <2>2
<1>4. q <= b
  <2>1. 1 * q <= f * q
    BY <1>1, ProductGrows
  <2> QED
    BY <1>1, <1>2, <2>1
<1> QED
  BY <1>3, <1>4 DEF p, q

(* A value wrapped to the width, and a value that fits it. *)
LEMMA Remainder ==
  ASSUME NEW x \in Int
  PROVE  /\ x % UINT64 \in Nat /\ x % UINT64 < UINT64
         /\ 0 <= x /\ x < UINT64 => x % UINT64 = x
  BY MetricsAssumption

(* The difference of two readings in order is exact below the width. *)
LEMMA Difference ==
  ASSUME NEW a \in Nat, NEW b \in Nat
  PROVE  /\ Since(a, b) \in Nat
         /\ a <= b /\ b < UINT64 => Since(a, b) = b - a
<1>1. b - a \in Int
  OBVIOUS
<1>2. a <= b /\ b < UINT64 => 0 <= b - a /\ b - a < UINT64
  BY MetricsAssumption
<1> DEFINE x == b - a
<1>3. x % UINT64 \in Nat /\ (0 <= x /\ x < UINT64 => x % UINT64 = x)
  <2> HIDE DEF x
  <2> QED
    BY <1>1, Remainder DEF x
<1> QED
  BY <1>2, <1>3 DEF Since

-----------------------------------------------------------------------------
(* The clock. *)

Modes == {"Chrono", "QPC"}

(* Has the timer, read at c, not overflowed? *)
Below(mode, s, c) ==
  IF mode = "QPC" THEN (c - s) * MICRO < UINT64 ELSE NowUs(mode, s, c) < UINT64

(* A reading of the timer is the whole microseconds of the ticks. *)
LEMMA Reading ==
  ASSUME NEW mode \in Modes, NEW s \in Nat, NEW c \in Nat, s <= c
  PROVE  NowUs(mode, s, c) \in Nat
<1>1. c - s \in Nat /\ MICRO \in Nat /\ FREQ \in Nat \ {0}
  BY MetricsAssumption
<1>2. (c - s) * MICRO \in Nat /\ ((c - s) * MICRO) % UINT64 \in Nat
  BY <1>1, ProductGrows, Remainder
<1>3. ((c - s) * MICRO) \div FREQ \in Nat
      /\ (((c - s) * MICRO) % UINT64) \div FREQ \in Nat
  BY <1>1, <1>2, Quotient
<1> QED
  BY <1>3 DEF NowUs, QPCTimerNow, ChronoTimerNow

(* Below the overflow both timers are the same function of the counter, it    *)
(* does not decrease, and its values are below the width.                    *)
LEMMA ReadingBelow ==
  ASSUME NEW mode \in Modes, NEW s \in Nat, NEW c \in Nat, s <= c,
         Below(mode, s, c)
  PROVE  NowUs(mode, s, c) = ChronoTimerNow(s, c) /\ NowUs(mode, s, c) < UINT64
<1>1. CASE mode = "QPC"
  <2>1. c - s \in Nat /\ MICRO \in Nat /\ FREQ \in Nat \ {0}
    BY MetricsAssumption
  <2>2. (c - s) * MICRO \in Nat /\ (c - s) * MICRO < UINT64
    BY <1>1, <2>1, ProductGrows DEF Below
  <2>3. ((c - s) * MICRO) % UINT64 = (c - s) * MICRO
    BY <2>2, Remainder
  <2>4. ((c - s) * MICRO) \div FREQ <= (c - s) * MICRO
    BY <2>1, <2>2, QuotientGrows
  <2>5. ((c - s) * MICRO) \div FREQ \in Nat
    BY <2>1, <2>2, Quotient
  <2> DEFINE x == (c - s) * MICRO
             y == x \div FREQ
  <2>6. y < UINT64
    <3> HIDE DEF x, y
    <3> QED
      BY <2>2, <2>4, <2>5, MetricsAssumption DEF x, y
  <2> QED
    BY <1>1, <2>3, <2>6 DEF NowUs, QPCTimerNow, ChronoTimerNow
<1>2. CASE mode # "QPC"
  BY <1>2 DEF Below, NowUs
<1> QED
  BY <1>1, <1>2

(* A later reading is no smaller. *)
LEMMA ReadingsGrow ==
  ASSUME NEW mode \in Modes, NEW s \in Nat, NEW a \in Nat, NEW b \in Nat,
         s <= a, a <= b, Below(mode, s, b)
  PROVE  Below(mode, s, a) /\ NowUs(mode, s, a) <= NowUs(mode, s, b)
<1> DEFINE x == (a - s) * MICRO
           y == (b - s) * MICRO
<1>1. /\ a - s \in Nat /\ b - s \in Nat /\ a - s <= b - s
      /\ MICRO \in Nat /\ FREQ \in Nat \ {0} /\ UINT64 \in Nat
  BY MetricsAssumption
<1>2. x \in Nat /\ y \in Nat /\ x <= y
  BY <1>1, ProductGrows
<1>3. /\ ChronoTimerNow(s, a) = x \div FREQ /\ ChronoTimerNow(s, b) = y \div FREQ
      /\ Below("QPC", s, a) <=> x < UINT64
      /\ Below("QPC", s, b) <=> y < UINT64
  BY DEF ChronoTimerNow, Below
<1> HIDE DEF x, y
<1>4. x \div FREQ \in Nat /\ y \div FREQ \in Nat /\ x \div FREQ <= y \div FREQ
  BY <1>1, <1>2, QuotientGrows, Quotient
<1>5. NowUs(mode, s, b) = y \div FREQ /\ NowUs(mode, s, b) < UINT64
  <2>1. s <= b
    OBVIOUS
  <2> QED
    BY <1>3, <2>1, ReadingBelow
<1>6. Below(mode, s, a)
  <2>1. CASE mode = "QPC"
    BY <1>1, <1>2, <1>3, <2>1
  <2>2. CASE mode # "QPC"
    <3>1. NowUs(mode, s, a) = x \div FREQ
      BY <1>3, <2>2 DEF NowUs
    <3> QED
      BY <1>1, <1>4, <1>5, <2>2, <3>1 DEF Below
  <2> QED
    BY <2>1, <2>2
<1>7. NowUs(mode, s, a) = x \div FREQ
  BY <1>3, <1>6, ReadingBelow
<1> QED
  BY <1>4, <1>5, <1>6, <1>7

-----------------------------------------------------------------------------
(* The state. *)

(* The counters, the pool and the two variables that follow it, and where    *)
(* the buffer is: in the hand of the loop between its two calls of the pool. *)
BufferInv ==
  /\ Pool!BuffersConserved
  /\ held["client"] = IF pc = "release" THEN {buffer} ELSE {}
  /\ active_buffers_ = IF pc = "release" THEN 1 ELSE 0
  /\ max_active_buffers_ <= 1
  /\ metrics.misses > 0 => BUFFER_POOL_SIZE = 0
  /\ metrics.acquires = metrics.hits + metrics.misses
  /\ metrics.hits = metrics.releases + active_buffers_

(* A call passes time: what its reading before and after it tell. *)
LEMMA Elapse ==
  ASSUME TypeOK, NEW d \in Nat, NEW at, Call(at, d)
  PROVE  /\ timer_mode' = timer_mode /\ start' = start
         /\ ticks' \in Nat /\ start' <= ticks'
         /\ Now \in Nat /\ Now' \in Nat /\ Took \in Nat
         /\ WithinHorizon' => /\ WithinHorizon
                              /\ Now <= Now' /\ Now' < UINT64
                              /\ Took = Now' - Now
<1>1. /\ timer_mode \in Modes /\ start \in Nat /\ ticks \in Nat /\ start <= ticks
      /\ timer_mode' = timer_mode /\ start' = start /\ ticks' = ticks + d
  BY DEF TypeOK, Modes, Call
<1>2. ticks' \in Nat /\ ticks <= ticks' /\ start <= ticks'
  BY <1>1
<1>3. /\ Now = NowUs(timer_mode, start, ticks)
      /\ Now' = NowUs(timer_mode, start, ticks')
      /\ WithinHorizon <=> Below(timer_mode, start, ticks)
      /\ WithinHorizon' <=> Below(timer_mode, start, ticks')
  BY <1>1 DEF Now, WithinHorizon, Below
<1>4. Now \in Nat /\ Now' \in Nat
  BY <1>1, <1>2, <1>3, Reading
<1>5. Took \in Nat /\ (Now <= Now' /\ Now' < UINT64 => Took = Now' - Now)
  BY <1>4, Difference DEF Took
<1>6. ASSUME WithinHorizon'
      PROVE  WithinHorizon /\ Now <= Now' /\ Now' < UINT64
  BY <1>1, <1>2, <1>3, <1>6, ReadingsGrow, ReadingBelow
<1> QED
  BY <1>1, <1>2, <1>4, <1>5, <1>6

(* The counters after a chunk and a buffer were counted. *)
LEMMA Counting ==
  ASSUME NEW m \in MetricsType, NEW n \in Nat, NEW ok \in BOOLEAN,
         NEW r, r = RecordBufferAcquire(AddBytes(RecordChunkSize(m, n), n), ok)
  PROVE  /\ r \in MetricsType /\ r.timings = m.timings /\ r.releases = m.releases
         /\ r.acquires = m.acquires + 1
         /\ r.hits = IF ok THEN m.hits + 1 ELSE m.hits
         /\ r.misses = IF ok THEN m.misses ELSE m.misses + 1
<1> DEFINE a == RecordChunkSize(m, n)
           b == AddBytes(a, n)
<1>1. /\ a \in MetricsType /\ a.timings = m.timings /\ a.releases = m.releases
      /\ a.acquires = m.acquires /\ a.hits = m.hits /\ a.misses = m.misses
  <2> DEFINE x == IF n < m.min_chunk_size THEN n ELSE m.min_chunk_size
             y == IF n > m.max_chunk_size THEN n ELSE m.max_chunk_size
             z == m.sum_chunk_sizes + n
  <2>1. x \in Nat /\ y \in Nat /\ z \in Nat
    BY DEF MetricsType
  <2>2. a = [m EXCEPT !.min_chunk_size = x, !.max_chunk_size = y,
                      !.sum_chunk_sizes = z]
    BY DEF RecordChunkSize
  <2> HIDE DEF a, x, y, z
  <2> QED
    BY <2>1, <2>2 DEF MetricsType
<1> HIDE DEF a
<1>2. /\ b \in MetricsType /\ b.timings = m.timings /\ b.releases = m.releases
      /\ b.acquires = m.acquires /\ b.hits = m.hits /\ b.misses = m.misses
  <2> DEFINE x == a.total_bytes + n
             y == a.chunk_count + 1
  <2>1. x \in Nat /\ y \in Nat
    <3>1. a.total_bytes \in Nat /\ a.chunk_count \in Nat
      BY <1>1 DEF MetricsType
    <3> QED
      BY <3>1
  <2>2. b = [a EXCEPT !.total_bytes = x, !.chunk_count = y]
    BY DEF AddBytes
  <2> HIDE DEF b, x, y
  <2>3. /\ b \in MetricsType /\ b.timings = a.timings /\ b.releases = a.releases
        /\ b.acquires = a.acquires /\ b.hits = a.hits /\ b.misses = a.misses
    BY <1>1, <2>1, <2>2 DEF MetricsType
  <2> QED
    BY <1>1, <2>3
<1>3. r = RecordBufferAcquire(b, ok)
  BY DEF a
<1> HIDE DEF b
<1> DEFINE x == b.acquires + 1
           y == IF ok THEN b.hits + 1 ELSE b.hits
           z == IF ok THEN b.misses ELSE b.misses + 1
<1>4. x \in Nat /\ y \in Nat /\ z \in Nat
  <2>1. b.acquires \in Nat /\ b.hits \in Nat /\ b.misses \in Nat
    BY <1>2 DEF MetricsType
  <2> QED
    BY <2>1
<1>5. r = [b EXCEPT !.acquires = x, !.hits = y, !.misses = z]
  BY <1>3 DEF RecordBufferAcquire
<1> HIDE DEF x, y, z
<1>6. /\ r \in MetricsType /\ r.timings = b.timings /\ r.releases = b.releases
      /\ r.acquires = x /\ r.hits = y /\ r.misses = z
  BY <1>2, <1>4, <1>5 DEF MetricsType
<1> QED
  BY <1>2, <1>6 DEF x, y, z

(* What recordBufferRelease changes, and what it leaves alone. *)
LEMMA Releasing ==
  ASSUME NEW m \in MetricsType, NEW r, r = RecordBufferRelease(m)
  PROVE  /\ r \in MetricsType /\ r.timings = m.timings
         /\ r.releases = m.releases + 1
         /\ r.acquires = m.acquires /\ r.hits = m.hits /\ r.misses = m.misses
<1> DEFINE x == m.releases + 1
<1>1. x \in Nat
  BY DEF MetricsType
<1>2. r = [m EXCEPT !.releases = x]
  BY DEF RecordBufferRelease
<1> HIDE DEF x
<1>3. /\ r \in MetricsType /\ r.timings = m.timings /\ r.releases = x
      /\ r.acquires = m.acquires /\ r.hits = m.hits /\ r.misses = m.misses
  BY <1>1, <1>2 DEF MetricsType
<1> QED
  BY <1>3 DEF x

(* What recordChunkTiming changes, and what it leaves alone. *)
LEMMA Recording ==
  ASSUME NEW m \in MetricsType, NEW t \in TimingType, NEW r,
         r = RecordChunkTiming(m, t)
  PROVE  /\ r \in MetricsType /\ r.timings = Append(m.timings, t)
         /\ r.releases = m.releases
         /\ r.acquires = m.acquires /\ r.hits = m.hits /\ r.misses = m.misses
<1> DEFINE s == Append(m.timings, t)
<1>1. s \in Seq(TimingType)
  BY DEF MetricsType
<1>2. r = [m EXCEPT !.timings = s]
  BY DEF RecordChunkTiming
<1> HIDE DEF s
<1>3. /\ r \in MetricsType /\ r.timings = s /\ r.releases = m.releases
      /\ r.acquires = m.acquires /\ r.hits = m.hits /\ r.misses = m.misses
  BY <1>1, <1>2 DEF MetricsType
<1> QED
  BY <1>3 DEF s

(* The timing CompleteCommand records has its type. *)
LEMMA TimingTyped ==
  ASSUME TypeOK, NEW size \in Nat, NEW us \in Nat
  PROVE  Timing(size, us) \in TimingType
<1>1. /\ lap.gc_us \in Nat /\ lap.dispatch_us \in Nat /\ lap.sink_us \in Nat
      /\ lap.gc_start \in Nat /\ session_start_us \in Nat
  BY DEF TypeOK
<1>2. Since(session_start_us, lap.gc_start) \in Nat
  BY <1>1, Difference
<1> QED
  BY <1>1, <1>2 DEF Timing, TimingType

(* The size of a command is a natural number. *)
LEMMA SizesTyped == TypeOK => cmd.size \in Nat
  BY MeteredAssumption DEF TypeOK, NoCommand

(* The pool keeps its buffers whatever the loop asks of it. *)
LEMMA PoolStep ==
  ASSUME TypeOK, Pool!BuffersConserved,
         NEW b, Pool!Acquire("client", b) \/ Pool!Release("client", b)
  PROVE  /\ Pool!BuffersConserved'
         /\ free_buffers_' \in Seq(Pool!Buffers)
         /\ held' \in [{"client"} -> SUBSET Pool!Buffers]
<1> DEFINE Inv == PoolProofs!IInv
<1>1. Inv <=> /\ free_buffers_ \in Seq(Pool!Buffers)
              /\ held \in [{"client"} -> SUBSET Pool!Buffers]
              /\ Pool!BuffersConserved
  BY DEF PoolProofs!IInv, PoolProofs!BuffersConserved, PoolProofs!Buffers,
         PoolProofs!Free, Pool!BuffersConserved, Pool!Buffers, Pool!Free
<1>2. Inv' <=> /\ free_buffers_' \in Seq(Pool!Buffers)
               /\ held' \in [{"client"} -> SUBSET Pool!Buffers]
               /\ Pool!BuffersConserved'
  BY DEF PoolProofs!IInv, PoolProofs!BuffersConserved, PoolProofs!Buffers,
         PoolProofs!Free, Pool!BuffersConserved, Pool!Buffers, Pool!Free
<1>3. Inv
  BY <1>1 DEF TypeOK
<1>4. CASE Pool!Acquire("client", b)
  <2>1. PoolProofs!Acquire("client", b)
    BY <1>4 DEF Pool!Acquire, Pool!AcquireEmpty, Pool!AcquireFront, Pool!nullptr,
         Pool!poolVars, PoolProofs!Acquire, PoolProofs!AcquireEmpty,
         PoolProofs!AcquireFront, PoolProofs!nullptr, PoolProofs!poolVars
  <2>2. Inv'
    BY <1>3, <2>1, PoolProofs!AcquireInv
  <2> QED
    BY <1>2, <2>2
<1>5. CASE Pool!Release("client", b)
  <2>1. PoolProofs!Release("client", b)
    BY <1>5 DEF Pool!Release, PoolProofs!Release
  <2>2. Inv'
    BY <1>3, <2>1, PoolProofs!ReleaseInv
  <2> QED
    BY <1>2, <2>2
<1> QED
  BY <1>4, <1>5

LoopInv == TypeOK /\ BufferInv

(* The loop before its first command. *)
LEMMA LoopInit == Init => LoopInv
<1> SUFFICES ASSUME Init PROVE LoopInv
  OBVIOUS
<1> USE MeteredAssumption DEF Init, Pool!Init, Pool!nullptr
<1>1. metrics \in MetricsType
  <2>1. UINT64 - 1 \in Nat
    BY MetricsAssumption
  <2> QED
    BY <2>1 DEF NewMetrics, UINT64_MAX, MetricsType
<1>2. lap \in [gc_start : Nat, gc_us : Nat, dispatch_us : Nat, sink_us : Nat]
  BY DEF NoLap
<1>3. TypeOK
  BY <1>1, <1>2 DEF TypeOK, Pool!Buffers
<1>4. PoolProofs!Init
  BY DEF PoolProofs!Init, PoolProofs!Buffers, Pool!Buffers
<1>5. PoolProofs!IInv
  BY <1>4, PoolProofs!InitInv
<1>6. Pool!BuffersConserved
  BY <1>5 DEF PoolProofs!IInv, PoolProofs!BuffersConserved, PoolProofs!Buffers,
     PoolProofs!Free, Pool!BuffersConserved, Pool!Buffers, Pool!Free
<1>7. BufferInv
  BY <1>6 DEF BufferInv, NewMetrics
<1> QED
  BY <1>3, <1>7 DEF LoopInv

(* A step that leaves the pool and its variables alone keeps BufferInv if it  *)
(* does not come from, nor lead to, the place where the buffer is in hand.   *)
LEMMA BufferKept ==
  ASSUME BufferInv, UNCHANGED poolVars, pc # "release", pc' # "release",
         metrics'.misses = metrics.misses, metrics'.hits = metrics.hits,
         metrics'.acquires = metrics.acquires,
         metrics'.releases = metrics.releases
  PROVE  BufferInv'
<1>1. Pool!BuffersConserved'
  BY DEF BufferInv, poolVars, Pool!BuffersConserved, Pool!Free, Pool!Buffers
<1> QED
  BY <1>1 DEF BufferInv, poolVars

(* Every step but those of the pool and of CompleteCommand. *)
LEMMA LoopStep ==
  ASSUME LoopInv, NEW d \in Nat,
         \/ ProcessCommands(d) \/ GetNothing(d) \/ GetEnds(d)
         \/ \E c \in Commands : GetCommand(c, d)
         \/ DispatchClose(d) \/ Dispatch(d)
         \/ SinkWrite(d) \/ SinkFails(d) \/ CompleteFails(d) \/ Report(d)
  PROVE  LoopInv'
<1>1. TypeOK /\ BufferInv
  BY DEF LoopInv
<1>2. PICK at : Call(at, d)
  BY DEF ProcessCommands, GetNothing, GetEnds, GetCommand, DispatchClose,
     Dispatch, SinkWrite, SinkFails, CompleteFails, Report
<1>3. /\ timer_mode' = timer_mode /\ start' = start /\ ticks' \in Nat
      /\ start' <= ticks' /\ Now \in Nat /\ Now' \in Nat /\ Took \in Nat
  BY <1>1, <1>2, Elapse
<1>4. UNCHANGED <<poolVars, metrics>> /\ pc # "release" /\ pc' # "release"
  BY DEF ProcessCommands, GetNothing, GetEnds, GetCommand, DispatchClose,
     Dispatch, SinkWrite, SinkFails, CompleteFails, Report, Call, Leave
<1>5. BufferInv'
  BY <1>1, <1>4, BufferKept
<1>6. TypeOK'
  <2>1. /\ pc' \in {"idle", "get", "dispatch", "acquire", "release", "sink",
                    "complete", "report"}
        /\ streaming' \in {streaming, FALSE}
        /\ cmd' \in Commands \cup {cmd, NoCommand}
    BY DEF ProcessCommands, GetNothing, GetEnds, GetCommand, DispatchClose,
       Dispatch, SinkWrite, SinkFails, CompleteFails, Report, Call, Leave,
       historyVars
  <2>2. /\ session_start_us' \in {session_start_us, Now'}
        /\ first' \in {first, Len(metrics.timings) + 1}
    BY DEF ProcessCommands, GetNothing, GetEnds, GetCommand, DispatchClose,
       Dispatch, SinkWrite, SinkFails, CompleteFails, Report, Call, Leave,
       historyVars
  <2>3. /\ others' \in {others, others + 1}
        /\ taken' = taken \/ \E c \in Commands : taken' = Append(taken, c.size)
    BY DEF ProcessCommands, GetNothing, GetEnds, GetCommand, DispatchClose,
       Dispatch, SinkWrite, SinkFails, CompleteFails, Report, Call, Leave,
       historyVars
  <2>4. /\ streaming' \in BOOLEAN /\ cmd' \in Commands \cup {NoCommand}
        /\ session_start_us' \in Nat /\ others' \in Nat
    <3>1. /\ streaming \in BOOLEAN /\ cmd \in Commands \cup {NoCommand}
          /\ session_start_us \in Nat /\ others \in Nat
      BY <1>1 DEF TypeOK
    <3>2. streaming' \in BOOLEAN
      BY <2>1, <3>1
    <3> QED
      BY <1>3, <2>1, <2>2, <2>3, <3>1, <3>2
  <2>5. first' \in Nat \ {0}
    <3>1. Len(metrics.timings) \in Nat /\ first \in Nat \ {0}
      BY <1>1 DEF TypeOK, MetricsType
    <3> QED
      BY <2>2, <3>1
  <2>6. taken' \in Seq(Nat)
    <3>1. (\A c \in Commands : c.size \in Nat) /\ taken \in Seq(Nat)
      BY <1>1, MeteredAssumption DEF TypeOK
    <3> QED
      BY <2>3, <3>1
  <2>7. lap' \in [gc_start : Nat, gc_us : Nat, dispatch_us : Nat, sink_us : Nat]
    <3>1. \/ UNCHANGED lap \/ lap' = NoLap
          \/ lap' = [NoLap EXCEPT !.gc_start = Now, !.gc_us = Took]
          \/ lap' = [lap EXCEPT !.dispatch_us = Took]
          \/ lap' = [lap EXCEPT !.sink_us = Took]
      BY DEF ProcessCommands, GetNothing, GetEnds, GetCommand, DispatchClose,
         Dispatch, SinkWrite, SinkFails, CompleteFails, Report, Leave
    <3>2. lap \in [gc_start : Nat, gc_us : Nat, dispatch_us : Nat, sink_us : Nat]
      BY <1>1 DEF TypeOK
    <3>3. NoLap \in [gc_start : Nat, gc_us : Nat, dispatch_us : Nat, sink_us : Nat]
      BY DEF NoLap
    <3> QED
      BY <1>3, <3>1, <3>2, <3>3
  <2>8. /\ buffer' \in Pool!Buffers \cup {Pool!nullptr}
        /\ active_buffers_' \in Nat /\ max_active_buffers_' \in Nat
        /\ free_buffers_' \in Seq(Pool!Buffers)
        /\ held' \in [{"client"} -> SUBSET Pool!Buffers]
        /\ metrics' \in MetricsType
    BY <1>1, <1>4 DEF TypeOK, poolVars, Pool!Buffers, Pool!nullptr
  <2>9. timer_mode' \in {"Chrono", "QPC"} /\ start' \in Nat
    BY <1>1, <1>3 DEF TypeOK
  <2> QED
    BY <1>3, <2>1, <2>4, <2>5, <2>6, <2>7, <2>8, <2>9
       DEF TypeOK, Pool!Buffers, Pool!nullptr
<1> QED
  BY <1>5, <1>6 DEF LoopInv

(* Taking a slot keeps the invariant. *)
LEMMA AcquireStep ==
  ASSUME LoopInv, NEW d \in Nat, AcquireBuffer(d)
  PROVE  LoopInv' /\ metrics'.timings = metrics.timings
<1>1. TypeOK /\ BufferInv
  BY DEF LoopInv
<1>2. PICK b \in Pool!Buffers \cup {Pool!nullptr} :
        /\ Pool!Acquire("client", b)
        /\ buffer' = b
        /\ metrics' = RecordBufferAcquire(
                        AddBytes(RecordChunkSize(metrics, cmd.size), cmd.size),
                        b # Pool!nullptr)
  BY DEF AcquireBuffer
<1>3. /\ pc = "acquire"
      /\ active_buffers_' = IF b # Pool!nullptr THEN active_buffers_ + 1
                                                ELSE active_buffers_
      /\ max_active_buffers_' = IF active_buffers_' > max_active_buffers_
                                  THEN active_buffers_' ELSE max_active_buffers_
      /\ pc' = IF b # Pool!nullptr THEN "release" ELSE "sink"
      /\ UNCHANGED <<streaming, cmd, session_start_us, lap, taken, others, first>>
  BY <1>2 DEF AcquireBuffer, Call, historyVars
<1>4. timer_mode' = timer_mode /\ start' = start /\ ticks' \in Nat /\ start' <= ticks'
  BY <1>1, Elapse DEF AcquireBuffer
<1>5. /\ Pool!BuffersConserved'
      /\ free_buffers_' \in Seq(Pool!Buffers)
      /\ held' \in [{"client"} -> SUBSET Pool!Buffers]
  BY <1>1, <1>2, PoolStep DEF BufferInv
<1>6. metrics \in MetricsType /\ cmd.size \in Nat /\ (b # Pool!nullptr) \in BOOLEAN
  BY <1>1, SizesTyped DEF TypeOK
<1>7. /\ metrics' \in MetricsType /\ metrics'.timings = metrics.timings
      /\ metrics'.releases = metrics.releases
      /\ metrics'.acquires = metrics.acquires + 1
      /\ metrics'.hits = IF b # Pool!nullptr THEN metrics.hits + 1 ELSE metrics.hits
      /\ metrics'.misses = IF b # Pool!nullptr THEN metrics.misses
                                               ELSE metrics.misses + 1
  <2> DEFINE ok == b # Pool!nullptr
             r == metrics'
  <2>1. r = RecordBufferAcquire(
              AddBytes(RecordChunkSize(metrics, cmd.size), cmd.size), ok)
    BY <1>2
  <2>2. ok \in BOOLEAN
    BY <1>6
  <2> HIDE DEF ok, r
  <2>3. /\ r \in MetricsType /\ r.timings = metrics.timings
        /\ r.releases = metrics.releases
        /\ r.acquires = metrics.acquires + 1
        /\ r.hits = IF ok THEN metrics.hits + 1 ELSE metrics.hits
        /\ r.misses = IF ok THEN metrics.misses ELSE metrics.misses + 1
    BY <1>6, <2>1, <2>2, Counting
  <2> QED
    BY <2>3 DEF ok, r
<1>8. /\ active_buffers_ = 0 /\ max_active_buffers_ \in Nat
      /\ max_active_buffers_ <= 1 /\ held["client"] = {}
      /\ metrics.acquires = metrics.hits + metrics.misses
      /\ metrics.hits = metrics.releases
      /\ metrics.misses > 0 => BUFFER_POOL_SIZE = 0
      /\ metrics.hits \in Nat /\ metrics.misses \in Nat
      /\ metrics.releases \in Nat /\ metrics.acquires \in Nat
  BY <1>1, <1>3 DEF TypeOK, BufferInv, MetricsType
<1>9. CASE b = Pool!nullptr
  <2>1. Pool!AcquireEmpty("client", b)
    <3>1. free_buffers_ \in Seq(Pool!Buffers)
      BY <1>1 DEF TypeOK
    <3>2. free_buffers_ # <<>> => Head(free_buffers_) \in Pool!Buffers
      BY <3>1
    <3>3. b \notin Pool!Buffers
      BY <1>9 DEF Pool!Buffers, Pool!nullptr
    <3>4. ~Pool!AcquireFront("client", b)
      BY <3>2, <3>3 DEF Pool!AcquireFront
    <3> QED
      BY <1>2, <3>4 DEF Pool!Acquire
  <2>2. free_buffers_ = <<>> /\ held' = held
    BY <2>1 DEF Pool!AcquireEmpty, Pool!poolVars
  <2>3. BUFFER_POOL_SIZE = 0
    <3>1. Pool!Free = {} /\ UNION {held[c] : c \in {"client"}} = {}
      <4>1. Len(free_buffers_) = 0 /\ 1 .. 0 = {}
        BY <2>2
      <4>2. Pool!Free = {}
        BY <4>1 DEF Pool!Free
      <4>3. \A c \in {"client"} : held[c] = {}
        BY <1>8
      <4> QED
        BY <4>2, <4>3
    <3>2. Pool!Buffers = {}
      BY <1>1, <3>1 DEF BufferInv, Pool!BuffersConserved
    <3>3. 1 \notin 1 .. BUFFER_POOL_SIZE
      BY <3>2 DEF Pool!Buffers
    <3> QED
      BY <3>3, MeteredAssumption
  <2>4. BufferInv'
    BY <1>3, <1>5, <1>7, <1>8, <1>9, <2>2, <2>3 DEF BufferInv
  <2> QED
    BY <1>1, <1>2, <1>3, <1>4, <1>5, <1>7, <1>8, <1>9, <2>4
       DEF TypeOK, LoopInv, Pool!Buffers, Pool!nullptr
<1>10. CASE b # Pool!nullptr
  <2>1. Pool!AcquireFront("client", b)
    BY <1>2, <1>10 DEF Pool!Acquire, Pool!AcquireEmpty
  <2>2. held'["client"] = {b}
    BY <1>1, <1>8, <2>1 DEF Pool!AcquireFront, TypeOK
  <2>3. /\ pc' = "release" /\ held'["client"] = {buffer'}
        /\ active_buffers_' = 1 /\ max_active_buffers_' <= 1
    BY <1>2, <1>3, <1>8, <1>10, <2>2
  <2>4. /\ metrics'.misses > 0 => BUFFER_POOL_SIZE = 0
        /\ metrics'.acquires = metrics'.hits + metrics'.misses
        /\ metrics'.hits = metrics'.releases + 1
    BY <1>7, <1>8, <1>10
  <2>5. BufferInv'
    BY <1>5, <2>3, <2>4 DEF BufferInv
  <2> QED
    BY <1>1, <1>2, <1>3, <1>4, <1>5, <1>7, <1>8, <1>10, <2>5
       DEF TypeOK, LoopInv, Pool!Buffers, Pool!nullptr
<1> QED
  BY <1>9, <1>10, <1>7

(* Giving it back keeps it. *)
LEMMA ReleaseStep ==
  ASSUME LoopInv, ReleaseBuffer
  PROVE  LoopInv' /\ metrics'.timings = metrics.timings
<1>1. TypeOK /\ BufferInv
  BY DEF LoopInv
<1>2. /\ pc = "release" /\ pc' = "sink"
      /\ Pool!Release("client", buffer)
      /\ buffer' = Pool!nullptr
      /\ active_buffers_' = active_buffers_ - 1
      /\ metrics' = RecordBufferRelease(metrics)
      /\ UNCHANGED <<streaming, cmd, session_start_us, lap, max_active_buffers_,
                     taken, others, first>>
  BY DEF ReleaseBuffer, Call, historyVars
<1>3. timer_mode' = timer_mode /\ start' = start /\ ticks' \in Nat /\ start' <= ticks'
  BY <1>1, Elapse DEF ReleaseBuffer
<1>4. /\ Pool!BuffersConserved'
      /\ free_buffers_' \in Seq(Pool!Buffers)
      /\ held' \in [{"client"} -> SUBSET Pool!Buffers]
  BY <1>1, <1>2, PoolStep DEF BufferInv
<1>5. metrics \in MetricsType
  BY <1>1 DEF TypeOK
<1>6. /\ metrics' \in MetricsType /\ metrics'.timings = metrics.timings
      /\ metrics'.releases = metrics.releases + 1
      /\ metrics'.acquires = metrics.acquires
      /\ metrics'.hits = metrics.hits /\ metrics'.misses = metrics.misses
  BY <1>2, <1>5, Releasing
<1>7. /\ active_buffers_ = 1 /\ max_active_buffers_ \in Nat
      /\ max_active_buffers_ <= 1 /\ held["client"] = {buffer}
      /\ metrics.acquires = metrics.hits + metrics.misses
      /\ metrics.hits = metrics.releases + 1
      /\ metrics.misses > 0 => BUFFER_POOL_SIZE = 0
      /\ metrics.releases \in Nat
  BY <1>1, <1>2 DEF TypeOK, BufferInv, MetricsType
<1>8. held'["client"] = {}
  BY <1>1, <1>2, <1>7 DEF Pool!Release, TypeOK
<1>9. BufferInv'
  BY <1>2, <1>4, <1>6, <1>7, <1>8 DEF BufferInv
<1> QED
  BY <1>1, <1>2, <1>3, <1>4, <1>6, <1>7, <1>9
     DEF TypeOK, LoopInv, Pool!Buffers, Pool!nullptr

(* Completing a command keeps it. *)
LEMMA CompleteStep ==
  ASSUME LoopInv, NEW d \in Nat, NEW size \in Nat, CompleteCommand(d, size)
  PROVE  LoopInv' /\ metrics'.timings = Append(metrics.timings, Timing(size, Took))
<1>1. TypeOK /\ BufferInv
  BY DEF LoopInv
<1>2. /\ Call("complete", d) /\ pc = "complete" /\ pc' = "get"
      /\ metrics' = RecordChunkTiming(metrics, Timing(size, Took))
      /\ cmd' = NoCommand
      /\ UNCHANGED <<streaming, session_start_us, lap, poolVars, historyVars>>
  BY DEF CompleteCommand, Call
<1>3. /\ timer_mode' = timer_mode /\ start' = start
      /\ ticks' \in Nat /\ start' <= ticks' /\ Took \in Nat
  BY <1>1, <1>2, Elapse
<1>4. metrics \in MetricsType /\ Timing(size, Took) \in TimingType
  BY <1>1, <1>3, TimingTyped DEF TypeOK
<1>5. /\ metrics' \in MetricsType
      /\ metrics'.timings = Append(metrics.timings, Timing(size, Took))
      /\ metrics'.releases = metrics.releases
      /\ metrics'.acquires = metrics.acquires
      /\ metrics'.hits = metrics.hits /\ metrics'.misses = metrics.misses
  BY <1>2, <1>4, Recording
<1>6. BufferInv'
  BY <1>1, <1>2, <1>5, BufferKept
<1> QED
  BY <1>1, <1>2, <1>3, <1>5, <1>6
     DEF TypeOK, LoopInv, poolVars, historyVars, Pool!Buffers, Pool!nullptr

(* Every step is one of these. *)
LEMMA StepLoop ==
  ASSUME LoopInv, Next
  PROVE  /\ LoopInv'
         /\ Now \in Nat /\ Now' \in Nat /\ (WithinHorizon' => Now <= Now')
<1>1. PICK d \in Delays :
        \/ ProcessCommands(d) \/ GetNothing(d) \/ GetEnds(d)
        \/ \E c \in Commands : GetCommand(c, d)
        \/ DispatchClose(d) \/ Dispatch(d)
        \/ AcquireBuffer(d) \/ ReleaseBuffer
        \/ SinkWrite(d) \/ SinkFails(d)
        \/ \E size \in {cmd.size} \cup ReusedSizes : CompleteCommand(d, size)
        \/ CompleteFails(d)
        \/ Report(d)
  BY DEF Next
<1>2. d \in Nat /\ {cmd.size} \cup ReusedSizes \subseteq Nat
  BY MeteredAssumption, SizesTyped DEF LoopInv
<1>3. LoopInv'
  BY <1>1, <1>2, LoopStep, AcquireStep, ReleaseStep, CompleteStep
<1>4. \/ Call("idle", d) \/ Call("get", d) \/ Call("dispatch", d)
      \/ Call("acquire", d) \/ Call("release", 0) \/ Call("sink", d)
      \/ Call("complete", d) \/ Call("report", d)
  BY <1>1 DEF ProcessCommands, GetNothing, GetEnds, GetCommand,
     DispatchClose, Dispatch, AcquireBuffer, ReleaseBuffer, SinkWrite, SinkFails,
     CompleteCommand, CompleteFails, Report
<1>5. Now \in Nat /\ Now' \in Nat /\ (WithinHorizon' => Now <= Now')
  BY <1>2, <1>4, Elapse DEF LoopInv
<1> QED
  BY <1>3, <1>5

(* So does a step that changes nothing. *)
LEMMA LoopStutter == LoopInv /\ UNCHANGED vars => LoopInv'
<1> SUFFICES ASSUME LoopInv, UNCHANGED vars PROVE LoopInv'
  OBVIOUS
<1>1. TypeOK'
  BY DEF LoopInv, TypeOK, vars, clockVars, poolVars, historyVars, Pool!Buffers,
     Pool!nullptr
<1>2. Pool!BuffersConserved'
  BY DEF LoopInv, BufferInv, vars, poolVars, Pool!BuffersConserved, Pool!Free,
     Pool!Buffers
<1>3. BufferInv'
  BY <1>2 DEF LoopInv, BufferInv, vars, poolVars
<1> QED
  BY <1>1, <1>3 DEF LoopInv

(* The values of the loop keep their ranges: no reading, duration or counter  *)
(* is ever negative or undefined, whatever overflows.                        *)
THEOREM LoopTypes == Spec => []TypeOK
<1>1. LoopInv /\ [Next]_vars => LoopInv'
  BY StepLoop, LoopStutter
<1>2. LoopInv => TypeOK
  BY DEF LoopInv
<1> QED
  BY <1>1, <1>2, LoopInit, PTL DEF Spec

(* The simulated use of the pool takes one buffer at a time and gives it back *)
(* before the sink is called, so that a pool with a buffer never runs dry.   *)
THEOREM PoolStaysWet == Spec => []PoolNeverDry
<1>1. LoopInv /\ [Next]_vars => LoopInv'
  BY StepLoop, LoopStutter
<1>2. LoopInv => PoolNeverDry
  BY DEF LoopInv, BufferInv, PoolNeverDry
<1> QED
  BY <1>1, <1>2, LoopInit, PTL DEF Spec

(* The clock that process_commands() reads does not run backwards before its  *)
(* counter overflows, whichever timer was constructed.                       *)
THEOREM ClockIsMonotone == Spec => ClockMonotone
<1>1. LoopInv /\ [Next]_vars => LoopInv'
  BY StepLoop, LoopStutter
<1>2. LoopInv /\ [Next]_vars => [WithinHorizon' => Now' >= Now]_vars
  <2> SUFFICES ASSUME LoopInv, Next, WithinHorizon' PROVE Now' >= Now
    OBVIOUS
  <2>1. Now \in Nat /\ Now' \in Nat /\ Now <= Now'
    BY StepLoop
  <2> QED
    BY <2>1
<1> QED
  BY <1>1, <1>2, LoopInit, PTL DEF Spec, ClockMonotone

-----------------------------------------------------------------------------
(* The ChunkTiming records. *)

(* Is there a chunk under way whose stages are being measured? *)
InLap == pc \in {"dispatch", "acquire", "release", "sink", "complete"}

LapEnd == lap.gc_start + lap.gc_us + lap.dispatch_us + lap.sink_us

(* No chunk recorded ends later than this. *)
Bound == IF InLap THEN lap.gc_start ELSE Now

End(t) == t.timestamp_us + t.total_us

(* The record at i fits what is before and after it. *)
Fits(from, timings, i, bound) ==
  /\ timings[i].total_us = timings[i].getcommand_us + timings[i].dispatch_us
                             + timings[i].sink_us + timings[i].complete_us
  /\ from + End(timings[i]) <= bound
  /\ i < Len(timings) => End(timings[i]) <= timings[i + 1].timestamp_us

RecordsFit ==
  \A i \in first .. Len(metrics.timings) :
    Fits(session_start_us, metrics.timings, i, Bound)

(* The invariant: the session began before its chunks, and the stages of the  *)
(* chunk under way fit between its first reading and now.                    *)
FitInv ==
  WithinHorizon /\ pc # "idle" =>
    /\ session_start_us <= Now
    /\ InLap => session_start_us <= lap.gc_start /\ LapEnd <= Now
    /\ RecordsFit

(* A record of the session and its end, by type. *)
LEMMA TimingAt ==
  ASSUME LoopInv, NEW i \in first .. Len(metrics.timings)
  PROVE  /\ i \in 1 .. Len(metrics.timings)
         /\ metrics.timings[i] \in TimingType
         /\ End(metrics.timings[i]) \in Nat
<1>1. first \in Nat \ {0} /\ metrics.timings \in Seq(TimingType)
  BY DEF LoopInv, TypeOK, MetricsType
<1>2. i \in 1 .. Len(metrics.timings)
  BY <1>1
<1>3. metrics.timings[i] \in TimingType
  BY <1>1, <1>2
<1> QED
  BY <1>2, <1>3 DEF TimingType, End

(* FitInv is strong enough. *)
LEMMA FitSuffices == LoopInv /\ FitInv /\ Now \in Nat => TimingsFit
<1> SUFFICES ASSUME LoopInv, FitInv, Now \in Nat, WithinHorizon, pc # "idle",
                    NEW i \in first .. Len(metrics.timings)
             PROVE  LET t == metrics.timings[i]
                        end == t.timestamp_us + t.total_us
                    IN /\ t.total_us = t.getcommand_us + t.dispatch_us
                                         + t.sink_us + t.complete_us
                       /\ session_start_us + end <= Now
                       /\ i < Len(metrics.timings) =>
                            end <= metrics.timings[i + 1].timestamp_us
  BY DEF TimingsFit
<1>1. /\ lap.gc_start \in Nat /\ lap.gc_us \in Nat
      /\ lap.dispatch_us \in Nat /\ lap.sink_us \in Nat
  BY DEF LoopInv, TypeOK
<1>2. Bound \in Nat /\ Bound <= Now
  BY <1>1 DEF FitInv, Bound, LapEnd
<1>3. Fits(session_start_us, metrics.timings, i, Bound)
  BY DEF FitInv, RecordsFit
<1>4. session_start_us + End(metrics.timings[i]) \in Nat
  <2>1. session_start_us \in Nat /\ End(metrics.timings[i]) \in Nat
    BY TimingAt DEF LoopInv, TypeOK
  <2> QED
    BY <2>1
<1> QED
  BY <1>2, <1>3, <1>4 DEF Fits, End

(* A step that records no chunk keeps the records, if the bound does not drop. *)
LEMMA RecordsKept ==
  ASSUME LoopInv, FitInv, WithinHorizon, pc # "idle",
         UNCHANGED <<session_start_us, first>>,
         metrics'.timings = metrics.timings,
         Bound \in Nat, Bound' \in Nat, Bound <= Bound'
  PROVE  RecordsFit'
<1> SUFFICES ASSUME NEW i \in first .. Len(metrics.timings)
             PROVE  Fits(session_start_us, metrics.timings, i, Bound)'
  BY DEF RecordsFit
<1>1. Fits(session_start_us, metrics.timings, i, Bound)
  BY DEF FitInv, RecordsFit
<1>2. session_start_us + End(metrics.timings[i]) \in Nat
  BY TimingAt DEF LoopInv, TypeOK
<1> QED
  BY <1>1, <1>2 DEF Fits, End

(* The step that starts the loop has no record to fit yet. *)
LEMMA FitStart ==
  ASSUME LoopInv, NEW d \in Nat, ProcessCommands(d)
  PROVE  FitInv'
<1>1. /\ pc' = "get" /\ session_start_us' = Now'
      /\ first' = Len(metrics.timings) + 1 /\ metrics' = metrics
  BY DEF ProcessCommands
<1>2. Now' \in Nat
  BY Elapse DEF ProcessCommands, LoopInv
<1>3. first' .. Len(metrics'.timings) = {}
  <2>1. Len(metrics.timings) \in Nat
    BY DEF LoopInv, TypeOK, MetricsType
  <2> QED
    BY <1>1, <2>1
<1> QED
  BY <1>1, <1>2, <1>3 DEF FitInv, RecordsFit, InLap

(* A lap is a natural number. *)
LEMMA LapTyped ==
  LoopInv => /\ lap.gc_start \in Nat /\ lap.gc_us \in Nat
             /\ lap.dispatch_us \in Nat /\ lap.sink_us \in Nat
             /\ session_start_us \in Nat
  BY DEF LoopInv, TypeOK

(* GetCommand starts a lap at its first reading. *)
LEMMA FitGet ==
  ASSUME LoopInv, FitInv, NEW d \in Nat, NEW c, GetCommand(c, d)
  PROVE  FitInv'
<1> SUFFICES ASSUME WithinHorizon' PROVE FitInv'
  BY DEF FitInv
<1>1. /\ WithinHorizon /\ Now \in Nat /\ Now' \in Nat /\ Now <= Now'
      /\ Took = Now' - Now /\ Took \in Nat
  BY Elapse DEF GetCommand, LoopInv
<1>2. /\ pc = "get" /\ pc' = "dispatch"
      /\ lap' = [NoLap EXCEPT !.gc_start = Now, !.gc_us = Took]
      /\ UNCHANGED <<session_start_us, first, metrics>>
  BY DEF GetCommand, Call
<1>3. /\ lap'.gc_start = Now /\ lap'.gc_us = Took
      /\ lap'.dispatch_us = 0 /\ lap'.sink_us = 0
  BY <1>2 DEF NoLap
<1>4. InLap' /\ Bound = Now /\ Bound' = Now /\ LapEnd' = Now + Took
  BY <1>1, <1>2, <1>3 DEF InLap, Bound, LapEnd
<1>5. RecordsFit'
  BY <1>1, <1>2, <1>4, RecordsKept
<1>6. session_start_us <= Now
  BY <1>1, <1>2 DEF FitInv
<1>7. session_start_us' <= Now' /\ session_start_us' <= lap'.gc_start /\ LapEnd' <= Now'
  BY <1>1, <1>2, <1>3, <1>4, <1>6, LapTyped
<1> QED
  BY <1>5, <1>7 DEF FitInv

(* Within a lap a stage that is measured takes the place of a shorter one. *)
LEMMA FitStage ==
  ASSUME LoopInv, FitInv, NEW d \in Nat, NEW at, Call(at, d), InLap, InLap',
         \/ UNCHANGED lap
         \/ lap' = [lap EXCEPT !.dispatch_us = Took]
         \/ lap' = [lap EXCEPT !.sink_us = Took],
         UNCHANGED <<session_start_us, first>>,
         metrics'.timings = metrics.timings
  PROVE  FitInv'
<1> SUFFICES ASSUME WithinHorizon' PROVE FitInv'
  BY DEF FitInv
<1>1. /\ WithinHorizon /\ Now \in Nat /\ Now' \in Nat /\ Now <= Now'
      /\ Took = Now' - Now /\ Took \in Nat
  BY Elapse DEF LoopInv
<1>2. /\ lap \in [gc_start : Nat, gc_us : Nat, dispatch_us : Nat, sink_us : Nat]
      /\ pc # "idle"
  BY DEF LoopInv, TypeOK, InLap
<1>3. /\ session_start_us <= Now /\ session_start_us <= lap.gc_start
      /\ LapEnd <= Now
  BY <1>1, <1>2 DEF FitInv
<1>4. /\ lap'.gc_start = lap.gc_start /\ lap'.gc_us = lap.gc_us
      /\ \/ lap'.dispatch_us = lap.dispatch_us /\ lap'.sink_us = lap.sink_us
         \/ lap'.dispatch_us = Took /\ lap'.sink_us = lap.sink_us
         \/ lap'.dispatch_us = lap.dispatch_us /\ lap'.sink_us = Took
  BY <1>2
<1>5. LapEnd' <= Now'
  BY <1>1, <1>3, <1>4, LapTyped DEF LapEnd
<1>6. Bound \in Nat /\ Bound' = Bound
  BY <1>4, LapTyped DEF Bound
<1>7. RecordsFit'
  BY <1>1, <1>2, <1>6, RecordsKept
<1>8. session_start_us' <= Now' /\ session_start_us' <= lap'.gc_start
  BY <1>1, <1>3, <1>4, LapTyped
<1> QED
  BY <1>5, <1>7, <1>8 DEF FitInv

(* A step after which no chunk is under way, and none was recorded. *)
LEMMA FitOut ==
  ASSUME LoopInv, FitInv, NEW d \in Nat, NEW at, Call(at, d),
         pc # "idle", ~InLap', UNCHANGED <<session_start_us, first>>,
         metrics'.timings = metrics.timings
  PROVE  FitInv'
<1> SUFFICES ASSUME WithinHorizon' PROVE FitInv'
  BY DEF FitInv
<1>1. WithinHorizon /\ Now \in Nat /\ Now' \in Nat /\ Now <= Now'
  BY Elapse DEF LoopInv
<1>2. session_start_us <= Now /\ Bound \in Nat /\ Bound <= Now
  BY <1>1, LapTyped DEF FitInv, Bound, LapEnd
<1>3. Bound' = Now'
  BY DEF Bound
<1>4. RecordsFit'
  <2>1. Bound' \in Nat /\ Bound <= Bound'
    BY <1>1, <1>2, <1>3
  <2> QED
    BY <1>1, <1>2, <2>1, RecordsKept
<1>5. session_start_us' <= Now'
  BY <1>1, <1>2, LapTyped
<1> QED
  BY <1>4, <1>5 DEF FitInv

(* CompleteCommand records the lap: it begins after the records there are and *)
(* ends now.                                                                 *)
LEMMA FitComplete ==
  ASSUME LoopInv, FitInv, NEW d \in Nat, NEW size \in Nat, CompleteCommand(d, size)
  PROVE  FitInv'
<1> SUFFICES ASSUME WithinHorizon' PROVE FitInv'
  BY DEF FitInv
<1> DEFINE old == metrics.timings
           new == metrics'.timings
           n == Len(old)
           t == Timing(size, Took)
<1>1. /\ WithinHorizon /\ Now \in Nat /\ Now' \in Nat /\ Now <= Now'
      /\ Now' < UINT64 /\ Took = Now' - Now /\ Took \in Nat
  BY Elapse DEF LoopInv, CompleteCommand
<1>2. /\ pc = "complete" /\ pc' = "get"
      /\ UNCHANGED <<session_start_us, first, lap>>
  BY DEF CompleteCommand, Call, historyVars
<1>3. new = Append(old, t)
  BY CompleteStep
<1>4. /\ session_start_us <= Now /\ session_start_us <= lap.gc_start
      /\ LapEnd <= Now /\ Bound = lap.gc_start
  BY <1>1, <1>2 DEF FitInv, InLap, Bound
<1>5. lap.gc_start < UINT64
  <2>1. UINT64 \in Nat
    BY MetricsAssumption
  <2> QED
    BY <1>1, <1>4, <2>1, LapTyped DEF LapEnd
<1>6. Since(session_start_us, lap.gc_start) = lap.gc_start - session_start_us
  BY <1>4, <1>5, LapTyped, Difference
<1>7. /\ t.timestamp_us = lap.gc_start - session_start_us
      /\ t.total_us = lap.gc_us + lap.dispatch_us + lap.sink_us + Took
      /\ t.total_us = t.getcommand_us + t.dispatch_us + t.sink_us + t.complete_us
  BY <1>6 DEF Timing
<1>8. session_start_us + End(t) = LapEnd + Took
  BY <1>1, <1>7, LapTyped DEF End, LapEnd
<1>9. t \in TimingType
  BY <1>1, TimingTyped DEF LoopInv
<1>10. old \in Seq(TimingType) /\ n \in Nat /\ first \in Nat \ {0}
  BY DEF LoopInv, TypeOK, MetricsType
<1> HIDE DEF t, old, new
<1>11. /\ Len(new) = n + 1 /\ new[n + 1] = t
       /\ \A i \in 1 .. n : new[i] = old[i]
  BY <1>3, <1>9, <1>10
<1> HIDE DEF n
<1>12. ASSUME NEW i \in first .. n
       PROVE  Fits(session_start_us, new, i, Now')
  <2>1. i \in 1 .. n /\ End(old[i]) \in Nat
    BY TimingAt DEF old, n
  <2>2. Fits(session_start_us, old, i, lap.gc_start)
    BY <1>1, <1>2, <1>4 DEF FitInv, RecordsFit, old, n
  <2>3. new[i] = old[i]
    BY <1>11, <2>1
  <2>4. lap.gc_start <= Now'
    BY <1>1, <1>4, LapTyped DEF LapEnd
  <2>5. End(old[i]) <= lap.gc_start - session_start_us
    BY <2>1, <2>2, LapTyped DEF Fits
  <2>6. i < n => new[i + 1] = old[i + 1]
    BY <1>11, <2>1, <1>10
  <2>7. i < Len(new) => End(new[i]) <= new[i + 1].timestamp_us
    <3>1. CASE i < n
      BY <2>2, <2>3, <2>6, <3>1 DEF Fits, n
    <3>2. CASE i = n
      BY <1>7, <1>11, <2>3, <2>5, <3>2
    <3> QED
      BY <1>10, <2>1, <3>1, <3>2
  <2>8. session_start_us + End(new[i]) <= Now'
    BY <1>1, <2>1, <2>3, <2>4, <2>5, LapTyped
  <2> QED
    BY <2>2, <2>3, <2>7, <2>8 DEF Fits
<1>13. Fits(session_start_us, new, n + 1, Now')
  <2>1. session_start_us + End(t) <= Now'
    BY <1>1, <1>4, <1>8, LapTyped DEF LapEnd
  <2>2. ~(n + 1 < Len(new))
    BY <1>10, <1>11
  <2> QED
    BY <1>7, <1>11, <2>1, <2>2 DEF Fits
<1>14. \A i \in first' .. Len(new) : Fits(session_start_us, new, i, Now')
  <2>1. \A i \in first .. n + 1 : i \in first .. n \/ i = n + 1
    BY <1>10
  <2> QED
    BY <1>2, <1>11, <1>12, <1>13, <2>1
<1>15. Bound' = Now' /\ ~InLap' /\ session_start_us' <= Now'
  BY <1>1, <1>2, <1>4, LapTyped DEF Bound, InLap
<1> QED
  BY <1>2, <1>14, <1>15 DEF FitInv, RecordsFit, new

(* The invariant holds at first, and each step keeps it. *)
LEMMA FitStep ==
  ASSUME LoopInv, FitInv, Next
  PROVE  FitInv'
<1>1. PICK d \in Delays :
        \/ ProcessCommands(d) \/ GetNothing(d) \/ GetEnds(d)
        \/ \E c \in Commands : GetCommand(c, d)
        \/ DispatchClose(d) \/ Dispatch(d)
        \/ AcquireBuffer(d) \/ ReleaseBuffer
        \/ SinkWrite(d) \/ SinkFails(d)
        \/ \E size \in {cmd.size} \cup ReusedSizes : CompleteCommand(d, size)
        \/ CompleteFails(d)
        \/ Report(d)
  BY DEF Next
<1>2. d \in Nat /\ {cmd.size} \cup ReusedSizes \subseteq Nat
  BY MeteredAssumption, SizesTyped DEF LoopInv
<1>3. CASE ProcessCommands(d)
  BY <1>2, <1>3, FitStart
<1>4. CASE GetNothing(d)
  <2>1. Call("get", d) /\ pc = "get" /\ UNCHANGED <<pc, session_start_us, first, metrics>>
    BY <1>4 DEF GetNothing, Call, historyVars
  <2> QED
    BY <1>2, <2>1, FitOut DEF InLap
<1>5. CASE GetEnds(d) \/ DispatchClose(d) \/ SinkFails(d) \/ CompleteFails(d)
  <2>1. /\ pc' = "report" /\ pc # "idle"
        /\ UNCHANGED <<session_start_us, first, metrics>>
    BY <1>5 DEF GetEnds, DispatchClose, SinkFails, CompleteFails, Leave, Call,
       historyVars
  <2>2. Call("get", d) \/ Call("dispatch", d) \/ Call("sink", d) \/ Call("complete", d)
    BY <1>5 DEF GetEnds, DispatchClose, SinkFails, CompleteFails
  <2>3. ~InLap'
    BY <2>1 DEF InLap
  <2> QED
    BY <1>2, <2>1, <2>2, <2>3, FitOut
<1>6. CASE \E c \in Commands : GetCommand(c, d)
  BY <1>2, <1>6, FitGet
<1>7. CASE Dispatch(d)
  <2>1. /\ Call("dispatch", d) /\ InLap /\ InLap'
        /\ lap' = [lap EXCEPT !.dispatch_us = Took]
        /\ UNCHANGED <<session_start_us, first, metrics>>
    BY <1>7 DEF Dispatch, Call, InLap, historyVars
  <2> QED
    BY <1>2, <2>1, FitStage
<1>8. CASE AcquireBuffer(d)
  <2>1. /\ Call("acquire", d) /\ InLap /\ InLap'
        /\ UNCHANGED <<lap, session_start_us, first>>
    BY <1>8 DEF AcquireBuffer, Call, InLap, historyVars
  <2>2. metrics'.timings = metrics.timings
    BY <1>2, <1>8, AcquireStep
  <2> QED
    BY <1>2, <2>1, <2>2, FitStage
<1>9. CASE ReleaseBuffer
  <2>1. /\ Call("release", 0) /\ InLap /\ InLap'
        /\ UNCHANGED <<lap, session_start_us, first>>
    BY <1>9 DEF ReleaseBuffer, Call, InLap, historyVars
  <2>2. metrics'.timings = metrics.timings
    BY <1>9, ReleaseStep
  <2> QED
    BY <2>1, <2>2, FitStage
<1>10. CASE SinkWrite(d)
  <2>1. /\ Call("sink", d) /\ InLap /\ InLap'
        /\ lap' = [lap EXCEPT !.sink_us = Took]
        /\ UNCHANGED <<session_start_us, first, metrics>>
    BY <1>10 DEF SinkWrite, Call, InLap, historyVars
  <2> QED
    BY <1>2, <2>1, FitStage
<1>11. CASE \E size \in {cmd.size} \cup ReusedSizes : CompleteCommand(d, size)
  BY <1>2, <1>11, FitComplete
<1>12. CASE Report(d)
  BY <1>12 DEF Report, FitInv
<1> QED
  BY <1>1, <1>3, <1>4, <1>5, <1>6, <1>7, <1>8, <1>9, <1>10, <1>11, <1>12

(* As long as the clock has not overflowed, the stages recorded for the chunks *)
(* of a session are disjoint pieces of its time, in order, whatever the calls *)
(* take and SQL Server answers.                                              *)
THEOREM TimingsAreDisjoint == Spec => []TimingsFit
<1> DEFINE Inv == LoopInv /\ FitInv
<1>1. Init => Inv
  BY LoopInit DEF Init, FitInv
<1>2. Inv /\ [Next]_vars => Inv'
  <2> SUFFICES ASSUME Inv, [Next]_vars PROVE Inv'
    OBVIOUS
  <2>1. CASE UNCHANGED vars
    <3>1. FitInv'
      BY <2>1 DEF FitInv, RecordsFit, WithinHorizon, Now, Bound, InLap, LapEnd, Fits, vars,
         clockVars, historyVars
    <3> QED
      BY <2>1, <3>1, LoopStutter
  <2> QED
    BY <2>1, StepLoop, FitStep
<1>3. Inv => TimingsFit
  <2> SUFFICES ASSUME Inv PROVE TimingsFit
    OBVIOUS
  <2>1. Now \in Nat
    BY Reading DEF LoopInv, TypeOK, Now, Modes
  <2> QED
    BY <2>1, FitSuffices
<1> QED
  BY <1>1, <1>2, <1>3, PTL DEF Spec

-----------------------------------------------------------------------------
(* Percentiles: a value's place among the others, and the sorted values. *)

(* Does position j come before position i once the values are sorted? *)
Before(s, j, i) == s[j] < s[i] \/ (s[j] = s[i] /\ j <= i)

(* A place counts the positions that come before. *)
LEMMA PlaceIs ==
  ASSUME NEW s, NEW i
  PROVE  Place(s, i) = Cardinality({j \in DOMAIN s : Before(s, j, i)})
  BY DEF Place, Before

(* The places are the positions, each taken once, in the order of the values. *)
LEMMA Places ==
  ASSUME NEW s \in Seq(Nat)
  PROVE  /\ \A i \in 1 .. Len(s) : Place(s, i) \in 1 .. Len(s)
         /\ \A i, j \in 1 .. Len(s) :
              Before(s, i, j) /\ i # j => Place(s, i) < Place(s, j)
         /\ \A i, j \in 1 .. Len(s) : Place(s, i) = Place(s, j) => i = j
         /\ \A k \in 1 .. Len(s) : \E i \in 1 .. Len(s) : Place(s, i) = k
<1> DEFINE n == Len(s)
           D == 1 .. n
           B(i) == {j \in D : Before(s, j, i)}
<1>1. n \in Nat /\ \A i \in D : s[i] \in Nat
  OBVIOUS
<1>2. IsFiniteSet(D) /\ Cardinality(D) = n
  BY <1>1, FS_Interval
<1>3. \A i : Place(s, i) = Cardinality(B(i))
  BY PlaceIs
<1>4. \A i \in D : i \in B(i) /\ B(i) \in SUBSET D
  BY <1>1 DEF Before
<1> HIDE DEF B, n, D
<1>5. \A i \in D : /\ IsFiniteSet(B(i)) /\ Cardinality(B(i)) \in Nat
                   /\ Cardinality(B(i)) <= n /\ Cardinality(B(i)) # 0
  <2> TAKE i \in D
  <2>1. IsFiniteSet(B(i)) /\ Cardinality(B(i)) <= n
    BY <1>2, <1>4, FS_Subset
  <2>2. Cardinality(B(i)) \in Nat
    BY <2>1, FS_CardinalityType
  <2>3. B(i) # {}
    BY <1>4
  <2> QED
    BY <2>1, <2>2, <2>3, FS_EmptySet
<1>6. \A i \in D : Place(s, i) \in D
  BY <1>1, <1>3, <1>5 DEF D
<1>7. ASSUME NEW i \in D, NEW j \in D, Before(s, i, j), i # j
      PROVE  Place(s, i) < Place(s, j)
  <2>1. B(i) \subseteq B(j)
    BY <1>1, <1>7 DEF B, Before, D
  <2>2. j \notin B(i)
    BY <1>1, <1>7 DEF B, Before, D
  <2>3. B(i) \in SUBSET B(j) /\ B(i) # B(j)
    BY <1>4, <2>1, <2>2
  <2>4. /\ Cardinality(B(i)) <= Cardinality(B(j))
        /\ Cardinality(B(i)) # Cardinality(B(j))
    BY <1>5, <2>3, FS_Subset
  <2> QED
    BY <1>3, <1>5, <2>4
<1>8. ASSUME NEW i \in D, NEW j \in D, Place(s, i) = Place(s, j)
      PROVE  i = j
  <2> SUFFICES ASSUME i # j
               PROVE  FALSE
    OBVIOUS
  <2>1. Before(s, i, j) \/ Before(s, j, i)
    BY <1>1 DEF Before, D
  <2>2. Place(s, i) < Place(s, j) \/ Place(s, j) < Place(s, i)
    BY <1>7, <2>1
  <2>3. Place(s, i) \in Nat
    BY <1>6 DEF D
  <2> QED
    BY <1>8, <2>2, <2>3
<1>9. ASSUME NEW k \in D
      PROVE  \E i \in D : Place(s, i) = k
  <2> DEFINE f == [i \in D |-> Place(s, i)]
  <2>1. f \in Injection(D, D)
    BY <1>6, <1>8 DEF Injection, IsInjective
  <2>2. f \in Surjection(D, D)
    BY <1>2, <2>1, FS_Injection
  <2>3. \E i \in D : f[i] = k
    BY <2>2 DEF Surjection
  <2> QED
    BY <2>3
<1> QED
  BY <1>6, <1>7, <1>8, <1>9 DEF D, n

(* The sorted values are the values, in order, each at its place. *)
LEMMA SortedValues ==
  ASSUME NEW s \in Seq(Nat)
  PROVE  /\ Sorted(s) \in Seq(Nat) /\ Len(Sorted(s)) = Len(s)
         /\ \A i \in 1 .. Len(s) : Sorted(s)[Place(s, i)] = s[i]
         /\ \A k \in 1 .. Len(s) :
              \E i \in 1 .. Len(s) : Place(s, i) = k /\ Sorted(s)[k] = s[i]
         /\ \A k, l \in 1 .. Len(s) : k <= l => Sorted(s)[k] <= Sorted(s)[l]
<1> DEFINE D == 1 .. Len(s)
           ch(k) == CHOOSE i \in D : Place(s, i) = k
           t == Sorted(s)
<1>1. Len(s) \in Nat /\ DOMAIN s = D /\ \A i \in D : s[i] \in Nat
  OBVIOUS
<1>2. t = [k \in D |-> s[ch(k)]]
  BY <1>1 DEF Sorted
<1>3. \A k \in D : ch(k) \in D /\ Place(s, ch(k)) = k
  BY Places
<1> HIDE DEF ch, t
<1>4. t \in Seq(Nat) /\ Len(t) = Len(s)
  BY <1>1, <1>2, <1>3
<1>5. \A k \in D : t[k] = s[ch(k)]
  BY <1>2
<1>6. \A i \in D : Place(s, i) \in D /\ ch(Place(s, i)) = i
  <2> TAKE i \in D
  <2>1. Place(s, i) \in D
    BY Places
  <2>2. ch(Place(s, i)) \in D /\ Place(s, ch(Place(s, i))) = Place(s, i)
    BY <1>3, <2>1
  <2> QED
    BY <2>1, <2>2, Places
<1>7. ASSUME NEW k \in D, NEW l \in D, k <= l
      PROVE  t[k] <= t[l]
  <2> SUFFICES ASSUME ~ (t[k] <= t[l])
               PROVE  FALSE
    OBVIOUS
  <2>1. s[ch(l)] < s[ch(k)]
    BY <1>1, <1>3, <1>5
  <2>2. Before(s, ch(l), ch(k)) /\ ch(l) # ch(k)
    BY <1>1, <1>3, <2>1 DEF Before
  <2>3. Place(s, ch(l)) < Place(s, ch(k))
    BY <1>3, <2>2, Places
  <2>4. l < k
    BY <1>3, <2>3
  <2> QED
    BY <1>7, <2>4
<1> QED
  BY <1>3, <1>4, <1>5, <1>6, <1>7 DEF t

(* How many values do not exceed w, told from the sorted ones. *)
LEMMA CountUpTo ==
  ASSUME NEW s \in Seq(Nat), NEW w \in Nat, NEW r \in 1 .. Len(s)
  PROVE  LET c == Cardinality({i \in DOMAIN s : s[i] <= w})
         IN  /\ c \in Nat
             /\ Sorted(s)[r] <= w => c >= r
             /\ w < Sorted(s)[r] => c <= r - 1
<1> DEFINE D == 1 .. Len(s)
           U == {i \in D : s[i] <= w}
           t == Sorted(s)
<1>1. Len(s) \in Nat /\ DOMAIN s = D /\ \A i \in D : s[i] \in Nat
  OBVIOUS
<1>2. IsFiniteSet(U) /\ Cardinality(U) \in Nat
  <2>1. IsFiniteSet(D) /\ U \in SUBSET D
    BY <1>1, FS_Interval
  <2> HIDE DEF D, U
  <2> QED
    BY <2>1, FS_Subset, FS_CardinalityType
<1>3. /\ \A i \in D : t[Place(s, i)] = s[i]
      /\ \A k \in D : t[k] \in Nat /\ \E i \in D : Place(s, i) = k /\ t[k] = s[i]
      /\ \A k, l \in D : k <= l => t[k] <= t[l]
  <2>1. t \in Seq(Nat) /\ Len(t) = Len(s)
    BY SortedValues
  <2>2. \A k \in D : t[k] \in Nat
    BY <2>1
  <2> HIDE DEF t
  <2> QED
    BY <2>2, SortedValues DEF t
<1>4. /\ \A i \in D : Place(s, i) \in D
      /\ \A i, j \in D : Place(s, i) = Place(s, j) => i = j
  BY Places
<1> HIDE DEF t
<1>5. ASSUME t[r] <= w
      PROVE  Cardinality(U) >= r
  <2> DEFINE ch(k) == CHOOSE i \in D : Place(s, i) = k /\ t[k] = s[i]
             f == [k \in 1 .. r |-> ch(k)]
  <2>1. \A k \in 1 .. r : k \in D /\ t[k] <= t[r]
    <3> TAKE k \in 1 .. r
    <3>1. k \in D /\ r \in D /\ k <= r
      BY <1>1
    <3> QED
      BY <1>3, <3>1
  <2>2. \A k \in 1 .. r : ch(k) \in D /\ Place(s, ch(k)) = k /\ t[k] = s[ch(k)]
    BY <1>3, <2>1
  <2> HIDE DEF ch
  <2>3. \A k \in 1 .. r : ch(k) \in U
    <3> TAKE k \in 1 .. r
    <3>1. /\ k \in D /\ t[k] \in Nat /\ t[r] \in Nat /\ t[k] <= t[r]
          /\ ch(k) \in D /\ s[ch(k)] = t[k]
      BY <1>3, <2>1, <2>2
    <3> QED
      BY <1>5, <3>1
  <2>4. f \in Injection(1 .. r, U)
    BY <2>2, <2>3 DEF Injection, IsInjective
  <2>5. Cardinality(1 .. r) = r
    BY FS_Interval
  <2> QED
    BY <1>2, <2>4, <2>5, FS_Injection
<1>6. ASSUME w < t[r]
      PROVE  Cardinality(U) <= r - 1
  <2> DEFINE f == [i \in U |-> Place(s, i)]
  <2>1. \A i \in U : Place(s, i) \in 1 .. r - 1
    <3> TAKE i \in U
    <3>1. Place(s, i) \in D /\ t[Place(s, i)] <= w
      BY <1>3, <1>4
    <3>2. r <= Place(s, i) => t[r] <= t[Place(s, i)]
      BY <1>3, <3>1
    <3>3. t[r] \in Nat /\ t[Place(s, i)] \in Nat
      BY <1>3, <3>1
    <3>4. ~ (r <= Place(s, i))
      BY <1>6, <3>1, <3>2, <3>3
    <3> QED
      BY <1>1, <3>1, <3>4
  <2>2. f \in Injection(U, 1 .. r - 1)
    BY <1>4, <2>1 DEF Injection, IsInjective
  <2>3. IsFiniteSet(1 .. r - 1) /\ Cardinality(1 .. r - 1) = r - 1
    BY FS_Interval
  <2> QED
    BY <2>2, <2>3, FS_Injection
<1> QED
  BY <1>1, <1>2, <1>5, <1>6 DEF t

(* A quotient rounded to the nearest integer is off by half at most. *)
LEMMA NearestBounds ==
  ASSUME NEW a \in Nat, NEW b \in Nat \ {0}
  PROVE  /\ Nearest(a, b) \in Nat
         /\ 2 * (b * Nearest(a, b)) <= 2 * a + b
         /\ 2 * a <= 2 * (b * Nearest(a, b)) + b
<1> DEFINE q == a \div b
           rest == a % b
<1>1. q \in Nat /\ rest \in Nat /\ rest < b /\ a = b * q + rest
  OBVIOUS
<1>2. \/ Nearest(a, b) = q /\ 2 * rest <= b
      \/ Nearest(a, b) = q + 1 /\ 2 * rest >= b
  BY <1>1 DEF Nearest
<1> HIDE DEF q, rest
<1>3. b * q \in Nat /\ b * (q + 1) = b * q + b
  BY <1>1
<1> DEFINE low == b * q
<1>4. CASE Nearest(a, b) = q /\ 2 * rest <= b
  <2>1. b * Nearest(a, b) = low
    BY <1>4
  <2>2. low \in Nat /\ a = low + rest
    BY <1>1, <1>3
  <2> HIDE DEF low
  <2> QED
    BY <1>1, <1>4, <2>1, <2>2
<1>5. CASE Nearest(a, b) = q + 1 /\ 2 * rest >= b
  <2>1. b * Nearest(a, b) = low + b
    BY <1>3, <1>5
  <2>2. low \in Nat /\ a = low + rest
    BY <1>1, <1>3
  <2> HIDE DEF low
  <2> QED
    BY <1>1, <1>5, <2>1, <2>2
<1> QED
  BY <1>2, <1>4, <1>5

(* It does not exceed an integer that the quotient does not exceed. *)
LEMMA NearestBelow ==
  ASSUME NEW a \in Nat, NEW b \in Nat \ {0}, NEW k \in Nat, a <= b * k
  PROVE  Nearest(a, b) <= k
<1> SUFFICES ASSUME k + 1 <= Nearest(a, b)
             PROVE  FALSE
  BY NearestBounds
<1> DEFINE n == Nearest(a, b)
           q == a \div b
           rest == a % b
<1>1. q \in Nat /\ rest \in Nat /\ rest < b /\ a = b * q + rest
  OBVIOUS
<1>2. n \in {q, q + 1} /\ (n = q + 1 => 2 * rest >= b)
  BY <1>1 DEF Nearest
<1> HIDE DEF n, q, rest
<1>3. n \in Nat /\ k <= q
  BY <1>1, <1>2 DEF n
<1>4. k * b <= q * b /\ k * b = b * k /\ q * b = b * q /\ b * k \in Nat /\ b * q \in Nat
  BY <1>1, <1>3, ProductGrows
<1>5. rest = 0 /\ b * q = b * k
  BY <1>1, <1>4
<1>6. n = q
  BY <1>1, <1>2, <1>5
<1>7. k + 1 <= q
  BY <1>6 DEF n
<1>8. (k + 1) * b <= q * b /\ (k + 1) * b = b * k + b
  BY <1>1, <1>7, ProductGrows
<1> QED
  BY <1>4, <1>5, <1>8

(* The doubles of the percents reported are not above them, and close. *)
LEMMA RatioRoundedDown ==
  ASSUME NEW p \in Percents
  PROVE  /\ Ratio(p) \in Nat /\ Ratio(p) <= PRECISION
         /\ 100 * Ratio(p) <= p * PRECISION
         /\ p * PRECISION <= 100 * Ratio(p) + 40
<1>1. PICK m \in Nat : PRECISION = 100 * m + 92
  <2>1. PRECISION \in Nat /\ PRECISION % 100 = 92
    BY MetricsAssumption
  <2>2. PRECISION = 100 * (PRECISION \div 100) + 92 /\ PRECISION \div 100 \in Nat
    BY <2>1
  <2> QED
    BY <2>2
<1>2. CASE p = 50
  <2>1. (p * PRECISION) \div 100 = 50 * m + 46 /\ (p * PRECISION) % 100 = 0
    BY <1>1, <1>2
  <2>2. Ratio(p) = 50 * m + 46
    BY <2>1 DEF Ratio, Nearest
  <2> QED
    BY <1>1, <1>2, <2>2
<1>3. CASE p = 95
  <2>1. (p * PRECISION) \div 100 = 95 * m + 87 /\ (p * PRECISION) % 100 = 40
    BY <1>1, <1>3
  <2>2. Ratio(p) = 95 * m + 87
    BY <2>1 DEF Ratio, Nearest
  <2> QED
    BY <1>1, <1>3, <2>2
<1>4. CASE p = 99
  <2>1. (p * PRECISION) \div 100 = 99 * m + 91 /\ (p * PRECISION) % 100 = 8
    BY <1>1, <1>4
  <2>2. Ratio(p) = 99 * m + 91
    BY <2>1 DEF Ratio, Nearest
  <2> QED
    BY <1>1, <1>4, <2>2
<1> QED
  BY <1>2, <1>3, <1>4 DEF Percents

(* Doubles of a magnitude below the square of PRECISION are no further apart *)
(* than they have to be.                                                     *)
LEMMA UnitFits ==
  ASSUME NEW a \in Nat, a < PRECISION * PRECISION
  PROVE  /\ Unit(a) \in Units
         /\ Unit(a) = 1 \/ PRECISION * Unit(a) <= 2 * a
<1> DEFINE T == {u \in Units : a < PRECISION * u}
           u == Unit(a)
<1>1. PRECISION \in Nat \ {0}
  BY MetricsAssumption
<1>2. PRECISION \in T
  <2>1. PRECISION % PRECISION = 0
    BY <1>1
  <2> QED
    BY <1>1, <2>1 DEF Units
<1>3. T \in SUBSET Nat /\ T # {}
  BY <1>2 DEF Units
<1> HIDE DEF T
<1>4. \E n \in T : \A m \in T : n <= m
  BY <1>3, Least
<1>5. u \in Units /\ \A v \in Units : a < PRECISION * v => u <= v
  <2>1. \E n \in Units : a < PRECISION * n /\ \A v \in Units : a < PRECISION * v => n <= v
    BY <1>4 DEF T
  <2> QED
    BY <2>1 DEF Unit
<1> HIDE DEF u
<1>6. u \in 1 .. PRECISION /\ PRECISION % u = 0
  BY <1>5 DEF Units
<1>7. CASE u % 2 = 0
  <2>1. PICK h \in Nat \ {0} : u = 2 * h
    <3>1. u = 2 * (u \div 2) /\ u \div 2 \in Nat \ {0}
      BY <1>6, <1>7
    <3> QED
      BY <3>1
  <2>2. PICK k \in Nat : PRECISION = u * k
    <3>1. PRECISION = u * (PRECISION \div u) /\ PRECISION \div u \in Nat
      BY <1>1, <1>6
    <3> QED
      BY <3>1
  <2>3. h \in Units
    <3>1. PRECISION = h * (2 * k)
      BY <2>1, <2>2
    <3>2. PRECISION % h = 0
      BY <3>1
    <3>3. h \in 1 .. PRECISION
      BY <1>1, <1>6, <2>1
    <3> QED
      BY <3>2, <3>3 DEF Units
  <2>4. ~ (a < PRECISION * h)
    BY <1>5, <1>6, <2>1, <2>3
  <2>5. PRECISION * u = 2 * (PRECISION * h) /\ PRECISION * h \in Nat
    BY <1>1, <2>1
  <2> DEFINE x == PRECISION * h
             y == PRECISION * u
  <2>6. ~ (a < x) /\ y = 2 * x /\ x \in Nat
    BY <2>4, <2>5
  <2> HIDE DEF x, y
  <2>7. y <= 2 * a
    BY <2>6
  <2> QED
    BY <1>5, <2>7 DEF u, y
<1>8. u = 1 \/ u % 2 = 0
  BY <1>6, MetricsAssumption
<1> QED
  BY <1>5, <1>7, <1>8 DEF u

(* The nearest rank is a position: the index of percentile() needs no clamp, *)
(* and the rounding of its two products and quotients does not move it.      *)
LEMMA RankInRange ==
  ASSUME NEW p \in Percents, NEW n \in Nat \ {0}, 150 * n <= PRECISION
  PROVE  /\ Rank(p, n) \in 1 .. n
         /\ 100 * Rank(p, n) >= p * n
         /\ 100 * (Rank(p, n) - 1) < p * n
<1> DEFINE P == PRECISION
           R == Ratio(p)
           a == R * n
           u == Unit(a)
           N == Nearest(a, u)
           y == u * N
           c == p * n
           r == Rank(p, n)
<1>1. P \in Nat \ {0} /\ n < P /\ p \in Nat /\ 1 <= p /\ p <= 99
  BY MetricsAssumption DEF Percents
<1>2. R \in Nat /\ R <= P /\ 100 * R <= p * P /\ p * P <= 100 * R + 40
  BY RatioRoundedDown
<1>3. r = (N * u + (P - 1)) \div P
  BY DEF Rank, Product
<1> HIDE DEF P, R, r
<1>4. a \in Nat /\ a <= P * n /\ P * n \in Nat
  BY <1>1, <1>2, ProductGrows
<1>5. a < P * P
  <2>1. (n + 1) * P <= P * P /\ (n + 1) * P = P * n + P
    BY <1>1, ProductGrows
  <2> QED
    BY <1>1, <1>4, <2>1
<1>6. c \in Nat /\ 1 <= c /\ c <= 99 * n
  <2>1. 1 * n <= p * n /\ p * n <= 99 * n
    BY <1>1, ProductGrows
  <2> QED
    BY <1>1, <2>1
<1>7. 100 * a <= c * P /\ c * P <= 100 * a + 40 * n
  <2>1. p * P \in Nat /\ 100 * R \in Nat
    BY <1>1, <1>2
  <2>2. /\ (100 * R) * n <= (p * P) * n
        /\ (p * P) * n <= (100 * R + 40) * n
    BY <1>2, <2>1, ProductGrows
  <2>3. /\ (100 * R) * n = 100 * a /\ (p * P) * n = c * P
        /\ (100 * R + 40) * n = 100 * a + 40 * n
    BY <1>1, <1>2
  <2> QED
    BY <2>2, <2>3
<1>8. u \in Nat \ {0} /\ P % u = 0 /\ (u = 1 \/ P * u <= 2 * a)
  <2> HIDE DEF a
  <2> QED
    BY <1>4, <1>5, UnitFits DEF P, Units
<1>9. PICK k \in Nat : P = u * k
  <2>1. P = u * (P \div u) /\ P \div u \in Nat
    BY <1>1, <1>8
  <2> QED
    BY <2>1
<1>10. N \in Nat /\ 2 * y <= 2 * a + u /\ 2 * a <= 2 * y + u
  <2> HIDE DEF a, u
  <2> QED
    BY <1>4, <1>8, NearestBounds
<1>11. y \in Nat /\ N * u = y
  BY <1>8, <1>10
<1> HIDE DEF c, a, u, N, y
<1>12. r \in Nat /\ P * r <= y + (P - 1) /\ y <= P * r /\ P * r \in Nat
  <2>1. y + (P - 1) \in Nat
    BY <1>1, <1>11
  <2>2. r = (y + (P - 1)) \div P
    BY <1>3, <1>11
  <2>3. r \in Nat /\ P * r <= y + (P - 1) /\ y + (P - 1) < P * r + P
    BY <1>1, <2>1, <2>2, Quotient
  <2>4. P * r \in Nat
    BY <1>1, <2>3
  <2> QED
    BY <1>1, <1>11, <2>3, <2>4
<1>13. 100 * (r - 1) < c
  <2> SUFFICES ASSUME c <= 100 * (r - 1)
               PROVE  FALSE
    BY <1>6, <1>12
  <2> DEFINE s == r - 1
  <2>1. s \in Nat
    BY <1>6, <1>12
  <2>2. c * P <= (100 * s) * P
    BY <1>1, <1>6, <2>1, ProductGrows
  <2>3. (100 * s) * P = 100 * (s * P) /\ s * P \in Nat /\ P * r = s * P + P
    BY <1>1, <1>12, <2>1
  <2>4. s * P = u * (k * s) /\ k * s \in Nat
    BY <1>8, <1>9, <2>1
  <2>5. a <= s * P
    <3> DEFINE x == s * P
               z == c * P
    <3>1. x \in Nat /\ z <= 100 * x /\ 100 * a <= z /\ z \in Nat
      BY <1>1, <1>6, <1>7, <2>2, <2>3
    <3> HIDE DEF x, z
    <3>2. a <= x
      BY <1>4, <3>1
    <3> QED
      BY <3>2 DEF x
  <2>6. N <= k * s
    BY <1>4, <1>8, <2>4, <2>5, NearestBelow DEF N
  <2>7. y <= s * P
    <3>1. N * u <= (k * s) * u /\ (k * s) * u = u * (k * s)
      BY <1>8, <1>10, <2>4, <2>6, ProductGrows
    <3> QED
      BY <1>11, <2>4, <3>1
  <2> QED
    BY <1>1, <1>11, <1>12, <2>3, <2>7
<1>14. u = 1 \/ u <= 2 * n
  <2> SUFFICES ASSUME P * u <= 2 * a, 2 * n + 1 <= u
               PROVE  FALSE
    BY <1>8
  <2>1. (2 * n + 1) * P <= u * P
    BY <1>1, <1>8, ProductGrows
  <2>2. (2 * n + 1) * P = 2 * (P * n) + P /\ u * P = P * u /\ P * u \in Nat
    BY <1>1, <1>8
  <2> DEFINE x == P * u
             z == P * n
  <2>3. x \in Nat /\ z \in Nat /\ 2 * z + P <= x /\ x <= 2 * a /\ a <= z
    BY <1>1, <1>4, <2>1, <2>2
  <2> HIDE DEF x, z
  <2> QED
    BY <1>1, <1>4, <2>3
<1>15. c <= 100 * r
  <2> SUFFICES ASSUME 100 * r + 1 <= c
               PROVE  FALSE
    BY <1>6, <1>12
  <2>1. (100 * r + 1) * P <= c * P
    BY <1>1, <1>6, <1>12, ProductGrows
  <2>2. (100 * r + 1) * P = 100 * (P * r) + P
    BY <1>1, <1>12
  <2> DEFINE x == P * r
             z == c * P
  <2>3. x \in Nat /\ z \in Nat /\ y <= x /\ 100 * x + P <= z /\ z <= 100 * a + 40 * n
    BY <1>1, <1>6, <1>7, <1>12, <2>1, <2>2
  <2> HIDE DEF x, z
  <2>4. P <= 40 * n + 50 * u
    BY <1>1, <1>4, <1>8, <1>10, <1>11, <2>3
  <2>5. 150 * n <= P
    BY DEF P
  <2> QED
    BY <1>1, <1>8, <1>14, <2>4, <2>5
<1>16. r \in 1 .. n
  BY <1>6, <1>12, <1>13, <1>15
<1> QED
  BY <1>13, <1>15, <1>16 DEF c, r

(* Few enough values for a vector of them and for the rank to be exact. *)
Few(n) == n <= UINT64 /\ 150 * n <= PRECISION

(* What percentile() returns of them. *)
LEMMA PercentileIs ==
  ASSUME NEW s \in Seq(Nat), s # <<>>, Few(Len(s)), NEW p \in Percents
  PROVE  /\ Rank(p, Len(s)) \in 1 .. Len(s)
         /\ Percentile(s, p) = Sorted(s)[Rank(p, Len(s))]
<1> DEFINE n == Len(s)
           r == Rank(p, n)
<1>1. n \in Nat \ {0}
  OBVIOUS
<1>2. r \in 1 .. n
  BY <1>1, RankInRange DEF Few
<1>3. n <= UINT64 /\ UINT64 \in Nat \ {0}
  BY MetricsAssumption DEF Few
<1> DEFINE idx == (r - 1) % UINT64
<1>4. Percentile(s, p) = Sorted(s)[IF idx >= n THEN n ELSE idx + 1]
  BY <1>1 DEF Percentile
<1> HIDE DEF n, r
<1>5. idx = r - 1
  <2>1. r - 1 \in Int /\ 0 <= r - 1 /\ r - 1 < UINT64
    BY <1>1, <1>2, <1>3
  <2> QED
    BY <2>1, Remainder
<1> HIDE DEF idx
<1>6. (IF idx >= n THEN n ELSE idx + 1) = r
  BY <1>1, <1>2, <1>5
<1> QED
  BY <1>2, <1>4, <1>6 DEF n, r

(* It is the nearest-rank percentile, for every sequence of values. *)
LEMMA NearestRank ==
  ASSUME NEW s \in Seq(Nat), s # <<>>, Few(Len(s)), NEW p \in Percents
  PROVE  IsNearestRank(Percentile(s, p), s, p)
<1> DEFINE n == Len(s)
           r == Rank(p, n)
           v == Percentile(s, p)
           upTo(w) == Cardinality({i \in DOMAIN s : s[i] <= w})
           a == p * n
<1>1. n \in Nat \ {0} /\ DOMAIN s = 1 .. n /\ \A i \in 1 .. n : s[i] \in Nat
  OBVIOUS
<1>2. r \in 1 .. n /\ v = Sorted(s)[r]
  BY PercentileIs
<1>3. 100 * r >= a /\ 100 * (r - 1) < a
  BY <1>1, RankInRange DEF Few
<1>4. a \in Nat
  BY <1>1 DEF Percents
<1>5. v \in Range(s) /\ v \in Nat
  <2>1. \E i \in 1 .. n : Sorted(s)[r] = s[i]
    BY <1>2, SortedValues
  <2> HIDE DEF n, r, v
  <2> QED
    BY <1>1, <1>2, <2>1 DEF Range
<1>6. \A w \in Nat : /\ upTo(w) \in Nat
                     /\ v <= w => upTo(w) >= r
                     /\ w < v => upTo(w) <= r - 1
  <2> TAKE w \in Nat
  <2> HIDE DEF v, r
  <2> QED
    BY <1>2, CountUpTo
<1>7. Range(s) \subseteq Nat
  BY <1>1 DEF Range
<1> HIDE DEF v, upTo, a, r
<1>8. r \in Nat
  BY <1>1, <1>2
<1>9. 100 * upTo(v) >= a
  <2>1. upTo(v) \in Nat /\ upTo(v) >= r
    BY <1>5, <1>6
  <2> QED
    BY <1>3, <1>4, <1>8, <2>1
<1>10. \A w \in Range(s) : w < v => 100 * upTo(w) < a
  <2> SUFFICES ASSUME NEW w \in Range(s), w < v
               PROVE  100 * upTo(w) < a
    OBVIOUS
  <2>1. upTo(w) \in Nat /\ upTo(w) <= r - 1
    BY <1>6, <1>7
  <2> QED
    BY <1>3, <1>4, <1>8, <2>1
<1> QED
  BY <1>5, <1>9, <1>10 DEF IsNearestRank, v, upTo, a

(* ... and it grows with p, as the reports list it. *)
LEMMA PercentilesOrdered ==
  ASSUME NEW s \in Seq(Nat), Few(Len(s)),
         NEW p \in Percents, NEW q \in Percents, p <= q
  PROVE  Percentile(s, p) <= Percentile(s, q)
<1>1. CASE s = <<>>
  <2>1. Percentile(s, p) = 0 /\ Percentile(s, q) = 0
    BY <1>1 DEF Percentile
  <2> QED
    BY <2>1
<1>2. CASE s # <<>>
  <2> DEFINE n == Len(s)
             r == Rank(p, n)
             t == Rank(q, n)
             a == p * n
             b == q * n
  <2>1. n \in Nat \ {0}
    BY <1>2
  <2>2. /\ r \in 1 .. n /\ Percentile(s, p) = Sorted(s)[r]
        /\ t \in 1 .. n /\ Percentile(s, q) = Sorted(s)[t]
    BY ONLY <1>2, PercentileIs, s \in Seq(Nat), Few(Len(s)),
            p \in Percents, q \in Percents
  <2>3. 100 * (r - 1) < a /\ 100 * t >= b
    BY <2>1, RankInRange DEF Few
  <2>4. a \in Nat /\ b \in Nat /\ a <= b
    <3>1. p \in Nat /\ q \in Nat /\ n \in Nat
      BY <2>1 DEF Percents
    <3> HIDE DEF n
    <3> QED
      BY <3>1, ProductGrows
  <2> HIDE DEF n, r, t, a, b
  <2>5. r <= t
    BY <2>1, <2>2, <2>3, <2>4
  <2> QED
    BY <2>2, <2>5, SortedValues DEF n
<1> QED
  BY <1>1, <1>2

-----------------------------------------------------------------------------
(* The chunks counted, and the two reports of them. *)

(* The counters tell of the chunks of the sizes in s. *)
Counted(m, s) ==
  /\ m.chunk_count = Len(s)
  /\ m.sum_chunk_sizes = m.total_bytes
  /\ TotalsOf(m.total_bytes, m.min_chunk_size, m.max_chunk_size, UINT64_MAX, s)

(* A write is taken before it is counted. *)
Pending == pc \in {"dispatch", "acquire"} /\ cmd.code = "VDC_Write"

TakenInv ==
  /\ pc = "acquire" => cmd.code = "VDC_Write"
  /\ pc \in {"dispatch", "acquire"} => cmd \in Commands
  /\ ~ Pending => Counted(metrics, taken)
  /\ Pending => \E s \in Seq(Nat) :
                  taken = Append(s, cmd.size) /\ Counted(metrics, s)

(* The counters after a chunk of n bytes was counted. *)
LEMMA CountingSizes ==
  ASSUME NEW m \in MetricsType, NEW n \in Nat, NEW ok,
         NEW r, r = RecordBufferAcquire(AddBytes(RecordChunkSize(m, n), n), ok)
  PROVE  /\ r.total_bytes = m.total_bytes + n
         /\ r.chunk_count = m.chunk_count + 1
         /\ r.sum_chunk_sizes = m.sum_chunk_sizes + n
         /\ r.min_chunk_size = IF n < m.min_chunk_size THEN n ELSE m.min_chunk_size
         /\ r.max_chunk_size = IF n > m.max_chunk_size THEN n ELSE m.max_chunk_size
<1> DEFINE a == RecordChunkSize(m, n)
           b == AddBytes(a, n)
           low == IF n < m.min_chunk_size THEN n ELSE m.min_chunk_size
           high == IF n > m.max_chunk_size THEN n ELSE m.max_chunk_size
           sum == m.sum_chunk_sizes + n
<1>1. a = [m EXCEPT !.min_chunk_size = low, !.max_chunk_size = high,
                    !.sum_chunk_sizes = sum]
  BY DEF RecordChunkSize
<1>2. r = RecordBufferAcquire(b, ok)
  OBVIOUS
<1>3. b = [a EXCEPT !.total_bytes = a.total_bytes + n,
                    !.chunk_count = a.chunk_count + 1]
  BY DEF AddBytes
<1> HIDE DEF a, b, low, high, sum
<1>4. /\ a.total_bytes = m.total_bytes /\ a.chunk_count = m.chunk_count
      /\ a.sum_chunk_sizes = sum /\ a.min_chunk_size = low
      /\ a.max_chunk_size = high
      /\ a = [m EXCEPT !.min_chunk_size = low, !.max_chunk_size = high,
                       !.sum_chunk_sizes = sum]
  BY <1>1 DEF MetricsType
<1>5. DOMAIN a = DOMAIN m
  BY <1>1
<1>6. /\ b.total_bytes = m.total_bytes + n /\ b.chunk_count = m.chunk_count + 1
      /\ b.sum_chunk_sizes = sum /\ b.min_chunk_size = low
      /\ b.max_chunk_size = high /\ DOMAIN b = DOMAIN m
  BY <1>3, <1>4, <1>5 DEF MetricsType
<1>7. /\ r.total_bytes = b.total_bytes /\ r.chunk_count = b.chunk_count
      /\ r.sum_chunk_sizes = b.sum_chunk_sizes
      /\ r.min_chunk_size = b.min_chunk_size
      /\ r.max_chunk_size = b.max_chunk_size
  BY <1>2, <1>6 DEF RecordBufferAcquire, MetricsType
<1> QED
  BY <1>6, <1>7 DEF low, high, sum

(* The other calls do not touch what is counted of the chunks. *)
LEMMA SizesKept ==
  ASSUME NEW m \in MetricsType, NEW r, NEW t,
         r = RecordBufferRelease(m) \/ r = RecordChunkTiming(m, t)
  PROVE  /\ r.total_bytes = m.total_bytes /\ r.chunk_count = m.chunk_count
         /\ r.sum_chunk_sizes = m.sum_chunk_sizes
         /\ r.min_chunk_size = m.min_chunk_size
         /\ r.max_chunk_size = m.max_chunk_size
  BY DEF RecordBufferRelease, RecordChunkTiming, MetricsType

(* Counting a chunk that was taken. *)
LEMMA CountedStep ==
  ASSUME NEW m \in MetricsType, NEW s \in Seq(Nat), NEW n \in 0 .. UINT64_MAX,
         NEW ok, Counted(m, s)
  PROVE  Counted(RecordBufferAcquire(AddBytes(RecordChunkSize(m, n), n), ok),
                 Append(s, n))
<1> DEFINE r == RecordBufferAcquire(AddBytes(RecordChunkSize(m, n), n), ok)
<1>1. /\ r.total_bytes = m.total_bytes + n
      /\ r.chunk_count = m.chunk_count + 1
      /\ r.sum_chunk_sizes = m.sum_chunk_sizes + n
      /\ r.min_chunk_size = IF n < m.min_chunk_size THEN n ELSE m.min_chunk_size
      /\ r.max_chunk_size = IF n > m.max_chunk_size THEN n ELSE m.max_chunk_size
  <2> HIDE DEF r
  <2>1. n \in Nat /\ r = RecordBufferAcquire(AddBytes(RecordChunkSize(m, n), n), ok)
    BY DEF r
  <2> QED
    BY <2>1, CountingSizes
<1> HIDE DEF r
<1>2. /\ m.min_chunk_size \in Nat /\ m.max_chunk_size \in Nat
      /\ UINT64_MAX \in Nat /\ n \in Nat /\ n <= UINT64_MAX
  BY MetricsAssumption DEF MetricsType, UINT64_MAX
<1>3. TotalsOf(m.total_bytes, m.min_chunk_size, m.max_chunk_size, UINT64_MAX, s)
  BY DEF Counted
<1>4. TotalsOf(r.total_bytes, r.min_chunk_size, r.max_chunk_size, UINT64_MAX,
               Append(s, n))
  BY <1>1, <1>2, <1>3, TotalsOfAppend
<1>5. Len(Append(s, n)) = Len(s) + 1
  OBVIOUS
<1>6. Counted(r, Append(s, n))
  BY <1>1, <1>4, <1>5 DEF Counted
<1> QED
  BY <1>6 DEF r

(* Nothing taken, nothing counted. *)
LEMMA TakenInit == Init => TakenInv
<1> SUFFICES ASSUME Init
             PROVE  TakenInv
  OBVIOUS
<1>1. TotalsOf(0, UINT64_MAX, 0, UINT64_MAX, taken) /\ Len(taken) = 0
  BY TotalsOfNone DEF Init
<1>2. Counted(metrics, taken)
  BY <1>1 DEF Counted, Init, NewMetrics
<1> QED
  BY <1>2 DEF TakenInv, Pending, Init

(* A step takes, counts, or leaves both alone. *)
LEMMA TakenStep == LoopInv /\ TakenInv /\ [Next]_vars => TakenInv'
<1> SUFFICES ASSUME LoopInv, TakenInv, [Next]_vars
             PROVE  TakenInv'
  OBVIOUS
<1>1. CASE UNCHANGED vars
  BY <1>1 DEF vars, historyVars, TakenInv, Pending, Counted, TotalsOf
<1>2. ASSUME NEW d \in Delays,
             \/ ProcessCommands(d) \/ GetNothing(d) \/ GetEnds(d)
             \/ DispatchClose(d) \/ SinkWrite(d) \/ SinkFails(d)
             \/ CompleteFails(d) \/ Report(d)
      PROVE  TakenInv'
  <2>1. /\ ~ Pending /\ UNCHANGED <<metrics, taken>>
        /\ pc' \notin {"dispatch", "acquire"}
    BY <1>2 DEF ProcessCommands, GetNothing, GetEnds, DispatchClose, SinkWrite,
                SinkFails, CompleteFails, Report, Call, Leave, historyVars, Pending
  <2>2. Counted(metrics, taken)
    BY <2>1 DEF TakenInv
  <2> QED
    BY <2>1, <2>2 DEF TakenInv, Pending, Counted, TotalsOf
<1>3. ASSUME NEW d \in Delays, NEW c \in Commands, GetCommand(c, d)
      PROVE  TakenInv'
  <2>1. /\ ~ Pending /\ pc' = "dispatch" /\ cmd' = c /\ metrics' = metrics
        /\ taken' = IF c.code = "VDC_Write" THEN Append(taken, c.size) ELSE taken
    BY <1>3 DEF GetCommand, Call, Pending
  <2>2. Counted(metrics', taken) /\ taken \in Seq(Nat)
    BY <2>1 DEF TakenInv, LoopInv, TypeOK
  <2> QED
    BY <2>1, <2>2 DEF TakenInv, Pending
<1>4. ASSUME NEW d \in Delays, Dispatch(d)
      PROVE  TakenInv'
  <2>1. /\ pc = "dispatch" /\ UNCHANGED <<cmd, metrics, taken>>
        /\ pc' = IF cmd.code = "VDC_Write" THEN "acquire" ELSE "complete"
    BY <1>4 DEF Dispatch, Call, historyVars
  <2>2. Pending' <=> Pending
    BY <2>1 DEF Pending
  <2>3. cmd \in Commands
    BY <2>1 DEF TakenInv
  <2>4. (~ Pending => Counted(metrics, taken))'
    BY <2>1, <2>2 DEF TakenInv
  <2>5. (Pending => \E s \in Seq(Nat) :
                      taken = Append(s, cmd.size) /\ Counted(metrics, s))'
    BY <2>1, <2>2 DEF TakenInv
  <2> QED
    BY <2>1, <2>3, <2>4, <2>5 DEF TakenInv
<1>5. ASSUME NEW d \in Delays, AcquireBuffer(d)
      PROVE  TakenInv'
  <2>1. /\ pc = "acquire" /\ pc' \in {"release", "sink"} /\ taken' = taken
    BY <1>5 DEF AcquireBuffer, Call, historyVars
  <2>2. PICK b : metrics' = RecordBufferAcquire(
                              AddBytes(RecordChunkSize(metrics, cmd.size), cmd.size),
                              b # Pool!nullptr)
    BY <1>5 DEF AcquireBuffer
  <2>3. Pending
    BY <2>1 DEF TakenInv, Pending
  <2>4. PICK s \in Seq(Nat) : taken = Append(s, cmd.size) /\ Counted(metrics, s)
    BY <2>3 DEF TakenInv
  <2>5. cmd.size \in 0 .. UINT64_MAX /\ metrics \in MetricsType
    BY <2>1, MeteredAssumption DEF TakenInv, LoopInv, TypeOK
  <2>6. Counted(metrics', taken)
    <3> DEFINE ok == b # Pool!nullptr
    <3> HIDE DEF ok
    <3>1. metrics' = RecordBufferAcquire(
                       AddBytes(RecordChunkSize(metrics, cmd.size), cmd.size), ok)
      BY <2>2 DEF ok
    <3> QED
      BY <2>4, <2>5, <3>1, CountedStep
  <2>7. Counted(metrics, taken)'
    BY <2>1, <2>6 DEF Counted, TotalsOf
  <2> QED
    BY <2>1, <2>7 DEF TakenInv, Pending
<1>6. ASSUME NEW d \in Delays, NEW size,
             ReleaseBuffer \/ CompleteCommand(d, size)
      PROVE  TakenInv'
  <2>1. /\ ~ Pending /\ taken' = taken /\ pc' \in {"sink", "get"}
        /\ \/ metrics' = RecordBufferRelease(metrics)
           \/ metrics' = RecordChunkTiming(metrics, Timing(size, Took))
    BY <1>6 DEF ReleaseBuffer, CompleteCommand, Call, historyVars, Pending
  <2>2. Counted(metrics, taken) /\ metrics \in MetricsType
    BY <2>1 DEF TakenInv, LoopInv, TypeOK
  <2>3. /\ metrics'.total_bytes = metrics.total_bytes
        /\ metrics'.chunk_count = metrics.chunk_count
        /\ metrics'.sum_chunk_sizes = metrics.sum_chunk_sizes
        /\ metrics'.min_chunk_size = metrics.min_chunk_size
        /\ metrics'.max_chunk_size = metrics.max_chunk_size
    <3> DEFINE r == metrics'
               t == Timing(size, Took)
    <3>1. r = RecordBufferRelease(metrics) \/ r = RecordChunkTiming(metrics, t)
      BY <2>1
    <3> HIDE DEF r, t
    <3>2. /\ r.total_bytes = metrics.total_bytes
          /\ r.chunk_count = metrics.chunk_count
          /\ r.sum_chunk_sizes = metrics.sum_chunk_sizes
          /\ r.min_chunk_size = metrics.min_chunk_size
          /\ r.max_chunk_size = metrics.max_chunk_size
      BY <2>2, <3>1, SizesKept
    <3> QED
      BY <3>2 DEF r
  <2>4. Counted(metrics, taken)'
    BY <2>1, <2>2, <2>3 DEF Counted, TotalsOf
  <2> QED
    BY <2>1, <2>4 DEF TakenInv, Pending
<1> QED
  BY <1>1, <1>2, <1>3, <1>4, <1>5, <1>6 DEF Next

(* Every ChunkTiming is one of a command taken before, so that the bound on  *)
(* the commands bounds the vector.                                           *)
TimedInv ==
  /\ Len(taken) + others <= MaxCommands
  /\ Len(metrics.timings) <= Len(taken) + others
  /\ InLap => Len(metrics.timings) + 1 <= Len(taken) + others

(* Nothing timed yet. *)
LEMMA TimedInit == Init => TimedInv
<1> SUFFICES ASSUME Init
             PROVE  TimedInv
  OBVIOUS
<1>1. Len(taken) = 0 /\ others = 0 /\ Len(metrics.timings) = 0 /\ ~ InLap
  BY DEF Init, NewMetrics, InLap
<1> QED
  BY <1>1, MeteredAssumption DEF TimedInv

(* What is counted, by type. *)
LEMMA CountsTyped ==
  ASSUME LoopInv
  PROVE  /\ metrics.timings \in Seq(TimingType)
         /\ Len(metrics.timings) \in Nat
         /\ taken \in Seq(Nat) /\ others \in Nat
         /\ Len(taken) + others \in Nat /\ MaxCommands \in Nat
<1>1. metrics \in MetricsType /\ taken \in Seq(Nat) /\ others \in Nat
  BY DEF LoopInv, TypeOK
<1>2. metrics.timings \in Seq(TimingType)
  BY <1>1 DEF MetricsType
<1>3. MaxCommands \in Nat
  BY MeteredAssumption
<1> QED
  BY <1>1, <1>2, <1>3

(* A step adds at most one timing, of the stages it measured. *)
LEMMA TimedStep == LoopInv /\ TimedInv /\ [Next]_vars => TimedInv'
<1> SUFFICES ASSUME LoopInv, TimedInv, [Next]_vars
             PROVE  TimedInv'
  OBVIOUS
<1> DEFINE T == metrics.timings
           n == Len(taken) + others
<1>1. /\ T \in Seq(TimingType) /\ taken \in Seq(Nat) /\ others \in Nat
      /\ Len(T) \in Nat /\ n \in Nat /\ MaxCommands \in Nat
  BY CountsTyped
<1>2. CASE UNCHANGED vars
  <2>1. UNCHANGED <<metrics, taken, others>> /\ (InLap' => InLap)
    BY <1>2, Zenon DEF vars, historyVars, InLap
  <2> QED
    BY <2>1 DEF TimedInv
<1>3. ASSUME NEW d \in Delays,
             \/ ProcessCommands(d) \/ GetNothing(d) \/ GetEnds(d)
             \/ DispatchClose(d) \/ Dispatch(d) \/ SinkWrite(d) \/ SinkFails(d)
             \/ CompleteFails(d) \/ Report(d)
      PROVE  TimedInv'
  <2>1. /\ UNCHANGED <<metrics, taken, others>> /\ (InLap' => InLap)
    BY <1>3 DEF ProcessCommands, GetNothing, GetEnds, DispatchClose, Dispatch,
                SinkWrite, SinkFails, CompleteFails, Report, Call, Leave,
                historyVars, InLap
  <2> QED
    BY <2>1 DEF TimedInv
<1>4. ASSUME NEW d \in Delays, NEW c \in Commands, GetCommand(c, d),
             n < MaxCommands
      PROVE  TimedInv'
  <2>1. /\ metrics' = metrics /\ ~ InLap
        /\ \/ taken' = Append(taken, c.size) /\ others' = others
           \/ taken' = taken /\ others' = others + 1
    BY <1>4 DEF GetCommand, Call, InLap
  <2>2. n' = n + 1
    <3>1. CASE taken' = Append(taken, c.size) /\ others' = others
      BY <1>1, <3>1
    <3>2. CASE taken' = taken /\ others' = others + 1
      BY <1>1, <3>2
    <3> QED
      BY <2>1, <3>1, <3>2
  <2>3. Len(T') = Len(T) /\ Len(T) <= n
    BY <2>1 DEF TimedInv
  <2> HIDE DEF n, T
  <2>4. n' <= MaxCommands /\ Len(T') <= n' /\ Len(T') + 1 <= n'
    BY <1>1, <1>4, <2>2, <2>3
  <2> QED
    BY <2>4 DEF TimedInv, n, T
<1>5. ASSUME NEW d \in Nat, AcquireBuffer(d) \/ ReleaseBuffer
      PROVE  TimedInv'
  <2>1. metrics'.timings = metrics.timings
    BY <1>5, AcquireStep, ReleaseStep
  <2>2. UNCHANGED <<taken, others>> /\ InLap
    BY <1>5 DEF AcquireBuffer, ReleaseBuffer, Call, historyVars, InLap
  <2> QED
    BY <2>1, <2>2 DEF TimedInv
<1>6. ASSUME NEW d \in Nat, NEW size \in Nat, CompleteCommand(d, size)
      PROVE  TimedInv'
  <2>1. T' = Append(T, Timing(size, Took))
    BY <1>6, CompleteStep
  <2>2. UNCHANGED <<taken, others>> /\ InLap /\ ~ InLap'
    BY <1>6 DEF CompleteCommand, Call, historyVars, InLap
  <2>3. Len(T') = Len(T) + 1
    BY <1>1, <2>1
  <2> QED
    BY <2>2, <2>3 DEF TimedInv
<1>7. /\ Delays \subseteq Nat
      /\ {cmd.size} \cup ReusedSizes \subseteq Nat
  BY MeteredAssumption, SizesTyped DEF LoopInv
<1> HIDE DEF n, T
<1> QED
  BY <1>2, <1>3, <1>4, <1>5, <1>6, <1>7 DEF Next, n

(* The values of a stage are as many numbers as there are records. *)
LEMMA StageTyped ==
  ASSUME NEW m \in MetricsType, NEW f \in StageFields
  PROVE  /\ StageValues(m, f) \in Seq(Nat)
         /\ Len(StageValues(m, f)) = Len(m.timings)
<1> DEFINE T == m.timings
<1>1. T \in Seq(TimingType)
  BY DEF MetricsType
<1>2. \A t \in TimingType : t[f] \in Nat
  BY DEF TimingType, StageFields
<1>3. \A i \in 1 .. Len(T) : T[i] \in TimingType
  BY <1>1
<1>4. StageValues(m, f) = [i \in 1 .. Len(T) |-> T[i][f]]
  BY <1>1 DEF StageValues
<1> HIDE DEF T
<1> QED
  BY <1>1, <1>2, <1>3, <1>4 DEF T

(* The vector of timings can be indexed by a size_t. *)
LEMMA TimingsIndexed == LoopInv /\ TimedInv => Few(Len(metrics.timings))
<1> SUFFICES ASSUME LoopInv, TimedInv
             PROVE  Few(Len(metrics.timings))
  OBVIOUS
<1>1. Len(metrics.timings) \in Nat /\ Len(taken) \in Nat /\ others \in Nat
  BY CountsTyped
<1>2. /\ MaxCommands \in Nat /\ MaxCommands < UINT64 /\ UINT64 \in Nat
      /\ 150 * MaxCommands <= PRECISION /\ PRECISION \in Nat
  BY MeteredAssumption, MetricsAssumption
<1>3. Len(metrics.timings) <= MaxCommands
  BY <1>1, <1>2 DEF TimedInv
<1> QED
  BY <1>1, <1>2, <1>3 DEF Few

(* What the two reports of Report are. *)
LEMMA ReportsOf ==
  ASSUME LoopInv, TakenInv, TimedInv, NEW d \in Nat, Report(d)
  PROVE  ReportsAgree'
<1> DEFINE m == metrics
           e == ticks - start
           f == ticks' - start
           s == Summary(m, e)
           j == Json(m, f)
           zeros == [g \in StageFields |-> [p \in Percents |-> 0]]
<1>1. /\ pc = "report" /\ m \in MetricsType /\ taken \in Seq(Nat)
      /\ ticks \in Nat /\ start \in Nat /\ ticks' = ticks + d
  BY DEF Report, Call, LoopInv, TypeOK
<1>2. report' = [summary |-> s, json |-> j]
  BY DEF Report
<1>3. Counted(m, taken)
  BY <1>1 DEF TakenInv, Pending
<1>4. e <= f
  BY <1>1
<1>5. /\ m.chunk_count \in Nat /\ m.total_bytes = m.sum_chunk_sizes
      /\ m.chunk_count = 0 => ReportedMin(m) = 0 /\ m.max_chunk_size = 0
  <2>1. m.chunk_count = Len(taken) /\ m.total_bytes = m.sum_chunk_sizes
    BY <1>3 DEF Counted
  <2>2. Len(taken) = 0 => taken = <<>>
    BY <1>1
  <2>3. taken = <<>> => m.min_chunk_size = UINT64_MAX /\ m.max_chunk_size = 0
    BY <1>3 DEF Counted, TotalsOf
  <2> QED
    BY <1>1, <2>1, <2>2, <2>3 DEF ReportedMin
<1>6. m.timings = <<>> => Latencies(m) = zeros
  <2> SUFFICES ASSUME m.timings = <<>>
               PROVE  Latencies(m) = zeros
    OBVIOUS
  <2>1. \A g \in StageFields, p \in Percents :
          Percentile(StageValues(m, g), p) = 0
    <3> TAKE g \in StageFields, p \in Percents
    <3>1. Len(StageValues(m, g)) = 0
      BY <1>1, StageTyped
    <3> QED
      BY <3>1 DEF Percentile
  <2> QED
    BY <2>1 DEF Latencies
<1>7. Latencies(m) # Nothing
  <2>1. DOMAIN Latencies(m) = StageFields /\ "sink_us" \in StageFields
    BY DEF Latencies, StageFields
  <2>2. DOMAIN Nothing = {}
    BY DEF Nothing
  <2> QED
    BY <2>1, <2>2
<1>8. \A g \in StageFields : /\ Latencies(m)[g][50] <= Latencies(m)[g][95]
                             /\ Latencies(m)[g][95] <= Latencies(m)[g][99]
  <2> TAKE g \in StageFields
  <2> DEFINE v == StageValues(m, g)
  <2>1. v \in Seq(Nat) /\ Few(Len(v))
    <3>1. Few(Len(metrics.timings))
      BY TimingsIndexed
    <3> QED
      BY <1>1, <3>1, StageTyped
  <2>2. \A p \in Percents : Latencies(m)[g][p] = Percentile(v, p)
    BY DEF Latencies
  <2> HIDE DEF v
  <2>3. /\ 50 \in Percents /\ 95 \in Percents /\ 99 \in Percents
        /\ 50 <= 95 /\ 95 <= 99
    BY DEF Percents
  <2>4. /\ Percentile(v, 50) <= Percentile(v, 95)
        /\ Percentile(v, 95) <= Percentile(v, 99)
    BY <2>1, <2>3, PercentilesOrdered, Zenon
  <2> QED
    BY <2>2, <2>3, <2>4
<1>9. /\ s.total_bytes = j.total_bytes /\ s.chunk_count = j.chunk_count
      /\ s.pool = j.pool /\ s.elapsed = e /\ j.elapsed = f
      /\ j.stages = Latencies(m)
      /\ s.stages = IF m.timings # <<>> THEN Latencies(m) ELSE Nothing
  BY DEF Summary, Json
<1>10. CASE m.chunk_count > 0
  <2> DEFINE q == m.sum_chunk_sizes \div m.chunk_count
             low == ReportedMin(m)
             high == m.max_chunk_size
  <2>1. /\ s.sizes = <<low, q, high>> /\ j.sizes = <<low, q, high>>
        /\ s.average = <<m.total_bytes \div m.chunk_count>>
    BY <1>10 DEF Summary, Json
  <2>2. m.total_bytes \div m.chunk_count = q
    BY <1>5
  <2> HIDE DEF q, low, high, m, s, j, zeros, e, f
  <2>3. s.average[1] = q /\ j.sizes[2] = q /\ s.sizes # <<>>
    BY <2>1, <2>2
  <2>4. s.sizes # Nothing /\ j.sizes = s.sizes /\ s.average[1] = j.sizes[2]
    BY <2>1, <2>3, Zenon DEF Nothing
  <2> QED
    BY <1>2, <1>4, <1>6, <1>7, <1>8, <1>9, <2>4 DEF ReportsAgree, zeros
<1>11. CASE m.chunk_count = 0
  <2>1. /\ s.sizes = Nothing /\ s.average = Nothing
        /\ j.sizes = <<ReportedMin(m), 0, m.max_chunk_size>>
    BY <1>11 DEF Summary, Json
  <2>2. j.sizes = <<0, 0, 0>>
    BY <1>5, <1>11, <2>1
  <2> HIDE DEF m, s, j, zeros, e, f
  <2> QED
    BY <1>2, <1>4, <1>6, <1>7, <1>8, <1>9, <2>1, <2>2 DEF ReportsAgree, zeros
<1> QED
  BY <1>5, <1>10, <1>11

(* No other action makes a report. *)
LEMMA ReportKept ==
  ASSUME ReportsAgree, [Next]_vars, \A d \in Delays : ~ Report(d)
  PROVE  ReportsAgree'
<1>1. report' = report
  <2>1. CASE UNCHANGED vars
    BY <2>1 DEF vars
  <2>2. CASE Next
    BY <2>2 DEF Next, ProcessCommands, GetNothing, GetEnds, GetCommand,
       DispatchClose, Dispatch, AcquireBuffer, ReleaseBuffer, SinkWrite,
       SinkFails, CompleteCommand, CompleteFails, Leave
  <2> QED
    BY <2>1, <2>2
<1> QED
  BY <1>1 DEF ReportsAgree

(* All of it is invariant. *)
CountInv == LoopInv /\ TakenInv /\ TimedInv /\ ReportsAgree

(* The invariant of the counts, in every state. *)
LEMMA CountInvariant == Spec => []CountInv
<1>1. Init => CountInv
  BY LoopInit, TakenInit, TimedInit DEF CountInv, Init, ReportsAgree
<1>2. CountInv /\ [Next]_vars => CountInv'
  <2> SUFFICES ASSUME CountInv, [Next]_vars
               PROVE  CountInv'
    OBVIOUS
  <2>1. LoopInv' /\ TakenInv' /\ TimedInv'
    BY StepLoop, LoopStutter, TakenStep, TimedStep DEF CountInv
  <2>2. ReportsAgree'
    BY ReportsOf, ReportKept, MeteredAssumption DEF CountInv
  <2> QED
    BY <2>1, <2>2 DEF CountInv
<1> QED
  BY <1>1, <1>2, PTL DEF Spec

(* Every write taken is counted once, with the size it had then, whatever    *)
(* became of it, and minimum and maximum are sizes that occurred.            *)
THEOREM EveryWriteCounted == Spec => []TakenIsCounted
<1>1. CountInv => TakenIsCounted
  <2> SUFFICES ASSUME CountInv, pc \in {"get", "report", "idle"}
               PROVE  /\ metrics.total_bytes = Sum(taken)
                      /\ metrics.sum_chunk_sizes = Sum(taken)
                      /\ metrics.chunk_count = Len(taken)
                      /\ \A n \in Range(taken) : /\ metrics.min_chunk_size <= n
                                                 /\ n <= metrics.max_chunk_size
                      /\ taken # <<>> =>
                           {metrics.min_chunk_size, metrics.max_chunk_size}
                             \subseteq Range(taken)
    BY DEF TakenIsCounted
  <2>1. Counted(metrics, taken) /\ taken \in Seq(Nat)
    BY DEF CountInv, TakenInv, Pending, LoopInv, TypeOK
  <2>2. Sum(taken) = SumOf(taken)
    BY DEF Sum, SumOf
  <2>3. /\ metrics.total_bytes = SumOf(taken)
        /\ metrics.sum_chunk_sizes = SumOf(taken)
        /\ metrics.chunk_count = Len(taken)
    BY <2>1 DEF Counted, TotalsOf
  <2>4. \A n \in Range(taken) : /\ metrics.min_chunk_size <= n
                                /\ n <= metrics.max_chunk_size
    BY <2>1 DEF Counted, TotalsOf, Range
  <2>5. taken # <<>> => {metrics.min_chunk_size, metrics.max_chunk_size}
                          \subseteq Range(taken)
    BY <2>1 DEF Counted, TotalsOf, Range
  <2> QED
    BY <2>2, <2>3, <2>4, <2>5, Zenon
<1> QED
  BY CountInvariant, <1>1, PTL

(* At 50, 95 and 99, which the reports print, percentile() is the nearest-   *)
(* rank percentile of every stage, although it computes the rank in doubles: *)
(* for every number of records up to PRECISION / 150.                        *)
THEOREM PercentilesCorrect == Spec => []PercentilesAreNearestRank
<1>1. ASSUME CountInv, metrics.timings # <<>>,
             NEW f \in StageFields, NEW p \in Percents
      PROVE  IsNearestRank(Percentile(StageValues(metrics, f), p),
                           StageValues(metrics, f), p)
  <2> DEFINE v == StageValues(metrics, f)
  <2>1. metrics \in MetricsType /\ Few(Len(metrics.timings))
    BY <1>1, TimingsIndexed DEF CountInv, LoopInv, TypeOK
  <2>2. Len(metrics.timings) # 0
    BY <1>1, <2>1 DEF MetricsType
  <2>3. v \in Seq(Nat) /\ Few(Len(v)) /\ Len(v) # 0
    BY <2>1, <2>2, StageTyped
  <2> HIDE DEF v
  <2>4. v # <<>>
    BY <2>3
  <2> QED
    BY <2>3, <2>4, NearestRank DEF v
<1>2. CountInv => PercentilesAreNearestRank
  BY <1>1, Zenon DEF PercentilesAreNearestRank
<1> QED
  BY CountInvariant, <1>2, PTL

(* The summary and the JSON report tell the same, also of a session without  *)
(* chunks, and their percentiles are in order.                               *)
THEOREM ReportsTellTheSame == Spec => []ReportsAgree
<1>1. CountInv => ReportsAgree
  BY DEF CountInv
<1> QED
  BY CountInvariant, <1>1, PTL

=============================================================================
