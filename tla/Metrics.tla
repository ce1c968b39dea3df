------------------------------- MODULE Metrics -------------------------------
(***************************************************************************)
(* Metrics (src/metrics.cpp) and the timers it owns (include/timer.h): the *)
(* clock that process_commands() reads, the counters it updates and the    *)
(* two reports made from them.                                             *)
(*                                                                         *)
(* A Metrics object is a record and a method maps it to the object after   *)
(* the call; MeteredLoop has the calls.  A report keeps the figures that   *)
(* the counters determine, and the elapsed time: throughput and CPU load,  *)
(* which are formatted from the latter, are left out.                      *)
(*                                                                         *)
(* A definition marked "Mutant" is a faulty variant of the one after it.   *)
(***************************************************************************)
EXTENDS Integers, Sequences, FiniteSets, Functions

CONSTANTS
  UINT64,   \* number of values of a uint64_t, and of a size_t
  FREQ,     \* ticks of the hardware counter in a second
  MICRO,    \* microseconds in a second
  PRECISION \* 2 ^ (bits of the significand of a double): 2^53

ASSUME MetricsAssumption ==
  /\ UINT64 \in Nat \ {0}
  /\ FREQ \in Nat \ {0}
  /\ MICRO \in Nat \ {0}
  /\ PRECISION \in Nat \ {0}
  /\ \A u \in 1 .. PRECISION : PRECISION % u = 0 => u = 1 \/ u % 2 = 0
  /\ PRECISION % 100 = 92

UINT64_MAX == UINT64 - 1

-----------------------------------------------------------------------------
(* The timers, read when the hardware counter is at c; start is where it was *)
(* when the timer was constructed.  steady_clock counts nanoseconds, which   *)
(* do not overflow; the product of QPCTimer does.                            *)

ChronoTimerNow(start, c) == ((c - start) * MICRO) \div FREQ

\* Mutant: start_ is not subtracted.
QPCTimerNowAbsolute(start, c) == ((c * MICRO) % UINT64) \div FREQ

QPCTimerNow(start, c) == (((c - start) * MICRO) % UINT64) \div FREQ

(* now_us() of the timer that create_timer(mode) made. *)
NowUs(mode, start, c) ==
  IF mode = "QPC" THEN QPCTimerNow(start, c) ELSE ChronoTimerNow(start, c)

\* Mutant: a signed difference.
SinceSigned(from, to) == to - from

(* The difference of two readings is one of unsigned integers. *)
Since(from, to) == (to - from) % UINT64

-----------------------------------------------------------------------------
(* The counters. *)

NewMetrics ==
  [total_bytes |-> 0, chunk_count |-> 0,
   min_chunk_size |-> UINT64_MAX, max_chunk_size |-> 0, sum_chunk_sizes |-> 0,
   acquires |-> 0, releases |-> 0, hits |-> 0, misses |-> 0,
   timings |-> <<>>]

AddBytes(m, n) ==
  [m EXCEPT !.total_bytes = @ + n, !.chunk_count = @ + 1]

\* Mutant: a chunk that lowers the minimum is not tried as the maximum.
RecordChunkSizeElse(m, n) ==
  [m EXCEPT !.min_chunk_size = IF n < @ THEN n ELSE @,
            !.max_chunk_size = IF n > @ /\ n >= m.min_chunk_size THEN n ELSE @,
            !.sum_chunk_sizes = @ + n]

RecordChunkSize(m, n) ==
  [m EXCEPT !.min_chunk_size = IF n < @ THEN n ELSE @,
            !.max_chunk_size = IF n > @ THEN n ELSE @,
            !.sum_chunk_sizes = @ + n]

RecordBufferAcquire(m, success) ==
  [m EXCEPT !.acquires = @ + 1,
            !.hits = IF success THEN @ + 1 ELSE @,
            !.misses = IF success THEN @ ELSE @ + 1]

RecordBufferRelease(m) == [m EXCEPT !.releases = @ + 1]

RecordChunkTiming(m, timing) == [m EXCEPT !.timings = Append(@, timing)]

-----------------------------------------------------------------------------
(* The reports. *)

StageFields ==
  {"getcommand_us", "dispatch_us", "sink_us", "complete_us", "total_us"}

StageValues(m, field) == [i \in DOMAIN m.timings |-> m.timings[i][field]]

(* The integer nearest to a / b, the even one of two: what rounding keeps of *)
(* an exact result a, when doubles of its magnitude are b apart.             *)
Nearest(a, b) ==
  LET q == a \div b
      rest == a % b
      up == 2 * rest > b \/ (2 * rest = b /\ q % 2 = 1)
  IN IF up THEN q + 1 ELSE q

(* p / 100.0, for a percent from 50 up: its double lies in [1/2, 1), where   *)
(* they are 1 / PRECISION apart.  This is the unit of what follows.          *)
Ratio(p) == Nearest(p * PRECISION, 100)

(* The distances, from one unit up, of doubles of some magnitude ... *)
Units == {u \in 1 .. PRECISION : PRECISION % u = 0}

(* ... and of those where a is, which PRECISION of them reach beyond. *)
Unit(a) ==
  CHOOSE u \in Units :
    a < PRECISION * u /\ \A v \in Units : a < PRECISION * v => u <= v

(* p / 100.0 * static_cast<double>(n) *)
Product(p, n) ==
  LET a == Ratio(p) * n
  IN Nearest(a, Unit(a)) * Unit(a)

\* Mutant: std::floor.
RankDown(p, n) == Product(p, n) \div PRECISION

(* std::ceil() of it. *)
Rank(p, n) == (Product(p, n) + (PRECISION - 1)) \div PRECISION

(* The place of values[i] once they are sorted, equal values in their order. *)
Place(values, i) ==
  Cardinality({j \in DOMAIN values :
                 values[j] < values[i] \/ (values[j] = values[i] /\ j <= i)})

(* std::sort() of a copy. *)
Sorted(values) ==
  [k \in DOMAIN values |->
     values[CHOOSE i \in DOMAIN values : Place(values, i) = k]]

Percents == {50, 95, 99}

(* percentile(): the index is unsigned, and clamped to the last element. *)
Percentile(values, p) ==
  LET n == Len(values)
      idx == (Rank(p, n) - 1) % UINT64
  IN IF n = 0
       THEN 0
       ELSE Sorted(values)[IF idx >= n THEN n ELSE idx + 1]

Latencies(m) ==
  [field \in StageFields |->
     [p \in Percents |-> Percentile(StageValues(m, field), p)]]

(* The minimum of no chunks is UINT64_MAX and reported as 0. *)
ReportedMin(m) ==
  IF m.min_chunk_size = UINT64_MAX THEN 0 ELSE m.min_chunk_size

PoolCounts(m) ==
  [acquires |-> m.acquires, releases |-> m.releases, hits |-> m.hits,
   misses |-> m.misses]

Nothing == <<>>

(* print_summary(), elapsed units after the object was constructed. *)
Summary(m, elapsed) ==
  [total_bytes |-> m.total_bytes,
   chunk_count |-> m.chunk_count,
   elapsed |-> elapsed,
   sizes |-> IF m.chunk_count > 0
               THEN <<ReportedMin(m), m.sum_chunk_sizes \div m.chunk_count,
                      m.max_chunk_size>>
               ELSE Nothing,
   average |-> IF m.chunk_count > 0
                 THEN <<m.total_bytes \div m.chunk_count>>
                 ELSE Nothing,
   stages |-> IF m.timings # <<>> THEN Latencies(m) ELSE Nothing,
   pool |-> PoolCounts(m)]

\* Mutant: the minimum is reported as it is.
JsonRawMin(m, elapsed) ==
  [total_bytes |-> m.total_bytes, chunk_count |-> m.chunk_count,
   elapsed |-> elapsed,
   sizes |-> <<m.min_chunk_size,
               IF m.chunk_count > 0
                 THEN m.sum_chunk_sizes \div m.chunk_count ELSE 0,
               m.max_chunk_size>>,
   stages |-> Latencies(m), pool |-> PoolCounts(m)]

(* to_json() *)
Json(m, elapsed) ==
  [total_bytes |-> m.total_bytes,
   chunk_count |-> m.chunk_count,
   elapsed |-> elapsed,
   sizes |-> <<ReportedMin(m),
               IF m.chunk_count > 0
                 THEN m.sum_chunk_sizes \div m.chunk_count ELSE 0,
               m.max_chunk_size>>,
   stages |-> Latencies(m),
   pool |-> PoolCounts(m)]

=============================================================================
