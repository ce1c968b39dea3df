# A verification project for vdi-cpp-wrapper

The repository is a client of SQL Server's Virtual Device Interface (VDI). A
program, `vdi_wrapper`, creates a virtual device set, waits for a
`BACKUP DATABASE ... TO VIRTUAL_DEVICE`, takes the commands SQL Server sends on
the device, stores the chunks of `VDC_Write` in a sink, and completes each
command. This directory holds TLA+ models of that code, the TLC runs that check
them and TLAPS proofs about them. Paths in this file are relative to the
repository's root.

## 1. The system

| Component | Source | State | Operations |
|---|---|---|---|
| Sink, NullSink | `include/sink.h` | none | `write`, `flush`, `is_open` |
| FileSink | `src/file_sink.cpp` | file handle, 1 MB write buffer, its fill level | constructor, `write`, `flush`, `flush_buffer`, destructor |
| VdiClient | `src/vdi_client.cpp` | session state, device set, close guard, device count, stall and buffer counters | `connect`, `open_devices`, `process_commands`, `close`, destructor |
| Dispatch, validation | `src/vdi_protocol.cpp` | none | `dispatch_command`, `validate_write_command` |
| Stall detector | `VdiClient::check_stall` | start of the window, last byte count | run after each `VD_E_TIMEOUT` of GetCommand |
| ComRuntime | `src/com_runtime.cpp` | whether it has to uninitialise COM | constructor, destructor |
| FaultInjector | `include/fault_injector.h` | limit, counter, single-shot flag | `set_fail_after_n_chunks`, `on_chunk_completed`, ... |
| Metrics | `src/metrics.cpp` | byte, chunk, size and buffer counters; vector of timings | `add_bytes`, `record_*`, two reports |
| BufferPool | `src/buffer_pool.cpp` | queue of free buffers | `acquire`, `release` under a mutex |
| Timers | `include/timer.h` | epoch or tick frequency | `now_us` |
| Program | `src/main.cpp` | which sink, which mode, its place, its exit code | `main`, `launch_sqlcmd` |
| Python client | `benchmarks/python/py_vdi_client.py` | device set, device, metrics, pool | the same protocol, for comparison |
| Scripts | `scripts/*.ps1` | none | start the program and BACKUP, read the report |
| Environment, logging, error texts, GUIDs, `vdi_real.h` | | none | reporting, declarations |

**Interactions.** `main()` calls the client's methods one after the other on one
thread. The client owns the sink, the metrics, the pool and the injector and
calls them directly; it calls COM for the device set and the devices. SQL Server
is the other process: it posts commands to each device, waits for their
completion, ends a device (GetCommand then reports `VD_E_CLOSE`) or aborts. No
second thread runs in the program, so what interleaves is the program, at every
call that returns to or waits for SQL Server, with SQL Server and with the
operator who issues BACKUP and presses Enter.

**What is hard.** The order of flush, release of devices and close over some ten
exits of one loop; failures in the middle of a chunk, when bytes are stored and
not yet acknowledged, or counted and not yet stored; commands of several devices
served by one thread; timeouts that race a late command; bytes acknowledged while
they are only in a buffer; a detector whose two variables are moved by different
events; clock readings around calls that may leave the loop, on a counter whose
product overflows; percentiles and extrema at their boundaries. `PROJECT.json` lists these hazards at their lines.

**What makes each part correct.** FileSink: every byte accepted reaches the file
once and in order, and `flush()` makes it durable. Client: no command is
answered twice or on another device and none is passed over, the device set is closed and released once, the loop uses no
released interface, the metrics agree with what was acknowledged. Metrics: each
chunk taken is counted once, no stage counts the time of another, the two reports
agree. BufferPool: no buffer in two places, none lost. Stall detector:
no stall is missed, warnings do not flood. Program: a backup that ended well is
on the disk, all of it, the program returns, and exit code 1 means that nothing was
taken.

## 2. The modules

| Module | Models | Lines up with the code |
|---|---|---|
| `DurableLog` | the promise of `Sink::write` and `Sink::flush`, up to the first byte that the medium loses | abstract: `log`, `durable`, `intact` |
| `FileSink` | `src/file_sink.cpp` | one action per path of `write` (`WriteUnusable`, `WriteDirect`, `WriteSpill`, `WriteCopy`), `Flush`, `Destroy`; `Init` is the constructor with either allocation failing |
| `VdiSession` | `VdiClient` without time, with dispatch, validation, ComRuntime and the injector | a method that returns at once is one action; `process_commands()` is cut at each call to a device or to the sink, with `pc` naming the next one, and after the loop at each `Release` of a device (`ReleaseDevice`) and at `close()` (`PostLoop`, `CloseAfterLoop`); the owner's calls to the injector are actions between them |
| `StallDetector` | `check_stall` and the members it shares with the loop, over time | one disjunct of `Timeout` per branch of `check_stall` |
| `VdiBackup` | a run of the program | instantiates `VdiSession` as `Client` and `FileSink` as `Sink`, adds `main()` (`mpc`) with its arguments (`use_file_sink`, `auto_mode`), the NullSink, the launch of sqlcmd, the operator's Enter, and an external SQL Server (`queue`, `ended`, `server`) |
| `Metrics` | `src/metrics.cpp`, `include/timer.h`, `include/chunk_timing.h` | operators: a `Metrics` object is a record, a method maps it to the next one; `Summary` and `Json` are the reports, `QPCTimerNow` has the 64-bit product |
| `BufferPool` | `src/buffer_pool.cpp` | one action per outcome of `acquire()` and for `release()`, for any set of callers: each holds the mutex throughout |
| `MeteredLoop` | what `process_commands()` measures | one action per call that takes time; instantiates `BufferPool`, applies `Metrics` to the variable `metrics` |
| `PyVdiClient` | the Python benchmark: `PyVdiClient`, its `Metrics` and pool, and `main()` of `run_py_benchmark.py` | one action per call of `main()` and per outcome; `Raise` is an exception, `Finally` and `Del` are the two ways to `close()` |
| `MCVdiSession`, `MCVdiBackup`, `MCMeteredLoop`, `MCPyVdiClient` | the command sets for TLC | |
| `FileSinkProofs`, `VdiSessionProofs`, `StallDetectorProofs`, `BufferPoolProofs`, `MeteredLoopProofs`, `PyVdiClientProofs` | theorems | one module of proofs for each component |
| `VdiBackupProofs` | theorems about the composition | instantiates `VdiSessionProofs` and `FileSinkProofs`, so that what they prove can be used |
| `ChunkTotals` | lemmas | sum, minimum and maximum of the chunk sizes, as both clients keep them |

In `VdiBackup` each step of the loop is the client's step conjoined with the sink
call it makes and with what SQL Server has to offer: `TakeEnd` is
`Client!GetEnd` with a flush of the sink, once the device has ended and its queue is empty,
`SinkWrite` pairs `Client!WriteStored` with a `write()` that returned true and
`Client!WriteFails` with one that returned false. `close()` is two steps, the flush of the
sink (`MainClose`, `PostLoop`) and the close and release of the device set (`MainCloseSet`,
`CloseAfterLoop`), so that the order of flush, device releases and close is the order of steps
and the properties about it read the state before each. Sink calls go to the FileSink or,
when `use_file_sink` is FALSE, to the NullSink, which takes every byte and keeps
none; what the properties say about the file is then not asked.

`VdiSession` and `MeteredLoop` cut the same loop for different questions: the first
has the COM objects and the session state and no time, the second has the clock and
what is measured with it and treats every failure of a call alike. They are not
composed: no property relates a time to a COM object.

**Data.** A byte is its position in the stream offered to `write()`: a lost,
repeated or reordered byte is then visible in `file`, and no content is needed.
A command is its code, its size and whether it has a buffer. HRESULTs are
represented by the branch they select. Counts of references to COM objects are
kept by the models, because COM keeps them; `dropped`, `refused`, `owed`, `pending`, `completed`,
`acked`, `clean`, `taken`, `others`, `first`, `lastProgress`, `lastWarning`, `warned` and `fresh` are history
that the code does not keep. `owed` counts for each device the commands taken less the
completions, whatever the command: a second completion, one on another device and one that is
passed over each show in it. `pending` is the command taken last until it is completed, so that
what is left unanswered is known after the loop has dropped it.

**Disk faults.** `WriteFile` puts any prefix of the bytes in the file and
`FlushFileBuffers` may do nothing, when `DiskFaults` is TRUE. A byte is durable
(`synced`) only after `FlushFileBuffers`; the operating system's own write-back
is not assumed. `DurableLog` promises nothing from the first lost byte on: `Break`
there is the failure of `write` or of a drain, and `intact` in the mapping is
"nothing was dropped or refused yet".

**Time.** `MeteredLoop` counts ticks of the hardware counter; a call takes any
number of ticks in `Delays`. The QPC timer multiplies them by a million modulo 2^64
(`UINT64` values, `MICRO`, `FREQ` ticks in a second); steady_clock does not wrap.
SQL Server may change the size in a command once it has it back, so the size that a
timing records is the old one or one of `ReusedSizes`. The 64-bit totals of
`Metrics` are not modelled as wrapping: they are bytes of one backup.

**Percentiles.** `Rank` is `std::ceil(p / 100.0 * n)` with both roundings to a double, to
nearest and ties to even: `Ratio` rounds `p / 100.0`, `Product` rounds the product to the
distance of doubles of its magnitude. The unit is the distance of doubles in [1/2, 1), in which
`p / 100.0` lies for 50, 95 and 99, the percents of both reports (`Percents`). `PRECISION` is the
number of units in one: 2^53 in the code, 2^13 in the run, which leaves the same remainder
modulo 100, so the three percents are rounded in the same directions. For other percents
the doubles do miss the nearest rank (34 of 150 values); no caller passes them.

**External.** SQL Server and COM are modelled by what the client relies on:
commands of a device come in order; an ended device reports `VD_E_CLOSE` when its
queue is empty; after an abort, GetCommand fails and no completion is accepted. SQL
Server never has to do anything: it may stay silent for ever.

**Mutants.** A definition commented `\* Mutant: ...` is a faulty variant of the
definition after it (a dropped guard, a missing flush, a `>` for a `>=`). No action
uses it. `PROJECT.json` says which property each of them breaks.

## 3. The runs

| Run | Module | Checks | Bounds |
|---|---|---|---|
| `file_sink_faults` | FileSink | `BufferFits`, `InOrder`, `Conserved`, `ImplementsDurableLog` on a faulty disk | capacity 3, chunks of 1 to 4, 11 bytes offered |
| `session` | MCVdiSession | `SetClosedOnce`, `LoopHoldsObjects`, `SingleDeviceReleased`, `AnsweredOnce`, `MetricsAgree`, `InjectedInTime`, `LegalTransitions` | 0 to 3 devices, 3 commands, injector at 0, 1, 2 completions, COM initialised before or not |
| `stall` | StallDetector | `StallIsWarned`, `WarningsSpaced` | window 4, timeout 2, sink delays 0, 1, 5, clock to 16 |
| `backup` | MCVdiBackup | `CleanEndIsDurable`, `CleanEndIsDrained`, `ExitReleasesAll`, `ExitCodeTells`, `DevicesBeforeSet` on a working disk, either sink, either mode | 1 device, writes of 1, 2, 3 and an oversized one, flush, close; 4 commands |
| `backup_two_devices` | MCVdiBackup | `AckedIsStored`, `FlushedBeforeRelease`, and under `FairSpec` `BackupEndReturns`, `PostedIsServed`, `OpenReturns`, on a faulty disk | 2 devices, 2 commands |
| `metered_loop` | MCMeteredLoop | `TimingsFit`, `TakenIsCounted`, `PoolNeverDry`, `PercentilesAreNearestRank`, `ReportsAgree`, `ClockMonotone` | either timer, calls of 0 and 2 ticks, 6 ticks in all, 3 commands, a pool of 2 buffers, a word of 16 values |
| `py_client` | MCPyVdiClient | `ScriptReleasesAll`, `ComOutlivesInterfaces`, `ComBalanced`, `ReportOfChunks`, `PoolConserved` | 4 commands of sizes 0, 1, 2; a pool of 2 buffers; three kinds of COM apartment |
| `silent_loss`, `flush_not_durable`, `devices_leaked`, `com_uninitialised`, `stall_false_alarm` | | see section 6 | the smallest that show the behaviour |

Every run with a type invariant also checks `TypeOK`. Deadlock is not checked:
sinks are destroyed, clients are destroyed, the program exits, the clock ends.

**Why the bounds are enough.** A write buffer of capacity 3 with chunks of 1 to 4
has every case of `write()`: a chunk that fits with room, fits exactly, does not
fit, equals the capacity, exceeds it; eleven bytes are more than three fillings of the buffer,
so each path follows each other one and a flush. In `session`, three devices are
enough for "the first, one in the middle, the last", three completions pass the
injector's limits of 1 and 2 and let it be re-armed, and the command set has one
command for each branch of dispatch and of validation (sizes 0, 1, the limit, one
above it, no buffer), VDC_Close among them. In `backup`, four commands fill the buffer, spill it, write
directly and flush in one behaviour; in `backup_two_devices` two commands spill it or
write directly, and stand on either device or on both. In `py_client` four chunks
go twice around the pool, and the first, a smaller, a larger and an empty one
occur in each order. In `metered_loop` the product overflows at the last tick, so
the properties are checked up to the horizon and on both sides of it; three commands
are two chunks of different size around another command, or a VDC_Close and a second
`process_commands()` after it, and percentiles are taken of up to three values:
50 of two is a rank that is exact, 95 and 99 of three one that a rounding up past the integer
would take out of the vector. What larger vectors do is left to the proof, for all of them up to
the limit it names. In `stall` the window is two timeouts and the
clock holds three windows, so warnings follow progress and each other in every
order. Every bound is a named constant (`MaxBytes`, `MaxCommands`, `MaxPosted`,
`MaxTime`, `MaxTicks`) in a guard; the proofs do not depend on them.

**Fairness.** `FairSpec` is weak fairness of the program's own steps taken
together (`MainStep \/ LoopStep`). The program is one thread with nothing else to
wait for: a step that stays possible is the next thing it does. GetConfiguration
and GetCommand are always possible because each returns on its timeout (60 s and
`command_timeout_ms_`), which is why `FiniteTimeout` is TRUE in that run.
The prompt for Enter is a step of the operator (`MainPrompt`), of whom nothing is
assumed: the liveness properties hold up to that prompt and from it on, and it is the
one place where the program can wait without end. In mode `--auto` it is reached only when
sqlcmd cannot be launched. Nothing is assumed of SQL Server either, so
`BackupEndReturns` starts from its end or abort.

**The Python client** waits for commands without a timeout and is checked for safety
only. Its 64 buffers are 2 in the run; `UINT64_MAX`, where the minimum starts, is
9, above every size.

**The fault injector** is compiled in only with `FAULT_INJECTION_ENABLED`; the
default build is `FailAfter = {}`. `process_commands()` asks it
`on_chunk_completed()` only. The calls that an owner makes of it (`SetFailAfter`,
`SetFailNextCommand`, `ShouldFail`, `Reset`) come between calls of the client, on
the one thread there is.

## 4. What is proved

TLAPS checks every theorem for all values of the constants under the named
assumptions (`SinkAssumption`, `SessionAssumption`, `StallAssumption`, `MetricsAssumption`,
`MeteredAssumption`, `BackupAssumption`, `PyAssumption`): counts, sizes and delays are
naturals; the buffer's capacity, the word and the frequency are positive; there is at
least one device (`main()` asks for one) and, in the Python client, one buffer; a
size is at most `UINT64_MAX`, where the C++ minimum starts (it is a DWORD,
`include/sqlvdi.h:87`), and below it in the Python client; fewer commands are taken
than a `size_t` can count, the timings being elements of a vector. Of the doubles they
say that `PRECISION` is a power of two (each of its divisors is 1 or even) that leaves 92
modulo 100, as 2^53 does, and that 150 times the number of commands is within it: 6 * 10^13
commands in the code. TLC evaluates them on every run.

*FileSink.* `SinkTypes`, `BufferNeverOverflows`, `BytesInOrder`, `BytesConserved`,
`StreamIntact`: the invariants of `file_sink_faults` and `Intact`, which the
refinement of that run implies, for every capacity, set
of chunk sizes and disk. The file being increasing is not inductive alone: a run
appended to it must start above its last element, so the invariant also says that
the buffer holds the *last* `Len(buffered)` bytes offered and everything in the
file is below them. `AppendRun` is the lemma that this is kept. With it, the drain
before a direct write is what keeps order: without it the new bytes would come
before the buffered ones.
`SinkImplementsLog`: the specification of `FileSink` implements that of
`DurableLog`, on any disk. While nothing is lost the mapping is
`log <- file \o buffered`, `durable <- synced`: `write` is `Put`, `flush` is
`Harden`, the destructor and a flush that did not reach the disk are stuttering steps.
The step that drops or refuses the first byte is `Break`, after which every step
stutters.

*VdiSession.* `IInv` is `Core`, the conjunction of six named parts with `TypeOK`, and `OwedInv`:
`StateInv` (what the session state may be at each place of the loop), `SetInv`
(the sets made are the one held and the one closed), `DeviceInv` (the devices of
the vector are among those held), `CommandInv` (the command in hand is the one
pending, and outside the loop of a session that did not fail only a VDC_Close may be),
`MetricInv` (bytes counted are those acknowledged plus the write that was counted and is not
completed, also in a failed session), `FaultInv` (the counter is below the
limit while the session is active), `OwedInv` (in the loop the device that is served is owed one
answer while a command is in hand, and no other device any; after it, one may be owed for a
VDC_Close or in a failed session). `CoreStep` does without `OwedInv`, and `OwedStep` stands on
`Core`: only the vector of counts needs the lemmas about sequences. The properties are not inductive one by one:
that close() happens once needs the close guard tied to the state and to the
pointer, and that the metrics agree at GetCommand needs what they are in between.
From `IInv` follow `TypeCorrect`, `ClosedOnce`, `ObjectsHeld`, `Answered`,
`MetricsCorrect`, `InjectionInTime` and `TransitionsLegal`. `OneDeviceReleased`
adds `OneDeviceInv`: with at most one device the vector holds every interface there
is, so a failed OpenDevice forgets none.

*StallDetector.* `WarningsAreSpaced` from `WindowInv` (the open window began no
earlier than the last warning), `StallsAreWarned` from `FreshInv` (on a fresh
loop, check_stall never finds a byte count it did not know, and without a warning
since the last progress the window began before that progress), `StallTypes`.

*BufferPool.* `PoolIsSound`: `BuffersConserved` for any number of buffers and any
set of callers. It is inductive with the types; `TailElements` and `AppendElement`
say what `acquire()` and `release()` do to the set of elements of the queue.

*MeteredLoop.* `LoopTypes`; `PoolStaysWet` from the pool's invariant and from where
the loop holds a buffer; `ClockIsMonotone` from the arithmetic of the two timers (below
the horizon the product does not wrap, and division is monotone); and
`TimingsAreDisjoint`, for which the invariant says in addition where the durations
taken so far lie: they add up to no more than the time since `gc_start`, which is not
before the end of the last timing. The horizon is downward closed along the clock, so
earlier readings in the vector did not wrap either.

What is reported is the last part of that module. `std::sort` of a copy is modelled by where
it puts each value: `Place` counts the values that are smaller, or equal and before it.
`Places` shows that the places are the positions, each taken once and in the order of the
values: two positions with one place would be one position, and a one-to-one map of a finite
set into itself leaves nothing out. `SortedValues` is then that the result is in order and
`CountUpTo` how many values lie at or below an element of it; with the arithmetic of
the rank these give `NearestRank`, and `PercentilesCorrect` at 50, 95 and 99 for every number of records
that the assumption admits. What has to be shown of the rank is that its two roundings change nothing. 95/100 and 99/100 are
rounded down and 50/100 is exact (`RatioRoundedDown`, from the remainder of `PRECISION`), so the
product is not above the true one, and rounding it cannot carry it over an integer, which is a
double itself (`NearestBelow`). Downwards, both errors together are less than the hundredth by
which a true product that is not an integer exceeds the integer below it (`UnitFits`,
`RankInRange`); this is where 150 times the number of records must be within `PRECISION`.
`TimedInv` bounds the vector by the commands taken, so that the index does not wrap.
`EveryWriteCounted` comes from `TakenInv`: a write is taken before it is counted, and
between the two the metrics tell of all the writes but the last. `ReportsTellTheSame`
uses it when a report is made: without chunks the minimum is still `UINT64_MAX`, with one it
is a size that occurred.

*ChunkTotals.* The property sums a sequence by a fold of the community modules, which takes
the elements in no particular order; that the sum of a longer sequence is the sum of the
shorter and the new size is an induction over sets of positions. The theorems of induction take
an operator as a parameter and cannot be used; the least-number principle (`Least`) says the
same of a set and can: `SumsExist` and `SumsExtend` take the smallest counterexample.

*VdiBackup.* Every step of the program is proved to be a step of the client that
`VdiSession` allows, or to leave it alone (`ClientStep`), and likewise a step of
`FileSink` or none (`SinkStep`). `VdiSessionProofs` and `FileSinkProofs` therefore state
their inductive steps for a component without a bound on what it is offered (`Step`), and
`Base` joins both invariants with the types of what the composition adds. It follows that the
program implements the client (`ClientRefined`) and that what was proved of each component
alone holds of it in the program (`ClientCorrect`, `SinkCorrect`). On `Base` rest the
invariants that relate the components:

- `MainInv`: which session state goes with each place of `main()`. For `NothingLeftBehind`.
- `ExitInv`: while the exit code is 1, or before the loop, nothing was served; and what is
  left to do after a clean end. For `ExitCodeHonest`.
- `StoreInv`: bytes acknowledged and refused are at most those offered, and while the
  session is active the bytes offered are those acknowledged plus the chunk in hand, which
  there is only between the sink and the completion (`NoChunkHeld`). For
  `AcknowledgedIsStored`.
- `DurableInv`, on a working disk: nothing dropped or refused, what is synced is in the
  file, and from a clean end on the buffer is empty and the file is synced. For
  `CleanEndDurable`, with `StoreInv`: that all of it is there is the one's, that it is on the
  disk the other's.
- `DrainInv`: the commands posted are those completed, in hand and queued. For
  `CleanEndDrained`.
- `FlushInv`: a session that leaves the loop without having failed has an empty buffer, and so
  has `close()` when it comes to the device set. For `FlushedFirst`.

`BackupTypes` needs `Base` only, and `DevicesReleasedFirst` a lemma about which steps
close the set (`OnlyClosingReleases`): each of them finds the vector of devices empty, and with
one device the vector holds all there is. Three hypotheses appear in these theorems, each where the property is false
without it: `NDevices = 1` (`main()` passes 1; with more, a failed OpenDevice leaks the devices
before it, run `devices_leaked`, and the end of one device ends the session);
`~DiskFaults` (run `silent_loss`); `NoCloseCommand`, that SQL Server sends no
VDC_Close (section 6). The runs of these properties are configured in the same way.

*PyVdiClient.* `IInv` has three parts: `ComInv` (a pointer is one reference, COM is one
deeper between `__init__` and `__del__`, which pointers each place of `main()` may hold; the
properties about release and COM follow), `Tells` (the metrics tell of the chunks
processed, by the lemmas of `ChunkTotals`) and `PoolInv` (the pool is a queue of all buffers
that every chunk turns by one; that none is there twice follows from its length).
`ScriptTypes`, `EverythingReleased`, `ComHeldLast`, `ComAsFound`, `ReportIsOfChunks`,
`PoolIsConserved`: all that `py_client` checks.

**Only model-checked.** `BackupEndReturns`, `PostedIsServed` and `OpenReturns`, the
liveness properties of `VdiBackup`: they rest on fairness, which the prover does not
handle. Every invariant and every action property that passes a run is a theorem, under the
hypotheses above. The runs of section 6 are counterexamples on small instances.

## 5. What is not modelled

- Of the reports: throughput and CPU load, the wording, the JSON text. `print_summary()`
  divides by the elapsed seconds without the guard that `to_json()` has.
- `release()` of a pointer that was not acquired: the pool does not look at it, and
  the client never makes the call.
- Data races on `Metrics`: its counters are atomic and one thread uses them.
- The PowerShell scripts: they start the program, wait, and read its report.
- Of the Python client: latencies, their histogram and percentiles, the printed
  text, exceptions that ctypes raises for an access violation, and Ctrl-C. That
  GetCommand may succeed and leave `pp_cmd` as it was (the variable outlives the
  iteration, unlike the C++ one) is not assumed of it.
- The non-Windows branches of `connect()` and `open_devices()` leave
  `device_set_` null; the loop then returns at once. They are stubs.
- Environment report, logging, error texts, GUIDs, `include/vdi_real.h` (generated):
  no control depends on them.
- Memory exhaustion and C++ exceptions: the code handles neither.
- A call that a method rejects for the session's state changes nothing; it is a
  stuttering step.

## 6. Where documents and code part

Five runs expect a violation; each checks a sentence of the repository.

| Run | Claim | What the code does |
|---|---|---|
| `silent_loss` | `README.md:234`: write failures fail the session, "preventing silent data loss" | `flush_buffer()` (`src/file_sink.cpp:100`) ignores the result of WriteFile and empties the buffer; the session ends CLOSED without bytes it acknowledged |
| `flush_not_durable` | `docs/vdi-flow.md:38`: VDC_Flush "Ensure data durability" | the command is completed without a flush of the sink |
| `devices_leaked` | `docs/operational-behavior.md:138`: device interfaces "Released exactly once" | when a later OpenDevice fails, the method returns (`src/vdi_client.cpp:240`) and forgets the devices already opened |
| `com_uninitialised` | `README.md:223`: "flush -> device release -> COM uninit in ordered sequence" | ComRuntime is a local of `connect()`: COM is uninitialised before the set is used |
| `stall_false_alarm` | `README.md:231`: "Logs warnings when no byte progress is made within a 60-second window" | progress does not restart the window, so the first timeout after a window warns however recent the progress |

VDC_Close is a sixth. `docs/vdi-flow.md:41` lists it as a command, and line 59 says "Each
command must be completed exactly once"; the loop breaks on it before CompleteCommand
(`src/vdi_client.cpp:321-324`) and leaves it uncompleted, in a session that is STREAMING and has
not failed. `include/sqlvdi.h:69-73` calls the code a sentinel that SQL Server never delivers,
so the two documents disagree as well. `EveryCommandAnswered` of `VdiSession` is the claim; as an
INVARIANT in place of the ones of `session.cfg` TLC refutes it, with a behaviour that opens one
device, takes one VDC_Close and returns. `AnsweredOnce`, which the run does check, counts
VDC_Close like every command and names it as one of the two that may stay unanswered when
`process_commands()` returns; the other is the command over which the session failed, which
the code does not complete with an error either.

Others, visible in the models and read from the code, have no run of their own:
`main()` returns 0 after a failed `process_commands()` (`exit_code` in
`VdiBackup`; `ExitCodeTells` therefore says what 1 means and not what 0 does), which `scripts/run_cpp_benchmark.ps1:91` reports as success; VDC_Close
leaves the loop without a flush before the release of the devices, against
`docs/operational-behavior.md:79-89` (`FlushedBeforeRelease` is therefore run on
the commands of a backup, without VDC_Close); with two devices the end of the first ends
the session while commands of the second wait (`CleanEndIsDrained` is run with
one, and TLC refutes it with two); a timed-out GetConfiguration is final, against
`docs/operational-behavior.md:194`; an injected failure leaves the session FAILED and
not CLOSED, against line 281 there; a GetCommand that keeps timing out is retried for
ever, against `README.md:228-230`; a sink that blocks is not seen by the stall
detector, against `docs/operational-behavior.md:179`; `set_fail_next_command()` says
"Fail the very next command" (`include/fault_injector.h:42`) and no command fails,
because the client never asks `should_fail()`; `Timer::now_us()` "must be
monotonically non-decreasing within a session" (`include/timer.h:26`), which the product
of `QPCTimer` keeps for some 21 days at 10 MHz (`ClockMonotone` is checked up to
there; `main()` uses the other timer); "each chunk" has a ChunkTiming
(`include/chunk_timing.h:6`), and so has every completed flush; the JSON report holds
"environment metadata" (`include/metrics.h:63`) nowhere; its markers are
logged with `LOG_INFO`, which prefixes the line and prints nothing in the build for
benchmarks, so that `scripts/run_repeatability_check.ps1:123` finds no report.

The Python client calls itself a mirror of the C++ one
(`benchmarks/python/py_vdi_client.py:3`). It differs where `PyVdiClient` shows it:
it goes on after a failed CompleteCommand, accepts chunks of any size,
does not tell the end of the backup from a failure (`hr` is signed and `VD_E_CLOSE`
is not, line 597) and returns 0 for both, and uninitialises COM even when it could
not initialise it; on the other hand it keeps COM initialised while it holds the
device set, which the C++ client does not.

## 7. Plan

1. *Done*: `FileSink` with `DurableLog` under disk faults, `VdiSession` with the whole
   injector, `VdiBackup` with both sinks and both modes, `StallDetector`,
   `Metrics`, `BufferPool` and `MeteredLoop`, `PyVdiClient`; their runs; a theorem for each
   invariant and action property of a passing run.
2. Proofs: what `DevicesReleasedFirst` and `NothingLeftBehind` say of more devices when
   no OpenDevice fails; `SinkImplementsLog` and `AckedIsStored` joined into one
   specification of the program, the backup as a log that SQL Server appends to.
3. `Repeatability`: script, sqlcmd, wrapper and the operator's Enter as processes.
