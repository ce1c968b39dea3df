--------------------------- MODULE StallDetector ---------------------------
(***************************************************************************)
(* The stall detector of VdiClient (src/vdi_client.cpp): check_stall() and *)
(* the three members it shares with process_commands(), over one call of   *)
(* process_commands().                                                     *)
(*                                                                         *)
(* Time is the timer's, in units of which STALL_WARN and CommandTimeout    *)
(* are multiples.  VdiSession has the rest of the loop; here a step is a   *)
(* call that takes time: GetCommand, which returns a command or times out, *)
(* and the sink's write().                                                 *)
(*                                                                         *)
(* A definition marked "Mutant" is a faulty variant of the one after it.   *)
(* No action uses it: it stands in for that one to test a property.        *)
(***************************************************************************)
EXTENDS Naturals

CONSTANTS
  STALL_WARN,       \* the stall window
  CommandTimeout,   \* what GetCommand waits before VD_E_TIMEOUT
  SinkDelays,       \* how long a write() may take
  StartTimes,       \* the timer when process_commands() starts
  EarlierBytes,     \* bytes of earlier process_commands() calls
  MaxTime,          \* bound: the clock
  MaxBytes          \* bound: the bytes counted

ASSUME StallAssumption ==
  /\ STALL_WARN \in Nat \ {0}
  /\ CommandTimeout \in Nat \ {0}
  /\ SinkDelays \subseteq Nat
  /\ StartTimes \subseteq Nat
  /\ EarlierBytes \subseteq Nat
  /\ MaxTime \in Nat
  /\ MaxBytes \in Nat

VARIABLES
  now,                  \* the timer
  stage,                \* "get" or "sink": the call the loop is in
  total_bytes,          \* Metrics::total_bytes_, in chunks
  last_bytes_total_,
  last_stall_warn_us_,
  lastProgress,         \* history: when total_bytes last changed
  lastWarning,          \* history: when the last warning was logged
  warned,               \* history: was one logged since lastProgress?
  fresh                 \* did the loop start late, with no bytes counted?

vars == <<now, stage, total_bytes, last_bytes_total_, last_stall_warn_us_,
          lastProgress, lastWarning, warned, fresh>>

Init ==
  /\ now \in StartTimes
  /\ stage = "get"
  /\ total_bytes \in EarlierBytes
  /\ last_bytes_total_ = 0
  /\ last_stall_warn_us_ = now
  /\ lastProgress = now
  /\ lastWarning = now
  /\ warned = FALSE
  /\ fresh = (now > 0 /\ total_bytes = 0)

-----------------------------------------------------------------------------
(* GetCommand returns a VDC_Write after d: its bytes are counted at once. *)
TakeWrite(d) ==
  /\ stage = "get"
  /\ stage' = "sink"
  /\ now' = now + d
  /\ total_bytes' = total_bytes + 1
  /\ lastProgress' = now'
  /\ warned' = FALSE
  /\ UNCHANGED <<last_bytes_total_, last_stall_warn_us_, lastWarning>>

(* Any other command, completed without sink work: no byte progress. *)
TakeOther(d) ==
  /\ stage = "get"
  /\ now' = now + d
  /\ UNCHANGED <<stage, total_bytes, last_bytes_total_, last_stall_warn_us_,
                 lastProgress, lastWarning, warned>>

SinkWrite(d) ==
  /\ stage = "sink"
  /\ stage' = "get"
  /\ now' = now + d
  /\ last_bytes_total_' = total_bytes
  /\ UNCHANGED <<total_bytes, last_stall_warn_us_, lastProgress, lastWarning,
                 warned>>

-----------------------------------------------------------------------------
Quiet == UNCHANGED <<lastWarning, warned>>

(* check_stall() before the first measurement, with last_stall_warn_us_ 0. *)
CheckUnset ==
  /\ last_stall_warn_us_ = 0
  /\ last_stall_warn_us_' = now'
  /\ UNCHANGED last_bytes_total_
  /\ Quiet

\* Mutant: > instead of >=.
WindowOverLate ==
  last_stall_warn_us_ # 0 /\ now' - last_stall_warn_us_ > STALL_WARN
WindowOver ==
  last_stall_warn_us_ # 0 /\ now' - last_stall_warn_us_ >= STALL_WARN

CheckEarly ==
  /\ last_stall_warn_us_ # 0
  /\ ~WindowOver
  /\ UNCHANGED <<last_bytes_total_, last_stall_warn_us_>>
  /\ Quiet

\* Mutant: the member is set to the next deadline.
CheckWarnsAhead ==
  /\ WindowOver
  /\ total_bytes = last_bytes_total_
  /\ last_stall_warn_us_' = now' + STALL_WARN
  /\ lastWarning' = now'
  /\ warned' = TRUE
  /\ UNCHANGED last_bytes_total_

\* Mutant: the warning does not start a new window.
CheckWarnsAgain ==
  /\ WindowOver
  /\ total_bytes = last_bytes_total_
  /\ lastWarning' = now'
  /\ warned' = TRUE
  /\ UNCHANGED <<last_bytes_total_, last_stall_warn_us_>>

CheckWarns ==
  /\ WindowOver
  /\ total_bytes = last_bytes_total_
  /\ last_stall_warn_us_' = now'
  /\ lastWarning' = now'
  /\ warned' = TRUE
  /\ UNCHANGED last_bytes_total_

CheckProgressed ==
  /\ WindowOver
  /\ total_bytes # last_bytes_total_
  /\ last_bytes_total_' = total_bytes
  /\ last_stall_warn_us_' = now'
  /\ Quiet

(* GetCommand returns VD_E_TIMEOUT: check_stall() with the time it returned. *)
Timeout ==
  /\ stage = "get"
  /\ now' = now + CommandTimeout
  /\ CheckUnset \/ CheckEarly \/ CheckWarns \/ CheckProgressed
  /\ UNCHANGED <<stage, total_bytes, lastProgress>>

Next ==
  /\ \/ \E d \in 0 .. CommandTimeout : TakeWrite(d) \/ TakeOther(d)
     \/ \E d \in SinkDelays : SinkWrite(d)
     \/ Timeout
  /\ now' <= MaxTime
  /\ total_bytes' <= MaxBytes
  /\ UNCHANGED fresh

Spec == Init /\ [][Next]_vars

-----------------------------------------------------------------------------
(* The values the state may take; the times kept are never in the future. *)
TypeOK ==
  /\ now \in Nat
  /\ stage \in {"get", "sink"}
  /\ total_bytes \in Nat
  /\ last_bytes_total_ \in Nat
  /\ last_stall_warn_us_ \in Nat /\ last_stall_warn_us_ <= now
  /\ lastProgress \in Nat /\ lastProgress <= now
  /\ lastWarning \in Nat /\ lastWarning <= now
  /\ warned \in BOOLEAN
  /\ fresh \in BOOLEAN

(* A stall is not missed: at a GetCommand timeout that ends a whole window   *)
(* without byte progress, a warning has been logged since that progress,     *)
(* although warnings and progress move the two members of the detector in    *)
(* any order.  A loop that starts at timer value 0, or with bytes counted by  *)
(* an earlier call, may miss one.                                            *)
StallIsWarned ==
  [][Timeout /\ fresh /\ now' - lastProgress >= STALL_WARN => warned']_vars

(* Warnings do not flood the log: two of them are a window apart, and the    *)
(* first comes a window after the loop started.                              *)
WarningsSpaced ==
  [][lastWarning' # lastWarning => lastWarning' - lastWarning >= STALL_WARN]_vars

(* What the repository says of the detector and the code does not do. *)

(* A warning means that no byte progress was made within the window. *)
WarningMeansStall ==
  [][lastWarning' # lastWarning => now' - lastProgress >= STALL_WARN]_vars

=============================================================================
