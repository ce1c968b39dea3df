------------------------ MODULE StallDetectorProofs ------------------------
(***************************************************************************)
(* Proofs about StallDetector, for every window, timeout, sink delay and   *)
(* starting time.                                                          *)
(***************************************************************************)
EXTENDS StallDetector, TLAPS

(* The window that is open began no earlier than the last warning. *)
WindowInv == lastWarning <= last_stall_warn_us_

(* Of a loop that starts late enough and with no bytes from an earlier one:  *)
(* check_stall() never finds a byte count it did not know, and without a     *)
(* warning since the last progress the window began before that progress.   *)
InStep ==
  /\ last_stall_warn_us_ > 0
  /\ stage = "get" => total_bytes = last_bytes_total_
  /\ ~warned => last_stall_warn_us_ <= lastProgress

FreshInv == fresh => InStep

(* The numbers of the state, apart from its stage and its Boolean. *)
Times ==
  /\ now \in Nat
  /\ total_bytes \in Nat /\ last_bytes_total_ \in Nat
  /\ last_stall_warn_us_ \in Nat /\ last_stall_warn_us_ <= now
  /\ lastProgress \in Nat /\ lastProgress <= now
  /\ lastWarning \in Nat /\ lastWarning <= now

(* What is a window after an instant is a window after any earlier one. *)
LEMMA LongerSince ==
  ASSUME NEW t \in Nat, NEW a \in Nat, NEW b \in Nat, NEW w \in Nat,
         a <= b, t - b >= w
  PROVE  t - a >= w
OBVIOUS

(* The part of the type invariant that is about times. *)
LEMMA TypeGivesTimes == TypeOK => Times
BY Zenon DEF TypeOK, Times

(* The clock never goes back, and the detector's times and counters keep     *)
(* their ranges.                                                             *)
LEMMA TimesStep ==
  ASSUME Times, Next
  PROVE  Times' /\ now' >= now
<1>1. ASSUME NEW d \in 0 .. CommandTimeout, TakeWrite(d)
      PROVE  Times' /\ now' >= now
  BY <1>1, StallAssumption DEF Times, TakeWrite
<1>2. ASSUME NEW d \in 0 .. CommandTimeout, TakeOther(d)
      PROVE  Times' /\ now' >= now
  BY <1>2, StallAssumption DEF Times, TakeOther
<1>3. ASSUME NEW d \in SinkDelays, SinkWrite(d)
      PROVE  Times' /\ now' >= now
  BY <1>3, StallAssumption DEF Times, SinkWrite
<1>4. ASSUME Timeout PROVE Times' /\ now' >= now
  <2>1. now' \in Nat /\ now' >= now
    BY <1>4, StallAssumption DEF Times, Timeout
  <2> QED
    BY <1>4, <2>1 DEF Times, Timeout, CheckUnset, CheckEarly, CheckWarns,
       CheckProgressed, Quiet
<1> QED
  BY <1>1, <1>2, <1>3, <1>4 DEF Next

(* The detector's times and counters keep their ranges, and none of its      *)
(* times is in the future.                                                   *)
THEOREM StallTypes == Spec => []TypeOK
<1>1. Init => TypeOK
  <2> SUFFICES ASSUME Init PROVE TypeOK
    OBVIOUS
  <2>1. Times
    BY StallAssumption DEF Init, Times
  <2>2. stage \in {"get", "sink"} /\ warned \in BOOLEAN /\ fresh \in BOOLEAN
    BY Zenon DEF Init
  <2> QED
    BY <2>1, <2>2, Zenon DEF TypeOK, Times
<1>2. TypeOK /\ [Next]_vars => TypeOK'
  <2>1. ASSUME TypeOK, Next PROVE TypeOK'
    <3>1. Times'
      BY <2>1, TypeGivesTimes, TimesStep
    <3>2. stage' \in {"get", "sink"}
      BY <2>1, Zenon DEF TypeOK, Next, TakeWrite, TakeOther, SinkWrite, Timeout
    <3>3. warned' \in BOOLEAN /\ fresh' \in BOOLEAN
      BY <2>1, Zenon DEF TypeOK, Next, TakeWrite, TakeOther, SinkWrite, Timeout,
         CheckUnset, CheckEarly, CheckWarns, CheckProgressed, Quiet
    <3> QED
      BY <3>1, <3>2, <3>3, Zenon DEF TypeOK, Times
  <2>2. TypeOK /\ UNCHANGED vars => TypeOK'
    BY DEF TypeOK, vars
  <2> QED
    BY <2>1, <2>2
<1> QED
  BY <1>1, <1>2, PTL DEF Spec

(* The invariant of the window, in every state. *)
LEMMA WindowInvariant == Spec => []WindowInv
<1>1. Init => WindowInv
  BY StallAssumption DEF Init, WindowInv
<1>2. TypeOK /\ WindowInv /\ [Next]_vars => WindowInv'
  <2> SUFFICES ASSUME Times, WindowInv, [Next]_vars PROVE WindowInv'
    BY TypeGivesTimes
  <2>1. CASE Timeout
    <3>1. now' \in Nat /\ now' >= now
      BY <2>1, StallAssumption DEF Times, Timeout
    <3> QED
      BY <2>1, <3>1 DEF Times, WindowInv, Timeout, CheckUnset, CheckEarly,
         CheckWarns, CheckProgressed, Quiet
  <2>2. CASE UNCHANGED <<last_stall_warn_us_, lastWarning>>
    BY <2>2 DEF WindowInv
  <2> QED
    BY <2>1, <2>2 DEF Next, TakeWrite, TakeOther, SinkWrite, vars
<1> QED
  BY <1>1, <1>2, StallTypes, PTL DEF Spec

(* Two warnings are a window apart, for every order of progress, timeouts    *)
(* and other commands, and even when the detector starts unset.              *)
THEOREM WarningsAreSpaced == Spec => WarningsSpaced
<1>1. TypeOK /\ WindowInv /\ [Next]_vars =>
        [lastWarning' # lastWarning =>
           lastWarning' - lastWarning >= STALL_WARN]_vars
  <2> SUFFICES ASSUME Times, WindowInv, [Next]_vars,
                      lastWarning' # lastWarning
               PROVE  lastWarning' - lastWarning >= STALL_WARN
    BY TypeGivesTimes
  <2>1. Timeout /\ CheckWarns
    BY DEF Next, TakeWrite, TakeOther, SinkWrite, Timeout, CheckUnset,
       CheckEarly, CheckProgressed, Quiet, vars
  <2>2. now' \in Nat
    BY <2>1, StallAssumption DEF Times, Timeout
  <2>3. now' - last_stall_warn_us_ >= STALL_WARN /\ lastWarning' = now'
    BY <2>1 DEF CheckWarns, WindowOver
  <2> QED
    BY <2>2, <2>3, StallAssumption, LongerSince DEF Times, WindowInv
<1> QED
  BY <1>1, StallTypes, WindowInvariant, PTL DEF Spec, WarningsSpaced

(* On the first process_commands() of a client, started after the timer's   *)
(* epoch, no stall that a GetCommand timeout ends goes without a warning.    *)
THEOREM StallsAreWarned == Spec => StallIsWarned
<1>1. Init => FreshInv
  <2> SUFFICES ASSUME Init, fresh PROVE InStep
    BY DEF FreshInv
  <2>1. now \in Nat /\ now > 0 /\ total_bytes = 0
    BY StallAssumption DEF Init
  <2> QED
    BY <2>1 DEF Init, InStep
<1>2. TypeOK /\ FreshInv /\ [Next]_vars => FreshInv'
  <2> SUFFICES ASSUME Times, FreshInv, [Next]_vars, fresh' PROVE InStep'
    BY TypeGivesTimes DEF FreshInv
  <2> InStep
    BY Zenon DEF FreshInv, Next, vars
  <2>1. ASSUME NEW d \in 0 .. CommandTimeout, TakeWrite(d) PROVE InStep'
    BY <2>1, StallAssumption DEF Times, InStep, TakeWrite
  <2>2. ASSUME NEW d \in 0 .. CommandTimeout, TakeOther(d) PROVE InStep'
    BY <2>2 DEF InStep, TakeOther
  <2>3. ASSUME NEW d \in SinkDelays, SinkWrite(d) PROVE InStep'
    BY <2>3 DEF InStep, SinkWrite
  <2>4. ASSUME Timeout PROVE InStep'
    <3>1. now' \in Nat /\ now' > 0
      BY <2>4, StallAssumption DEF Times, Timeout
    <3>2. CheckEarly \/ CheckWarns
      BY <2>4 DEF InStep, Timeout, CheckUnset, CheckProgressed
    <3> QED
      BY <2>4, <3>1, <3>2 DEF Times, InStep, Timeout, CheckEarly, CheckWarns,
         Quiet
  <2>5. CASE UNCHANGED vars
    BY <2>5 DEF vars, InStep
  <2> QED
    BY <2>1, <2>2, <2>3, <2>4, <2>5 DEF Next
<1>3. TypeOK /\ FreshInv /\ [Next]_vars =>
        [Timeout /\ fresh /\ now' - lastProgress >= STALL_WARN => warned']_vars
  <2> SUFFICES ASSUME Times, FreshInv, Timeout, fresh,
                      now' - lastProgress >= STALL_WARN, ~warned'
               PROVE  FALSE
    BY TypeGivesTimes
  <2>1. now' \in Nat /\ now' >= now
    BY StallAssumption DEF Times, Timeout
  <2> InStep
    BY DEF FreshInv
  <2>2. CheckEarly /\ ~warned
    BY DEF InStep, Timeout, CheckUnset, CheckEarly, CheckWarns,
       CheckProgressed, Quiet
  <2>3. last_stall_warn_us_ <= lastProgress
    BY <2>2 DEF InStep
  <2>4. now' - last_stall_warn_us_ >= STALL_WARN
    BY <2>1, <2>3, StallAssumption, LongerSince DEF Times
  <2> QED
    BY <2>2, <2>4 DEF CheckEarly, WindowOver
<1> QED
  BY <1>1, <1>2, <1>3, StallTypes, PTL DEF Spec, StallIsWarned

=============================================================================
