-------------------------- MODULE VdiSessionProofs --------------------------
(***************************************************************************)
(* Proofs about VdiSession, for every set of commands, device counts and   *)
(* limits.  All of its safety properties follow from one inductive         *)
(* invariant, IInv, whose parts tie the program counter to the session     *)
(* state, the objects held, the command in hand and the metrics.           *)
(***************************************************************************)
EXTENDS VdiSession, TLAPS

InRun == InLoop \/ pc \in {"OpenDevice", "leave", "close"}

(* process_commands() runs in a streaming session; it ends streaming,       *)
(* flushing or failed, and closes nothing before its last step.             *)
StateInv ==
  /\ InLoop \/ pc = "OpenDevice" => state_ = "STREAMING"
  /\ pc = "leave" => state_ \in {"STREAMING", "FLUSHING", "FAILED"}
  /\ pc = "close" => state_ = "FLUSHING"
  /\ state_ = "FLUSHING" => pc \in {"leave", "close"}
  /\ state_ = "INIT" => setsMade = 0

(* The sets made are the one held and the one closed. *)
SetInv ==
  /\ setsMade = setCloses + setRefs
  /\ setsMade <= 1
  /\ device_set_ <=> setRefs = 1
  /\ InRun => device_set_
  /\ state_ = "CLOSED" => ~device_set_
  /\ devices_closed_ <=> state_ = "CLOSED"

(* The devices in the vector are among those held. *)
DeviceInv ==
  /\ opened <= deviceRefs
  /\ InLoop => dev \in 1 .. opened
  /\ ~InRun \/ pc = "close" => opened = 0

Active == state_ \notin {"FAILED", "CLOSED"}

Holding == pc \in {"dispatch", "write", "complete"}

(* The command in hand is the one pending; outside the loop of a session     *)
(* that did not fail only a VDC_Close may be.                                *)
CommandInv ==
  /\ cmd \in IF Holding THEN Commands ELSE {NoCommand}
  /\ InLoop => pending = cmd
  /\ pc = "OpenDevice" => pending = NoCommand
  /\ pc = "write" => cmd.code = "VDC_Write"
  /\ Active /\ ~InLoop => pending.code \in {"none", "VDC_Close"}

(* The bytes counted are those acknowledged and those of the write pending. *)
Unacked ==
  IF pending.code = "VDC_Write" /\ pc \notin {"dispatch", "write"}
    THEN pending.size ELSE 0

MetricInv ==
  /\ total_bytes = acked + Unacked
  /\ timings = completed \/ (timings = completed - 1 /\ ~Active)

FaultInv == Active /\ fail_after > 0 => chunk_counter < fail_after

Core ==
  /\ TypeOK
  /\ StateInv
  /\ SetInv
  /\ DeviceInv
  /\ CommandInv
  /\ MetricInv
  /\ FaultInv

(* Within the loop exactly the device that is served is owed an answer, and  *)
(* only for a command in hand; after it, one may be for the reasons named.   *)
OwedInv ==
  /\ pc = "OpenDevice" \/ InLoop =>
       /\ Len(owed) = opened
       /\ \A d \in DOMAIN owed : owed[d] = IF Holding /\ d = dev THEN 1 ELSE 0
  /\ ~InLoop => \A d \in DOMAIN owed :
                  /\ owed[d] \in {0, 1}
                  /\ owed[d] = 1 => ~Active \/ pending.code = "VDC_Close"
  /\ state_ = "FLUSHING" => \A d \in DOMAIN owed : owed[d] = 0

IInv == Core /\ OwedInv

-----------------------------------------------------------------------------
(* The initial states satisfy the invariant. *)
LEMMA InitInv == Init => IInv
<1> SUFFICES ASSUME Init PROVE IInv
  OBVIOUS
<1> USE SessionAssumption DEF Init
<1>1. TypeOK
  <2>1. <<>> \in Seq(Int)
    OBVIOUS
  <2> QED
    BY <2>1 DEF TypeOK, States
<1>2. StateInv /\ SetInv /\ DeviceInv
  BY DEF StateInv, SetInv, DeviceInv, InRun, InLoop
<1>3. CommandInv /\ MetricInv /\ FaultInv
  BY DEF CommandInv, MetricInv, FaultInv, InLoop, Active, Holding, Unacked,
         NoCommand
<1>4. OwedInv
  BY DEF OwedInv, InLoop
<1> QED
  BY <1>1, <1>2, <1>3, <1>4 DEF IInv, Core

(* A command, or NoCommand, has a size. *)
LEMMA CommandType ==
  ASSUME NEW c \in Commands \cup {NoCommand}
  PROVE  c.size \in Nat
  BY SessionAssumption DEF NoCommand

(* Counting for one device leaves a count for each of the others. *)
LEMMA OwedUpdate ==
  ASSUME NEW s \in Seq(Int), NEW d, NEW n \in Int
  PROVE  LET t == [s EXCEPT ![d] = @ + n]
         IN /\ t \in Seq(Int) /\ Len(t) = Len(s) /\ DOMAIN t = DOMAIN s
            /\ \A e \in DOMAIN s : t[e] = IF e = d THEN s[e] + n ELSE s[e]
<1> DEFINE t == [s EXCEPT ![d] = @ + n]
<1>1. DOMAIN s = 1 .. Len(s) /\ Len(s) \in Nat /\ \A e \in 1 .. Len(s) : s[e] \in Int
  OBVIOUS
<1>2. DOMAIN t = DOMAIN s
  OBVIOUS
<1>3. \A e \in DOMAIN s : t[e] = IF e = d THEN s[e] + n ELSE s[e]
  OBVIOUS
<1>4. t = [e \in 1 .. Len(s) |-> t[e]]
  BY <1>1
<1> HIDE DEF t
<1>6. t \in [1 .. Len(s) -> Int]
  BY <1>1, <1>3, <1>4
<1>5. t \in Seq(Int) /\ Len(t) = Len(s)
  BY <1>6
<1> QED
  BY <1>2, <1>3, <1>5 DEF t

(* A newly opened device is owed nothing. *)
LEMMA OwedAppend ==
  ASSUME NEW s \in Seq(Int)
  PROVE  /\ Append(s, 0) \in Seq(Int) /\ Len(Append(s, 0)) = Len(s) + 1
         /\ \A e \in DOMAIN Append(s, 0) :
              Append(s, 0)[e] = IF e \in DOMAIN s THEN s[e] ELSE 0
  OBVIOUS

(* The body of close() closes and releases the set that is held, if any. *)
LEMMA CloseSessionSet ==
  ASSUME TypeOK, SetInv, CloseSession
  PROVE  /\ setRefs' = 0 /\ setCloses' \in Nat
         /\ setsMade = setCloses'
         /\ device_set_' = FALSE /\ ~device_set_'
         /\ devices_closed_' = TRUE /\ devices_closed_'
         /\ state_' = "CLOSED"
<1>1. CASE device_set_
  BY <1>1 DEF TypeOK, SetInv, CloseSession
<1>2. CASE ~device_set_
  <2>1. setRefs = 0
    BY <1>2 DEF TypeOK, SetInv
  <2> QED
    BY <1>2, <2>1 DEF TypeOK, SetInv, CloseSession
<1> QED
  BY <1>1, <1>2

(* The steps of the client, without the bound on the commands it takes. *)
Step == Operation \/ \E c \in Commands : GetCommand(c)

(* The bound only leaves steps out. *)
LEMMA NextIsStep == [Next]_sessionVars => [Step]_sessionVars
  BY DEF Next, Step

(* Every step keeps all parts of the invariant but the count for devices. *)
LEMMA CoreStep == Core /\ [Step]_sessionVars => Core'
<1> SUFFICES ASSUME Core, [Step]_sessionVars PROVE Core'
  OBVIOUS
<1> USE SessionAssumption, CommandType
<1> USE DEF Core, TypeOK, StateInv, SetInv, DeviceInv, CommandInv, MetricInv,
            FaultInv, InRun, InLoop, Active, Holding, Unacked, States,
            clientVars, faultVars, metricVars, loopVars, comVars, setVars,
            historyVars
<1>1. ASSUME NEW n \in DeviceCounts,
             ConnectNoCom(n) \/ ConnectNoSet(n) \/ Connect(n)
      PROVE  Core'
  <2> USE DEF Connecting, ComRuntimeScope
  <2>1. CASE ConnectNoCom(n)
    BY <2>1 DEF ConnectNoCom
  <2>2. CASE ConnectNoSet(n)
    BY <2>2 DEF ConnectNoSet
  <2>3. CASE Connect(n)
    BY <2>3 DEF Connect
  <2> QED
    BY <1>1, <2>1, <2>2, <2>3
<1>2. CASE OpenDevices \/ OpenDevicesTimeout \/ OpenDevicesFails
  <2>11. TypeOK'
    BY <1>2 DEF OpenDevices, OpenDevicesTimeout, OpenDevicesFails, Configuring
  <2>12. StateInv'
    BY <1>2 DEF OpenDevices, OpenDevicesTimeout, OpenDevicesFails, Configuring
  <2>13. SetInv'
    BY <1>2 DEF OpenDevices, OpenDevicesTimeout, OpenDevicesFails, Configuring
  <2>14. DeviceInv'
    BY <1>2 DEF OpenDevices, OpenDevicesTimeout, OpenDevicesFails, Configuring
  <2>15. CommandInv'
    BY <1>2 DEF OpenDevices, OpenDevicesTimeout, OpenDevicesFails, Configuring
  <2>16. MetricInv'
    BY <1>2 DEF OpenDevices, OpenDevicesTimeout, OpenDevicesFails, Configuring
  <2>17. FaultInv'
    BY <1>2 DEF OpenDevices, OpenDevicesTimeout, OpenDevicesFails, Configuring
  <2> QED
    BY <2>11, <2>12, <2>13, <2>14, <2>15, <2>16, <2>17
<1>3. CASE Close
  <2>1. /\ setRefs' = 0 /\ setCloses' \in Nat /\ setsMade' = setCloses'
        /\ setsMade' = setsMade /\ device_set_' = FALSE
        /\ devices_closed_' = TRUE /\ state_' = "CLOSED" /\ pc' = "idle"
    BY <1>3, CloseSessionSet DEF Close
  <2>2. SetInv'
    BY <2>1
  <2> QED
    BY <1>3, <2>1, <2>2 DEF Close
<1>18. CASE Destroy
  <2>1. CASE state_ \notin {"CLOSED", "INIT"} /\ ~devices_closed_
    <3>1. /\ setRefs' = 0 /\ setCloses' \in Nat /\ setsMade' = setCloses'
          /\ setsMade' = setsMade /\ device_set_' = FALSE
          /\ devices_closed_' = TRUE /\ state_' = "CLOSED"
          /\ pc' = "destroyed"
      BY <1>18, <2>1, CloseSessionSet DEF Destroy
    <3>2. SetInv'
      BY <3>1
    <3> QED
      BY <1>18, <2>1, <3>1, <3>2 DEF Destroy
  <2>2. CASE ~(state_ \notin {"CLOSED", "INIT"} /\ ~devices_closed_)
    BY <1>18, <2>2 DEF Destroy
  <2> QED
    BY <2>1, <2>2
<1>4. ASSUME NEW n \in FailAfter, SetFailAfter(n) PROVE Core'
  BY <1>4 DEF SetFailAfter, InjectorCall
<1>19. CASE SetFailNextCommand \/ ShouldFail \/ Reset
  <2>1. CASE SetFailNextCommand
    BY <2>1 DEF SetFailNextCommand, InjectorCall
  <2>2. CASE ShouldFail
    BY <2>2 DEF ShouldFail, InjectorCall
  <2>3. CASE Reset
    BY <2>3 DEF Reset, InjectorCall
  <2> QED
    BY <1>19, <2>1, <2>2, <2>3
<1>5. CASE ProcessCommands
  <2>1. owed' \in Seq(Int) /\ pending' = NoCommand
    BY <1>5 DEF ProcessCommands
  <2>11. TypeOK'
    BY <1>5, <2>1 DEF ProcessCommands, NoCommand
  <2>12. StateInv'
    BY <1>5, <2>1 DEF ProcessCommands, NoCommand
  <2>13. SetInv'
    BY <1>5, <2>1 DEF ProcessCommands, NoCommand
  <2>14. DeviceInv'
    BY <1>5, <2>1 DEF ProcessCommands, NoCommand
  <2>15. CommandInv'
    BY <1>5, <2>1 DEF ProcessCommands, NoCommand
  <2>16. MetricInv'
    BY <1>5, <2>1 DEF ProcessCommands, NoCommand
  <2>17. FaultInv'
    BY <1>5, <2>1 DEF ProcessCommands, NoCommand
  <2> QED
    BY <2>11, <2>12, <2>13, <2>14, <2>15, <2>16, <2>17
<1>6. CASE OpenDevice
  <2>1. owed' \in Seq(Int)
    BY <1>6, OwedAppend DEF OpenDevice
  <2> QED
    BY <1>6, <2>1 DEF OpenDevice, DeviceTarget
<1>7. CASE OpenDeviceFails
  BY <1>7 DEF OpenDeviceFails
<1>8. CASE GetEnd \/ GetFails
  <2>11. TypeOK'
    BY <1>8 DEF GetEnd, GetFails, Break, NoCommand
  <2>12. StateInv'
    BY <1>8 DEF GetEnd, GetFails, Break, NoCommand
  <2>13. SetInv'
    BY <1>8 DEF GetEnd, GetFails, Break, NoCommand
  <2>14. DeviceInv'
    BY <1>8 DEF GetEnd, GetFails, Break, NoCommand
  <2>15. CommandInv'
    BY <1>8 DEF GetEnd, GetFails, Break, NoCommand
  <2>16. MetricInv'
    BY <1>8 DEF GetEnd, GetFails, Break, NoCommand
  <2>17. FaultInv'
    BY <1>8 DEF GetEnd, GetFails, Break, NoCommand
  <2> QED
    BY <2>11, <2>12, <2>13, <2>14, <2>15, <2>16, <2>17
<1>9. CASE GetNothing
  BY <1>9 DEF GetNothing, NextDevice
<1>10. ASSUME NEW c \in Commands, GetCommand(c) PROVE Core'
  <2>1. owed' \in Seq(Int)
    <3>1. owed' = [owed EXCEPT ![dev] = @ + 1]
      BY <1>10 DEF GetCommand
    <3> QED
      BY <3>1, OwedUpdate, 1 \in Int
  <2>11. TypeOK'
    BY <1>10, <2>1 DEF GetCommand, NoCommand
  <2>12. StateInv'
    BY <1>10, <2>1 DEF GetCommand, NoCommand
  <2>13. SetInv'
    BY <1>10, <2>1 DEF GetCommand, NoCommand
  <2>14. DeviceInv'
    BY <1>10, <2>1 DEF GetCommand, NoCommand
  <2>15. CommandInv'
    BY <1>10, <2>1 DEF GetCommand, NoCommand
  <2>16. MetricInv'
    BY <1>10, <2>1 DEF GetCommand, NoCommand
  <2>17. FaultInv'
    BY <1>10, <2>1 DEF GetCommand, NoCommand
  <2> QED
    BY <2>11, <2>12, <2>13, <2>14, <2>15, <2>16, <2>17
<1>11. CASE Dispatch
  <2>1. CASE cmd.code = "VDC_Close"
    BY <1>11, <2>1 DEF Dispatch, Break
  <2>2. CASE cmd.code # "VDC_Close"
    <3>1. CASE cmd.code = "VDC_Write"
      BY <1>11, <2>2, <3>1 DEF Dispatch
    <3>2. CASE cmd.code # "VDC_Write"
      <4>1. TypeOK'
        BY <1>11, <2>2, <3>2 DEF Dispatch
      <4>2. StateInv'
        BY <1>11, <2>2, <3>2 DEF Dispatch
      <4>3. SetInv'
        <5>1. UNCHANGED <<setVars, device_set_, devices_closed_, state_>>
          BY <1>11, <2>2 DEF Dispatch
        <5>2. InRun' => InRun
          BY <1>11, <2>2 DEF Dispatch
        <5> QED
          BY <5>1, <5>2
      <4>4. DeviceInv'
        BY <1>11, <2>2, <3>2 DEF Dispatch
      <4>5. CommandInv'
        BY <1>11, <2>2, <3>2 DEF Dispatch
      <4>6. MetricInv'
        BY <1>11, <2>2, <3>2 DEF Dispatch
      <4>7. FaultInv'
        BY <1>11, <2>2, <3>2 DEF Dispatch
      <4> QED
        BY <4>1, <4>2, <4>3, <4>4, <4>5, <4>6, <4>7
    <3> QED
      BY <3>1, <3>2
  <2> QED
    BY <2>1, <2>2
<1>12. CASE WriteInvalid \/ WriteFails
  <2>1. Writing /\ Break("FAILED")
    BY <1>12 DEF WriteInvalid, WriteFails
  <2>11. TypeOK'
    BY <2>1 DEF Writing, Break
  <2>12. StateInv'
    BY <2>1 DEF Writing, Break
  <2>13. SetInv'
    BY <2>1 DEF Writing, Break
  <2>14. DeviceInv'
    BY <2>1 DEF Writing, Break
  <2>15. CommandInv'
    BY <2>1 DEF Writing, Break
  <2>16. MetricInv'
    BY <2>1 DEF Writing, Break
  <2>17. FaultInv'
    BY <2>1 DEF Writing, Break
  <2> QED
    BY <2>11, <2>12, <2>13, <2>14, <2>15, <2>16, <2>17
<1>13. CASE WriteStored
  BY <1>13 DEF WriteStored, Writing, Break
<1>14. CASE CompleteFails
  BY <1>14 DEF CompleteFails, Break
<1>15. CASE CompleteCommand
  <2>1. owed' \in Seq(Int) /\ pending' = NoCommand
    <3>1. owed' = [owed EXCEPT ![dev] = @ + (-1)]
      BY <1>15 DEF CompleteCommand, Completing
    <3>2. owed' \in Seq(Int)
      BY <3>1, OwedUpdate, -1 \in Int
    <3>3. pending' = NoCommand
      BY <1>15 DEF CompleteCommand, Completing
    <3> QED
      BY <3>2, <3>3
  <2>2. acked' \in Nat /\ acked' = total_bytes
    BY <1>15 DEF CompleteCommand, Completing
  <2>5. chunk_counter' \in Nat
    BY <1>15 DEF CompleteCommand, Completing, Counted
  <2>3. CASE Injected
    <3>1. /\ pc' = "leave" /\ state_' = "FAILED" /\ cmd' = NoCommand
          /\ UNCHANGED <<device_set_, devices_closed_, device_count_, opened,
                         dev, fail_after, fail_next, total_bytes, timings, comVars>>
      BY <1>15, <2>3 DEF CompleteCommand, Completing, Break
    <3>2. completed' \in Nat
      BY <1>15 DEF CompleteCommand, Completing
    <3>11. TypeOK'
      BY <1>15, <2>1, <2>2, <2>5, <3>1, <3>2
    <3>12. StateInv'
      BY <1>15, <2>1, <2>2, <2>5, <3>1, <3>2
    <3>13. SetInv'
      <4>1. UNCHANGED <<setVars, device_set_, devices_closed_>>
        BY <3>1
      <4>2. device_set_ /\ ~devices_closed_
        BY <1>15 DEF CompleteCommand, Completing
      <4> QED
        BY <3>1, <4>1, <4>2
    <3>14. DeviceInv'
      BY <1>15, <2>1, <2>2, <2>5, <3>1, <3>2
    <3>15. CommandInv'
      BY <1>15, <2>1, <2>2, <2>5, <3>1, <3>2
    <3>16. MetricInv'
      BY <1>15, <2>1, <2>2, <3>1, <3>2 DEF CompleteCommand, Completing, NoCommand
    <3>17. FaultInv'
      BY <1>15, <2>1, <2>2, <2>5, <3>1, <3>2
    <3> QED
      BY <3>11, <3>12, <3>13, <3>14, <3>15, <3>16, <3>17
  <2>4. CASE ~Injected
    <3>1. /\ pc' = "GetCommand" /\ cmd' = NoCommand
          /\ UNCHANGED <<clientVars, opened, fail_after, fail_next, total_bytes, comVars>>
      BY <1>15, <2>4 DEF CompleteCommand, Completing
    <3>2. completed' = completed + 1 /\ timings' = timings + 1
      BY <1>15, <2>4 DEF CompleteCommand, Completing
    <3>3. dev' \in 1 .. opened
      <4>1. dev' = NextDevice
        BY <1>15, <2>4 DEF CompleteCommand, Completing
      <4>2. dev \in 1 .. opened /\ opened \in Nat
        BY <1>15 DEF CompleteCommand, Completing
      <4> QED
        BY <4>1, <4>2 DEF NextDevice
    <3>4. fail_after' > 0 => chunk_counter' < fail_after'
      BY <1>15, <2>4 DEF CompleteCommand, Completing, Injected, Counted
    <3>11. TypeOK'
      BY <1>15, <2>1, <2>2, <2>5, <3>1, <3>2, <3>3, <3>4
    <3>12. StateInv'
      <4>1. state_ = "STREAMING" /\ state_' = state_
        BY <1>15, <3>1 DEF CompleteCommand, Completing
      <4> QED
        BY <3>1, <4>1
    <3>13. SetInv'
      BY <1>15, <2>1, <2>2, <2>5, <3>1, <3>2, <3>3, <3>4
    <3>14. DeviceInv'
      BY <1>15, <2>1, <2>2, <2>5, <3>1, <3>2, <3>3, <3>4
    <3>15. CommandInv'
      BY <1>15, <2>1, <2>2, <2>5, <3>1, <3>2, <3>3, <3>4
    <3>16. MetricInv'
      BY <1>15, <2>1, <2>2, <3>1, <3>2 DEF CompleteCommand, Completing, NoCommand
    <3>17. FaultInv'
      BY <1>15, <2>1, <2>2, <2>5, <3>1, <3>2, <3>3, <3>4
    <3> QED
      BY <3>11, <3>12, <3>13, <3>14, <3>15, <3>16, <3>17
  <2> QED
    BY <2>3, <2>4
<1>16. CASE ReleaseDevice
  BY <1>16 DEF ReleaseDevice, Releasing
<1>20. CASE PostLoop
  BY <1>20 DEF PostLoop
<1>21. CASE CloseAfterLoop
  <2>1. /\ setRefs' = 0 /\ setCloses' \in Nat /\ setsMade' = setCloses'
        /\ setsMade' = setsMade /\ device_set_' = FALSE
        /\ devices_closed_' = TRUE /\ state_' = "CLOSED" /\ pc' = "idle"
    BY <1>21, CloseSessionSet DEF CloseAfterLoop
  <2>2. SetInv'
    BY <2>1
  <2> QED
    BY <1>21, <2>1, <2>2 DEF CloseAfterLoop
<1>17. CASE UNCHANGED sessionVars
  BY <1>17 DEF sessionVars
<1> QED
  BY <1>1, <1>2, <1>3, <1>4, <1>5, <1>6, <1>7, <1>8, <1>9, <1>10, <1>11, <1>12,
     <1>13, <1>14, <1>15, <1>16, <1>17, <1>18, <1>19, <1>20, <1>21
     DEF Step, Operation

(* The count for the devices is kept too. *)
LEMMA OwedStep == Core /\ OwedInv /\ [Step]_sessionVars => OwedInv'
<1> SUFFICES ASSUME Core, OwedInv, [Step]_sessionVars PROVE OwedInv'
  OBVIOUS
<1> USE DEF InLoop, Active, Holding
<1>1. owed \in Seq(Int) /\ DOMAIN owed = 1 .. Len(owed)
  BY DEF Core, TypeOK
<1>2. CASE ProcessCommands
  <2>1. /\ owed' = <<>> /\ opened' = 0 /\ pc' = "OpenDevice"
        /\ state_' = "STREAMING"
    BY <1>2 DEF ProcessCommands, clientVars
  <2>2. Len(owed') = 0 /\ DOMAIN owed' = {}
    BY <2>1
  <2> QED
    BY <2>1, <2>2 DEF OwedInv
<1>3. CASE OpenDevice
  <2>1. /\ pc = "OpenDevice" /\ state_' = state_ /\ state_ = "STREAMING"
        /\ owed' = Append(owed, 0) /\ opened' = opened + 1
        /\ pc' \in {"OpenDevice", "GetCommand"}
    BY <1>3 DEF OpenDevice, clientVars, Core, StateInv
  <2>2. Len(owed) = opened /\ \A d \in DOMAIN owed : owed[d] = 0
    BY <2>1 DEF OwedInv
  <2>3. Len(owed') = opened' /\ \A d \in DOMAIN owed' : owed'[d] = 0
    BY <1>1, <2>1, <2>2, OwedAppend
  <2> QED
    BY <2>1, <2>3 DEF OwedInv
<1>4. ASSUME NEW c \in Commands, GetCommand(c)
      PROVE  OwedInv'
  <2>1. /\ pc = "GetCommand" /\ pc' = "dispatch" /\ state_' = state_
        /\ state_ = "STREAMING" /\ dev' = dev /\ opened' = opened
        /\ owed' = [owed EXCEPT ![dev] = @ + 1]
    BY <1>4 DEF GetCommand, clientVars, Core, StateInv
  <2>2. Len(owed) = opened /\ \A d \in DOMAIN owed : owed[d] = 0
    BY <2>1 DEF OwedInv
  <2>3. /\ Len(owed') = opened' /\ DOMAIN owed' = DOMAIN owed
        /\ \A d \in DOMAIN owed : owed'[d] = IF d = dev THEN 1 ELSE 0
    BY <1>1, <2>1, <2>2, OwedUpdate, 1 \in Int
  <2> QED
    BY <2>1, <2>3 DEF OwedInv
<1>5. CASE CompleteCommand
  <2>1. /\ pc = "complete" /\ pc' \in {"GetCommand", "leave"} /\ opened' = opened
        /\ state_ = "STREAMING" /\ state_' # "FLUSHING"
        /\ owed' = [owed EXCEPT ![dev] = @ + (-1)]
    BY <1>1, <1>5 DEF CompleteCommand, Completing, Break, clientVars, Core, StateInv
  <2>2. /\ Len(owed) = opened
        /\ \A d \in DOMAIN owed : owed[d] = IF d = dev THEN 1 ELSE 0
    BY <2>1 DEF OwedInv
  <2>3. /\ Len(owed') = opened' /\ DOMAIN owed' = DOMAIN owed
        /\ \A d \in DOMAIN owed : owed'[d] = 0
    BY <1>1, <2>1, <2>2, OwedUpdate, -1 \in Int
  <2> QED
    BY <2>1, <2>3 DEF OwedInv
<1>6. CASE GetNothing
  <2>1. /\ pc = "GetCommand" /\ pc' = pc /\ state_' = state_ /\ opened' = opened
        /\ owed' = owed /\ state_ = "STREAMING"
    BY <1>6 DEF GetNothing, clientVars, historyVars, Core, StateInv
  <2> QED
    BY <2>1 DEF OwedInv
<1>7. CASE \/ GetEnd \/ GetFails \/ Dispatch \/ WriteInvalid \/ WriteFails
           \/ WriteStored \/ CompleteFails
  <2>1. /\ InLoop /\ state_ = "STREAMING" /\ UNCHANGED <<owed, pending, opened, dev>>
    BY <1>7 DEF GetEnd, GetFails, Dispatch, WriteInvalid, WriteFails, WriteStored,
                Writing, CompleteFails, Break, historyVars, Core, StateInv
  <2>2. \/ Holding /\ Holding' /\ state_' = state_
        \/ pc' = "leave" /\ state_' = "FAILED"
        \/ pc' = "leave" /\ state_' = "FLUSHING" /\ pc = "GetCommand"
        \/ pc' = "leave" /\ state_' = state_ /\ cmd.code = "VDC_Close"
    BY <1>7 DEF GetEnd, GetFails, Dispatch, WriteInvalid, WriteFails, WriteStored,
                Writing, CompleteFails, Break, clientVars
  <2>3. pending = cmd
    BY <2>1 DEF Core, CommandInv
  <2>4. /\ Len(owed) = opened
        /\ \A d \in DOMAIN owed : owed[d] = IF Holding /\ d = dev THEN 1 ELSE 0
    BY <2>1 DEF OwedInv
  <2> QED
    BY <2>1, <2>2, <2>3, <2>4 DEF OwedInv
<1>8. CASE \/ OpenDeviceFails \/ ReleaseDevice \/ PostLoop \/ CloseAfterLoop
           \/ OpenDevices \/ OpenDevicesTimeout \/ OpenDevicesFails
           \/ Close \/ Destroy \/ SetFailNextCommand \/ ShouldFail \/ Reset
           \/ \E n \in DeviceCounts : \/ ConnectNoCom(n) \/ ConnectNoSet(n)
                                      \/ Connect(n)
           \/ \E n \in FailAfter : SetFailAfter(n)
  <2>1. /\ ~InLoop /\ ~InLoop' /\ pc' # "OpenDevice" /\ UNCHANGED <<owed, pending>>
        /\ state_' \in {state_, "FAILED", "CLOSED"} \/ ~(state_ \in {"FAILED", "CLOSED"})
        /\ state_' # "FLUSHING" \/ state_' = state_
    <3>1. CASE OpenDeviceFails \/ ReleaseDevice \/ PostLoop \/ CloseAfterLoop
      BY <3>1 DEF OpenDeviceFails, ReleaseDevice, Releasing, PostLoop,
                  CloseAfterLoop, CloseSession, clientVars, historyVars
    <3>2. CASE OpenDevices \/ OpenDevicesTimeout \/ OpenDevicesFails
      BY <3>2 DEF OpenDevices, OpenDevicesTimeout, OpenDevicesFails, Configuring,
                  loopVars, historyVars
    <3>3. CASE Close \/ Destroy
      BY <3>3 DEF Close, Destroy, CloseSession, loopVars, historyVars
    <3>4. CASE \/ SetFailNextCommand \/ ShouldFail \/ Reset
               \/ \E n \in FailAfter : SetFailAfter(n)
      BY <3>4 DEF SetFailNextCommand, ShouldFail, Reset, SetFailAfter,
                  InjectorCall, clientVars, loopVars, historyVars
    <3>5. CASE \E n \in DeviceCounts : ConnectNoCom(n) \/ ConnectNoSet(n) \/ Connect(n)
      BY <3>5 DEF ConnectNoCom, ConnectNoSet, Connect, Connecting, loopVars,
                  historyVars
    <3> QED
      BY <1>8, <3>1, <3>2, <3>3, <3>4, <3>5
  <2>2. ~InLoop => \A d \in DOMAIN owed :
                     /\ owed[d] \in {0, 1}
                     /\ owed[d] = 1 => ~Active \/ pending.code = "VDC_Close"
    BY DEF OwedInv
  <2>3. ~Active => ~Active'
    BY <1>8, <2>1
  <2> QED
    BY <2>1, <2>2, <2>3 DEF OwedInv
<1>9. CASE UNCHANGED sessionVars
  BY <1>9 DEF sessionVars, clientVars, loopVars, historyVars, OwedInv
<1> QED
  BY <1>2, <1>3, <1>4, <1>5, <1>6, <1>7, <1>8, <1>9 DEF Step, Operation

(* Every step keeps the invariant. *)
LEMMA StepInv == IInv /\ [Step]_sessionVars => IInv'
  BY CoreStep, OwedStep DEF IInv

(* So does every step within the bound. *)
LEMMA NextInv == IInv /\ [Next]_sessionVars => IInv'
  BY StepInv, NextIsStep

(* The invariant holds in every reachable state. *)
LEMMA Invariant == Spec => []IInv
  BY InitInv, NextInv, PTL DEF Spec

(* What it says of the session set, the objects, the commands, the metrics   *)
(* and the fault injector.                                                   *)
LEMMA Consequences ==
  IInv => /\ TypeOK
          /\ SetClosedOnce
          /\ LoopHoldsObjects
          /\ AnsweredOnce
          /\ MetricsAgree
          /\ InjectedInTime
<1> SUFFICES ASSUME Core, OwedInv
             PROVE  /\ SetClosedOnce /\ LoopHoldsObjects /\ AnsweredOnce
                    /\ MetricsAgree /\ InjectedInTime
  BY DEF IInv, Core
<1>1. SetClosedOnce
  <2>1. CASE device_set_
    BY <2>1 DEF Core, TypeOK, SetInv, SetClosedOnce
  <2>2. CASE ~device_set_
    <3>1. setRefs = 0
      BY <2>2 DEF Core, TypeOK, SetInv
    <3> QED
      BY <2>2, <3>1 DEF Core, TypeOK, SetInv, SetClosedOnce
  <2> QED
    BY <2>1, <2>2
<1>2. LoopHoldsObjects
  BY DEF Core, TypeOK, SetInv, DeviceInv, LoopHoldsObjects, InRun, InLoop
<1>3. AnsweredOnce
  <2>1. ASSUME NEW d \in DOMAIN owed
        PROVE  /\ owed[d] \in {0, 1}
               /\ owed[d] = 1 => \/ d = dev /\ pc \in {"dispatch", "write", "complete"}
                                 \/ state_ \in {"FAILED", "CLOSED"}
                                 \/ pending.code = "VDC_Close"
    <3>1. CASE InLoop
      BY <2>1, <3>1 DEF OwedInv, Holding
    <3>2. CASE ~InLoop
      BY <2>1, <3>2 DEF OwedInv, Active
    <3> QED
      BY <3>1, <3>2
  <2>2. pc = "GetCommand" \/ state_ = "FLUSHING" => \A d \in DOMAIN owed : owed[d] = 0
    BY DEF OwedInv, InLoop, Holding
  <2> QED
    BY <2>1, <2>2 DEF AnsweredOnce
<1>4. MetricsAgree
  <2>1. pc = "GetCommand" \/ state_ = "FLUSHING" => pending.code # "VDC_Write" /\ Active
    BY DEF Core, StateInv, CommandInv, Active, InLoop, Holding, NoCommand
  <2> QED
    BY <2>1 DEF Core, TypeOK, MetricInv, MetricsAgree, Active, Unacked
<1>5. InjectedInTime
  BY DEF Core, StateInv, FaultInv, InjectedInTime, Active, InLoop
<1> QED
  BY <1>1, <1>2, <1>3, <1>4, <1>5

-----------------------------------------------------------------------------
(* The variables of the client and of COM keep their types: no count of      *)
(* references ever falls below zero.                                         *)
THEOREM TypeCorrect == Spec => []TypeOK
  BY Consequences, Invariant, PTL

(* However the session ends, and however often close() is called, the device *)
(* set is closed once and released once.                                     *)
THEOREM ClosedOnce == Spec => []SetClosedOnce
  BY Consequences, Invariant, PTL

(* process_commands() calls no interface that it does not hold. *)
THEOREM ObjectsHeld == Spec => []LoopHoldsObjects
  BY Consequences, Invariant, PTL

(* Every command taken, on any device, is completed once, on that device,    *)
(* before the next is asked for; only the command in hand when the session   *)
(* failed and a VDC_Close may stay unanswered.                               *)
THEOREM Answered == Spec => []AnsweredOnce
  BY Consequences, Invariant, PTL

(* The byte count and the chunk timings agree with the completions, but for  *)
(* the one write and the one timing of a session that failed over them.      *)
THEOREM MetricsCorrect == Spec => []MetricsAgree
  BY Consequences, Invariant, PTL

(* The loop asks for no command after the completion that was to fail. *)
THEOREM InjectionInTime == Spec => []InjectedInTime
  BY Consequences, Invariant, PTL

(* A change of the session state that docs/operational-behavior.md lists. *)
Legal ==
  state_' # state_ =>
    \/ state_' = "CLOSED"
    \/ <<state_, state_'>> \in
         {<<"INIT", "CONNECTED">>, <<"INIT", "FAILED">>,
          <<"CONNECTED", "STREAMING">>, <<"CONNECTED", "FAILED">>,
          <<"STREAMING", "FLUSHING">>, <<"STREAMING", "FAILED">>}

(* Every step that changes the state makes such a change. *)
LEMMA LegalStep == IInv /\ [Step]_sessionVars => [Legal]_sessionVars
<1> SUFFICES ASSUME IInv, Step PROVE Legal
  OBVIOUS
<1> USE DEF Legal, clientVars
<1>1. ASSUME NEW n \in DeviceCounts,
             ConnectNoCom(n) \/ ConnectNoSet(n) \/ Connect(n)
      PROVE  Legal
  BY <1>1 DEF ConnectNoCom, ConnectNoSet, Connect, Connecting
<1>2. CASE OpenDevices \/ OpenDevicesTimeout \/ OpenDevicesFails
  BY <1>2 DEF OpenDevices, OpenDevicesTimeout, OpenDevicesFails, Configuring
<1>3. CASE \/ Close \/ Destroy \/ ReleaseDevice \/ PostLoop
           \/ CloseAfterLoop
  BY <1>3 DEF Close, Destroy, ReleaseDevice, Releasing, PostLoop,
              CloseAfterLoop, CloseSession
<1>4. ASSUME NEW n \in FailAfter, SetFailAfter(n) PROVE Legal
  BY <1>4 DEF SetFailAfter, InjectorCall
<1>8. CASE SetFailNextCommand \/ ShouldFail \/ Reset
  BY <1>8 DEF SetFailNextCommand, ShouldFail, Reset, InjectorCall
<1>5. CASE ProcessCommands \/ OpenDevice \/ OpenDeviceFails
  BY <1>5 DEF ProcessCommands, OpenDevice, OpenDeviceFails, IInv, Core, StateInv
<1>6. CASE \/ GetEnd \/ GetFails \/ GetNothing \/ Dispatch \/ WriteInvalid
           \/ WriteFails \/ WriteStored \/ CompleteFails \/ CompleteCommand
  <2>1. pc # "leave" => state_' \in {state_, "FAILED", "FLUSHING"}
    BY <1>6 DEF GetEnd, GetFails, GetNothing, Dispatch, WriteInvalid,
                WriteFails, WriteStored, Writing, CompleteFails,
                CompleteCommand, Completing, Break
  <2>2. InLoop
    BY <1>6 DEF GetEnd, GetFails, GetNothing, Dispatch, WriteInvalid,
                WriteFails, WriteStored, Writing, CompleteFails,
                CompleteCommand, Completing, InLoop
  <2> QED
    BY <2>1, <2>2 DEF IInv, Core, StateInv, InLoop
<1>7. ASSUME NEW c \in Commands, GetCommand(c) PROVE Legal
  BY <1>7 DEF GetCommand
<1> QED
  BY <1>1, <1>2, <1>3, <1>4, <1>5, <1>6, <1>7, <1>8 DEF Step, Operation

(* The session state follows the documented transitions. *)
THEOREM TransitionsLegal == Spec => LegalTransitions
<1>1. IInv /\ [Next]_sessionVars => [Legal]_sessionVars
  BY LegalStep, NextIsStep
<1> QED
  BY <1>1, Invariant, PTL DEF Spec, LegalTransitions, Legal

-----------------------------------------------------------------------------
(* With one device, which is what main() asks for, the vector of devices     *)
(* holds every device interface there is, so the release after the loop      *)
(* releases them all, and a failed OpenDevice has none to forget.            *)
OneDeviceInv ==
  /\ state_ = "INIT" => deviceRefs = 0
  /\ device_count_ <= 1 =>
       /\ deviceRefs = opened
       /\ pc = "OpenDevice" => opened = 0

(* Every step keeps that. *)
LEMMA OneDeviceStep ==
  ASSUME IInv, OneDeviceInv, [Step]_sessionVars
  PROVE  OneDeviceInv'
<1> USE SessionAssumption
        DEF IInv, Core, TypeOK, StateInv, DeviceInv, OneDeviceInv, InRun, InLoop, clientVars,
            comVars, loopVars
<1>1. ASSUME NEW n \in DeviceCounts,
             ConnectNoCom(n) \/ ConnectNoSet(n) \/ Connect(n)
      PROVE  OneDeviceInv'
  BY <1>1 DEF ConnectNoCom, ConnectNoSet, Connect, Connecting
<1>2. CASE OpenDevices \/ OpenDevicesTimeout \/ OpenDevicesFails
  BY <1>2 DEF OpenDevices, OpenDevicesTimeout, OpenDevicesFails, Configuring
<1>3. CASE Close \/ Destroy
  BY <1>3 DEF Close, CloseSession, Destroy
<1>4. ASSUME NEW n \in FailAfter, SetFailAfter(n) PROVE OneDeviceInv'
  BY <1>4 DEF SetFailAfter, InjectorCall
<1>15. CASE SetFailNextCommand \/ ShouldFail \/ Reset
  BY <1>15 DEF SetFailNextCommand, ShouldFail, Reset, InjectorCall
<1>5. CASE ProcessCommands
  BY <1>5 DEF ProcessCommands
<1>6. CASE OpenDevice
  <2>1. state_' # "INIT"
    BY <1>6 DEF OpenDevice
  <2>2. ASSUME device_count_' <= 1
        PROVE  deviceRefs' = opened' /\ pc' # "OpenDevice"
    <3>1. device_count_ <= 1 /\ device_count_ \in Nat
      BY <1>6, <2>2 DEF OpenDevice
    <3>2. DeviceTarget = 1
      BY <3>1 DEF DeviceTarget
    <3>3. opened = 0 /\ deviceRefs = 0
      BY <1>6, <3>1 DEF OpenDevice
    <3> QED
      BY <1>6, <3>2, <3>3 DEF OpenDevice
  <2> QED
    BY <2>1, <2>2
<1>7. CASE OpenDeviceFails
  BY <1>7 DEF OpenDeviceFails
<1>8. CASE GetEnd \/ GetFails \/ GetNothing
  BY <1>8 DEF GetEnd, GetFails, GetNothing, Break
<1>9. ASSUME NEW c \in Commands, GetCommand(c) PROVE OneDeviceInv'
  BY <1>9 DEF GetCommand
<1>10. CASE Dispatch
  BY <1>10 DEF Dispatch, Break
<1>11. CASE WriteInvalid \/ WriteFails \/ WriteStored
  BY <1>11 DEF WriteInvalid, WriteFails, WriteStored, Writing, Break
<1>12. CASE CompleteFails \/ CompleteCommand
  BY <1>12 DEF CompleteFails, CompleteCommand, Completing, Break
<1>13. CASE ReleaseDevice \/ PostLoop \/ CloseAfterLoop
  BY <1>13 DEF ReleaseDevice, Releasing, PostLoop, CloseAfterLoop, CloseSession
<1>14. CASE UNCHANGED sessionVars
  BY <1>14 DEF sessionVars
<1> QED
  BY <1>1, <1>2, <1>3, <1>4, <1>5, <1>6, <1>7, <1>8, <1>9, <1>10, <1>11, <1>12,
     <1>13, <1>14, <1>15 DEF Step, Operation

(* One device: its interface does not outlive process_commands(). *)
THEOREM OneDeviceReleased == Spec => []SingleDeviceReleased
<1>1. Init => OneDeviceInv
  BY DEF Init, OneDeviceInv
<1>2. IInv /\ OneDeviceInv /\ [Next]_sessionVars => OneDeviceInv'
  BY OneDeviceStep, NextIsStep
<1>3. IInv /\ OneDeviceInv => SingleDeviceReleased
  <2> SUFFICES ASSUME IInv, OneDeviceInv, pc \in {"idle", "destroyed"},
                      device_count_ <= 1
               PROVE  deviceRefs = 0
    BY DEF SingleDeviceReleased
  <2>1. opened = 0
    BY DEF IInv, Core, DeviceInv, InRun, InLoop
  <2> QED
    BY <2>1 DEF OneDeviceInv
<1> QED
  BY <1>1, <1>2, <1>3, Invariant, PTL DEF Spec

=============================================================================
