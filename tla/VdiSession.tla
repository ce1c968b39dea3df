----------------------------- MODULE VdiSession -----------------------------
(***************************************************************************)
(* VdiClient (src/vdi_client.cpp) with dispatch_command and                *)
(* validate_write_command (src/vdi_protocol.cpp), ComRuntime and           *)
(* FaultInjector: the life of one client object, from its constructor to   *)
(* its destructor, and of the COM objects it holds.                        *)
(*                                                                         *)
(* One thread calls the client, so a public method that returns at once is *)
(* one step; process_commands() is cut at each call it makes to a device   *)
(* or to the sink.  What COM, SQL Server and the sink answer is free here: *)
(* VdiBackup ties it to models of them.  A call the client rejects for its *)
(* state (it logs and returns) changes nothing and is a stuttering step.   *)
(*                                                                         *)
(* A definition marked "Mutant" is a faulty variant of the one after it.   *)
(* No action uses it: it stands in for that one to test a property.        *)
(***************************************************************************)
EXTENDS Integers, Sequences

CONSTANTS
  DeviceCounts,         \* device counts that connect() may be given
  Commands,             \* commands that GetCommand may return
  MAX_SANE_CHUNK_SIZE,  \* upper bound of validate_write_command
  FailAfter,            \* arguments of set_fail_after_n_chunks
  ComAtStart,           \* COM initialisations the thread already has
  MaxCommands           \* bound: commands completed in a behaviour

Codes == {"VDC_Read", "VDC_Write", "VDC_Flush", "VDC_Close", "other"}

ASSUME SessionAssumption ==
  /\ DeviceCounts \subseteq Nat
  /\ Commands \subseteq [code : Codes, size : Nat, buffer : BOOLEAN]
  /\ MAX_SANE_CHUNK_SIZE \in Nat
  /\ FailAfter \subseteq Nat
  /\ ComAtStart \subseteq Nat
  /\ MaxCommands \in Nat

VARIABLES
  state_,             \* the SessionState
  device_set_,        \* is the pointer to the device set non-null?
  devices_closed_,    \* the guard that makes close() idempotent
  device_count_,      \* as given to connect()
  fail_after,         \* FaultInjector::fail_after_n_chunks_
  chunk_counter,      \* FaultInjector::chunk_counter_
  fail_next,          \* FaultInjector::fail_next_command_
  total_bytes,        \* Metrics: bytes of the VDC_Write commands
  timings,            \* Metrics: chunk timings recorded
  pc,                 \* where process_commands() is; "idle" outside it
  opened,             \* devices of its vector that are not yet released
  dev,                \* index of the device that the loop is serving
  cmd                 \* the command in hand, or NoCommand

(* The COM objects, kept by COM itself. *)
VARIABLES
  setsMade,           \* device sets that CreateEx configured
  setRefs,            \* references held to device sets
  setCloses,          \* IClientVirtualDeviceSet::Close calls
  deviceRefs,         \* references held to device interfaces
  comCount            \* CoInitializeEx not yet matched by CoUninitialize

(* History, for the properties. *)
VARIABLES
  owed,               \* for each device, commands taken less completions
  pending,            \* the command taken last, until it is completed
  completed,          \* commands completed
  acked               \* bytes of the VDC_Write commands completed

clientVars == <<state_, device_set_, devices_closed_, device_count_>>
faultVars == <<fail_after, chunk_counter, fail_next>>
metricVars == <<total_bytes, timings>>
loopVars == <<pc, opened, dev, cmd>>
setVars == <<setsMade, setRefs, setCloses>>
comVars == <<setVars, deviceRefs, comCount>>
historyVars == <<owed, pending, completed, acked>>
sessionVars ==
  <<clientVars, faultVars, metricVars, loopVars, comVars, historyVars>>

NoCommand == [code |-> "none", size |-> 0, buffer |-> FALSE]

States == {"INIT", "CONNECTED", "STREAMING", "FLUSHING", "CLOSED", "FAILED"}

Init ==
  /\ state_ = "INIT"
  /\ device_set_ = FALSE
  /\ devices_closed_ = FALSE
  /\ device_count_ = 0
  /\ fail_after = 0 /\ chunk_counter = 0 /\ fail_next = FALSE
  /\ total_bytes = 0 /\ timings = 0
  /\ pc = "idle" /\ opened = 0 /\ dev = 0 /\ cmd = NoCommand
  /\ setsMade = 0 /\ setRefs = 0 /\ setCloses = 0
  /\ deviceRefs = 0
  /\ comCount \in ComAtStart
  /\ owed = <<>> /\ pending = NoCommand /\ completed = 0 /\ acked = 0

-----------------------------------------------------------------------------
(* connect() *)

(* ComRuntime lives for the length of connect().  On a thread where COM was *)
(* not initialised its two calls cancel out; where it was (S_FALSE), the    *)
(* destructor does not undo the initialisation that the constructor added.  *)
ComRuntimeScope == comCount' = IF comCount = 0 THEN 0 ELSE comCount + 1

\* Mutant: connect() accepted after a failure.
ConnectingAgain(n) ==
  /\ pc = "idle"
  /\ state_ \in {"INIT", "FAILED"}
  /\ device_count_' = n
  /\ UNCHANGED <<devices_closed_, faultVars, metricVars, loopVars, deviceRefs,
                 setCloses, historyVars>>

Connecting(n) ==
  /\ pc = "idle"
  /\ state_ = "INIT"
  /\ device_count_' = n
  /\ UNCHANGED <<devices_closed_, faultVars, metricVars, loopVars, deviceRefs,
                 setCloses, historyVars>>

ConnectNoCom(n) ==
  /\ Connecting(n)
  /\ state_' = "FAILED"
  /\ UNCHANGED <<device_set_, setsMade, setRefs, comCount>>

(* CoCreateInstance fails, or CreateEx does and the set is released. *)
ConnectNoSet(n) ==
  /\ Connecting(n)
  /\ ComRuntimeScope
  /\ state_' = "FAILED"
  /\ UNCHANGED <<device_set_, setsMade, setRefs>>

Connect(n) ==
  /\ Connecting(n)
  /\ ComRuntimeScope
  /\ device_set_' = TRUE
  /\ setsMade' = setsMade + 1
  /\ setRefs' = setRefs + 1
  /\ state_' = "CONNECTED"

-----------------------------------------------------------------------------
(* open_devices() *)

Configuring ==
  /\ pc = "idle"
  /\ state_ = "CONNECTED"
  /\ UNCHANGED <<device_set_, devices_closed_, device_count_, faultVars,
                 metricVars, loopVars, comVars, historyVars>>

OpenDevices ==
  /\ Configuring
  /\ device_set_
  /\ state_' = "STREAMING"

(* SQL Server did not connect within the 60 s of GetConfiguration. *)
OpenDevicesTimeout ==
  /\ Configuring
  /\ device_set_
  /\ state_' = "FAILED"

(* No device set, or GetConfiguration fails otherwise. *)
OpenDevicesFails ==
  /\ Configuring
  /\ state_' = "FAILED"

-----------------------------------------------------------------------------
(* close() *)

\* Mutant: device_set_ is not set to null.
CloseKeepsPointer ==
  /\ IF device_set_
       THEN setCloses' = setCloses + 1 /\ setRefs' = setRefs - 1
       ELSE UNCHANGED <<setCloses, setRefs>>
  /\ UNCHANGED device_set_
  /\ devices_closed_' = TRUE
  /\ state_' = "CLOSED"

\* Mutant: the set is closed and not released.
CloseNoRelease ==
  /\ IF device_set_ THEN setCloses' = setCloses + 1 ELSE UNCHANGED setCloses
  /\ UNCHANGED setRefs
  /\ device_set_' = FALSE
  /\ devices_closed_' = TRUE
  /\ state_' = "CLOSED"

(* The body of close(); the sink flush before it is VdiBackup's. *)
CloseSession ==
  /\ IF device_set_
       THEN setCloses' = setCloses + 1 /\ setRefs' = setRefs - 1
       ELSE UNCHANGED <<setCloses, setRefs>>
  /\ device_set_' = FALSE
  /\ devices_closed_' = TRUE
  /\ state_' = "CLOSED"

Close ==
  /\ pc = "idle"
  /\ ~devices_closed_
  /\ CloseSession
  /\ UNCHANGED <<device_count_, faultVars, metricVars, loopVars, setsMade,
                 deviceRefs, comCount, historyVars>>

(* The destructor closes a session that got past INIT and was not closed. *)
Destroy ==
  /\ pc = "idle"
  /\ pc' = "destroyed"
  /\ IF state_ \notin {"CLOSED", "INIT"} /\ ~devices_closed_
       THEN CloseSession
       ELSE UNCHANGED <<state_, device_set_, devices_closed_, setCloses,
                        setRefs>>
  /\ UNCHANGED <<device_count_, faultVars, metricVars, opened, dev, cmd,
                 setsMade, deviceRefs, comCount, historyVars>>

(* Calls that the owner makes of fault_injector().  process_commands() asks   *)
(* it on_chunk_completed() only, never should_fail(): the failure that        *)
(* set_fail_next_command() schedules is one for the owner to ask for.        *)
InjectorCall ==
  pc = "idle" /\ UNCHANGED <<clientVars, metricVars, loopVars, comVars, historyVars>>

SetFailAfter(n) ==
  /\ InjectorCall
  /\ fail_after' = n
  /\ chunk_counter' = 0
  /\ UNCHANGED fail_next

SetFailNextCommand ==
  /\ InjectorCall
  /\ fail_next' = TRUE
  /\ UNCHANGED <<fail_after, chunk_counter>>

(* The answer TRUE given for fail_next_command_ is given once. *)
ShouldFail ==
  /\ InjectorCall
  /\ fail_next' = FALSE
  /\ UNCHANGED <<fail_after, chunk_counter>>

Reset ==
  /\ InjectorCall
  /\ fail_after' = 0 /\ chunk_counter' = 0 /\ fail_next' = FALSE

-----------------------------------------------------------------------------
(* process_commands(): opening the devices *)

DeviceTarget == IF device_count_ > 0 THEN device_count_ ELSE 1

ProcessCommands ==
  /\ pc = "idle"
  /\ state_ = "STREAMING"
  /\ device_set_
  /\ pc' = "OpenDevice"
  /\ opened' = 0
  /\ owed' = <<>>
  /\ pending' = NoCommand
  /\ UNCHANGED <<clientVars, faultVars, metricVars, dev, cmd, comVars,
                 completed, acked>>

OpenDevice ==
  /\ pc = "OpenDevice"
  /\ opened' = opened + 1
  /\ deviceRefs' = deviceRefs + 1
  /\ IF opened' = DeviceTarget
       THEN pc' = "GetCommand" /\ dev' = 1
       ELSE UNCHANGED <<pc, dev>>
  /\ owed' = Append(owed, 0)
  /\ UNCHANGED <<clientVars, faultVars, metricVars, cmd, setVars, comCount,
                 pending, completed, acked>>

(* The method returns at once: the devices opened so far are forgotten. *)
OpenDeviceFails ==
  /\ pc = "OpenDevice"
  /\ state_' = "FAILED"
  /\ pc' = "idle"
  /\ opened' = 0
  /\ UNCHANGED <<device_set_, devices_closed_, device_count_, faultVars,
                 metricVars, dev, cmd, comVars, historyVars>>

-----------------------------------------------------------------------------
(* process_commands(): the command loop *)

\* Mutant: the loop runs past the end of the vector.
NextDeviceOffByOne == IF dev <= opened THEN dev + 1 ELSE 1
\* Mutant: the loop stays on its device.
NextDeviceStuck == dev

NextDevice == IF dev < opened THEN dev + 1 ELSE 1

(* Leave the loop with the session in state s. *)
Break(s) ==
  /\ state_' = s
  /\ pc' = "leave"
  /\ cmd' = NoCommand
  /\ UNCHANGED <<device_set_, devices_closed_, device_count_, opened, dev>>

(* VD_E_CLOSE or VD_E_EOF; the sink flush that follows is VdiBackup's. *)
GetEnd ==
  /\ pc = "GetCommand"
  /\ Break("FLUSHING")
  /\ UNCHANGED <<faultVars, metricVars, comVars, historyVars>>

GetFails ==
  /\ pc = "GetCommand"
  /\ Break("FAILED")
  /\ UNCHANGED <<faultVars, metricVars, comVars, historyVars>>

(* VD_E_TIMEOUT, or S_OK without a command: on to the next device. *)
GetNothing ==
  /\ pc = "GetCommand"
  /\ dev' = NextDevice
  /\ UNCHANGED <<clientVars, faultVars, metricVars, pc, opened, cmd, comVars,
                 historyVars>>

GetCommand(c) ==
  /\ pc = "GetCommand"
  /\ cmd' = c
  /\ pc' = "dispatch"
  /\ owed' = [owed EXCEPT ![dev] = @ + 1]
  /\ pending' = c
  /\ UNCHANGED <<clientVars, faultVars, metricVars, opened, dev, comVars,
                 completed, acked>>

\* Mutant: the sink stage is not reserved to VDC_Write.
DispatchStoresAll ==
  /\ pc = "dispatch"
  /\ \/ /\ cmd.code = "VDC_Close"
        /\ Break(state_)
     \/ /\ cmd.code # "VDC_Close"
        /\ pc' = "write"
        /\ UNCHANGED <<clientVars, opened, dev, cmd>>
  /\ UNCHANGED <<faultVars, metricVars, comVars, historyVars>>

(* VDC_Close leaves the loop with the state as it is and the command not    *)
(* completed.  VDC_Flush is completed like any command that needs no work.  *)
Dispatch ==
  /\ pc = "dispatch"
  /\ \/ /\ cmd.code = "VDC_Close"
        /\ Break(state_)
     \/ /\ cmd.code # "VDC_Close"
        /\ pc' = IF cmd.code = "VDC_Write" THEN "write" ELSE "complete"
        /\ UNCHANGED <<clientVars, opened, dev, cmd>>
  /\ UNCHANGED <<faultVars, metricVars, comVars, historyVars>>

ValidWrite ==
  /\ cmd.buffer
  /\ cmd.size > 0
  /\ cmd.size <= MAX_SANE_CHUNK_SIZE

(* The metrics count a chunk before it is validated or stored. *)
Writing ==
  /\ pc = "write"
  /\ total_bytes' = total_bytes + cmd.size
  /\ UNCHANGED <<faultVars, timings, comVars, historyVars>>

WriteInvalid ==
  /\ Writing
  /\ ~ValidWrite
  /\ Break("FAILED")

(* sink_->is_open() or sink_->write() returns false. *)
WriteFails ==
  /\ Writing
  /\ ValidWrite
  /\ Break("FAILED")

WriteStored ==
  /\ Writing
  /\ ValidWrite
  /\ pc' = "complete"
  /\ UNCHANGED <<clientVars, opened, dev, cmd>>

CompleteFails ==
  /\ pc = "complete"
  /\ Break("FAILED")
  /\ UNCHANGED <<faultVars, metricVars, comVars, historyVars>>

(* FaultInjector::on_chunk_completed() *)
Counted == IF fail_after > 0 THEN chunk_counter + 1 ELSE chunk_counter
\* Mutant: > instead of >=.
InjectedLate == fail_after > 0 /\ Counted > fail_after
Injected == fail_after > 0 /\ Counted >= fail_after

Completing(d) ==
  /\ pc = "complete"
  /\ completed' = completed + 1
  /\ owed' = [owed EXCEPT ![d] = @ - 1]
  /\ pending' = NoCommand
  /\ acked' = IF cmd.code = "VDC_Write" THEN acked + cmd.size ELSE acked
  /\ chunk_counter' = Counted
  /\ \/ /\ Injected
        /\ Break("FAILED")
        /\ UNCHANGED timings
     \/ /\ ~Injected
        /\ timings' = timings + 1
        /\ pc' = "GetCommand"
        /\ dev' = NextDevice
        /\ cmd' = NoCommand
        /\ UNCHANGED <<clientVars, opened>>
  /\ UNCHANGED <<fail_after, fail_next, total_bytes, comVars>>

\* Mutant: the command is completed on the device that is served next.
CompleteOnNextDevice == Completing(NextDevice)

(* The command is completed on the device that gave it. *)
CompleteCommand == Completing(dev)

(* After the loop: release the devices, one by one, ... *)
Releasing ==
  /\ pc = "leave"
  /\ opened > 0
  /\ opened' = opened - 1
  /\ UNCHANGED <<clientVars, faultVars, metricVars, pc, dev, cmd, setVars,
                 comCount, historyVars>>

\* Mutant: the vector is cleared and no device released.
ForgetDevice == Releasing /\ UNCHANGED deviceRefs

\* Mutant: a device is released twice.
ReleaseDeviceTwice == Releasing /\ deviceRefs' = deviceRefs - 2

ReleaseDevice == Releasing /\ deviceRefs' = deviceRefs - 1

\* Mutant: close() comes before the release of the devices.
CloseBeforeRelease ==
  /\ pc = "leave"
  /\ \/ /\ state_ = "FLUSHING"
        /\ CloseSession
        /\ UNCHANGED pc
     \/ /\ state_ # "FLUSHING" /\ opened = 0
        /\ pc' = "idle"
        /\ UNCHANGED <<state_, device_set_, devices_closed_, setCloses, setRefs>>
  /\ UNCHANGED <<device_count_, faultVars, metricVars, opened, dev, cmd,
                 setsMade, deviceRefs, comCount, historyVars>>

(* ... then call close() if FLUSHING; what it does to the sink first is     *)
(* VdiBackup's, ...                                                         *)
PostLoop ==
  /\ pc = "leave"
  /\ opened = 0
  /\ pc' = IF state_ = "FLUSHING" /\ ~devices_closed_ THEN "close" ELSE "idle"
  /\ UNCHANGED <<clientVars, faultVars, metricVars, opened, dev, cmd, comVars,
                 historyVars>>

(* ... and the device set last. *)
CloseAfterLoop ==
  /\ pc = "close"
  /\ pc' = "idle"
  /\ CloseSession
  /\ UNCHANGED <<device_count_, faultVars, metricVars, opened, dev, cmd,
                 setsMade, deviceRefs, comCount, historyVars>>

-----------------------------------------------------------------------------
(* Everything the client does but taking a command. *)
Operation ==
  \/ \E n \in DeviceCounts : ConnectNoCom(n) \/ ConnectNoSet(n) \/ Connect(n)
  \/ OpenDevices \/ OpenDevicesTimeout \/ OpenDevicesFails
  \/ Close \/ Destroy
  \/ \E n \in FailAfter : SetFailAfter(n)
  \/ SetFailNextCommand \/ ShouldFail \/ Reset
  \/ ProcessCommands \/ OpenDevice \/ OpenDeviceFails
  \/ GetEnd \/ GetFails \/ GetNothing
  \/ Dispatch
  \/ WriteInvalid \/ WriteFails \/ WriteStored
  \/ CompleteFails \/ CompleteCommand
  \/ ReleaseDevice \/ PostLoop \/ CloseAfterLoop

Next ==
  \/ Operation
  \/ completed < MaxCommands /\ \E c \in Commands : GetCommand(c)

Spec == Init /\ [][Next]_sessionVars

-----------------------------------------------------------------------------
(* The values the state may take. *)
TypeOK ==
  /\ state_ \in States
  /\ device_set_ \in BOOLEAN
  /\ devices_closed_ \in BOOLEAN
  /\ device_count_ \in Nat
  /\ fail_after \in Nat /\ chunk_counter \in Nat /\ fail_next \in BOOLEAN
  /\ total_bytes \in Nat /\ timings \in Nat
  /\ pc \in {"idle", "OpenDevice", "GetCommand", "dispatch", "write",
            "complete", "leave", "close", "destroyed"}
  /\ opened \in Nat /\ dev \in Nat
  /\ cmd \in Commands \cup {NoCommand}
  /\ setsMade \in Nat /\ setRefs \in Nat /\ setCloses \in Nat
  /\ deviceRefs \in Nat
  /\ comCount \in Nat
  /\ owed \in Seq(Int) /\ pending \in Commands \cup {NoCommand}
  /\ completed \in Nat /\ acked \in Nat

InLoop == pc \in {"GetCommand", "dispatch", "write", "complete"}

(* The device set is closed exactly once and released exactly once, whatever *)
(* mix of close(), destructor, VD_E_CLOSE and failures ends the session, and *)
(* the pointer is null exactly when nothing is held.                         *)
SetClosedOnce ==
  /\ setsMade = setCloses + setRefs
  /\ setsMade <= 1
  /\ device_set_ <=> setRefs = 1
  /\ state_ = "CLOSED" => setRefs = 0
  /\ devices_closed_ <=> state_ = "CLOSED"

(* The loop never calls a device or the set through a released interface.   *)
LoopHoldsObjects ==
  /\ pc \in {"OpenDevice", "leave", "close"} \/ InLoop => setRefs = 1
  /\ InLoop => dev \in 1 .. opened
  /\ opened <= deviceRefs
  /\ pc \in {"idle", "close", "destroyed"} => opened = 0

(* With one device, whatever ended process_commands(), the interface is not *)
(* held any more when no call is running.                                   *)
SingleDeviceReleased ==
  pc \in {"idle", "destroyed"} /\ device_count_ <= 1 => deviceRefs = 0

(* A command taken is completed exactly once, on the device that gave it,    *)
(* before the next GetCommand on any device.  One may stay unanswered when   *)
(* process_commands() returns: the one in hand when the session failed, or   *)
(* a VDC_Close, on which the loop breaks before CompleteCommand.             *)
AnsweredOnce ==
  /\ \A d \in DOMAIN owed :
       /\ owed[d] \in {0, 1}
       /\ owed[d] = 1 => \/ d = dev /\ pc \in {"dispatch", "write", "complete"}
                        \/ state_ \in {"FAILED", "CLOSED"}
                        \/ pending.code = "VDC_Close"
  /\ pc = "GetCommand" \/ state_ = "FLUSHING" =>
       \A d \in DOMAIN owed : owed[d] = 0

(* The metrics report the acknowledged bytes and the write in hand, if it    *)
(* was counted: bytes are counted before the chunk is validated, stored or   *)
(* completed, so a session that fails over a write reports that write too.   *)
(* Every completed command has its timing, but for the one that the fault    *)
(* injector failed the session at.                                           *)
MetricsAgree ==
  /\ total_bytes = acked + IF /\ pending.code = "VDC_Write"
                              /\ pc \notin {"dispatch", "write"}
                             THEN pending.size ELSE 0
  /\ \/ timings = completed
     \/ timings = completed - 1 /\ state_ \in {"FAILED", "CLOSED"}
  /\ pc = "GetCommand" \/ state_ = "FLUSHING" =>
       total_bytes = acked /\ timings = completed

(* An armed fault injector ends the loop at the n-th completion at the       *)
(* latest: the loop never asks for another command after it.                 *)
InjectedInTime ==
  pc = "GetCommand" /\ fail_after > 0 => chunk_counter < fail_after

(* The session moves only along the transitions that                         *)
(* docs/operational-behavior.md lists; a failure is final but for close().   *)
LegalTransitions ==
  [][state_' # state_ =>
       \/ state_' = "CLOSED"
       \/ <<state_, state_'>> \in
            {<<"INIT", "CONNECTED">>, <<"INIT", "FAILED">>,
             <<"CONNECTED", "STREAMING">>, <<"CONNECTED", "FAILED">>,
             <<"STREAMING", "FLUSHING">>, <<"STREAMING", "FAILED">>}
    ]_sessionVars

-----------------------------------------------------------------------------
(* What the repository says of the program and the code does not do. *)

(* Device interfaces are released: when no call is running, none is held,   *)
(* also when process_commands() gave up opening the devices.                *)
DevicesReleased == pc = "idle" => deviceRefs = 0

(* Each command is completed: when process_commands() has returned in a      *)
(* session that did not fail, none is unanswered.                            *)
EveryCommandAnswered ==
  pc = "idle" /\ state_ # "FAILED" => \A d \in DOMAIN owed : owed[d] = 0

(* COM stays initialised while the client holds the device set. *)
ComOutlivesSet == setRefs > 0 => comCount > 0

=============================================================================
