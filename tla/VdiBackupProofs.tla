--------------------------- MODULE VdiBackupProofs ---------------------------
(***************************************************************************)
(* Proofs about VdiBackup, for every number of devices, set of commands    *)
(* and buffer capacity.                                                    *)
(*                                                                         *)
(* Every step of the program is a step of VdiSession and one of FileSink,  *)
(* or leaves theirs alone, so the invariants proved of the two components  *)
(* hold of them here.  On these rest invariants that tie the place where   *)
(* main() is, the answers of SQL Server and the bytes in the sink to the   *)
(* state of the client.                                                    *)
(***************************************************************************)
EXTENDS VdiBackup, TLAPS

(* The components with what is proved of them. *)
C == INSTANCE VdiSessionProofs WITH
       DeviceCounts <- {NDevices}, FailAfter <- {}, ComAtStart <- {0},
       MaxCommands <- MaxPosted

F == INSTANCE FileSinkProofs WITH
       Sizes <- {c.size : c \in Commands}, MaxBytes <- 0

(* Their assumptions on the constants are met. *)
LEMMA ClientAssumption == C!SessionAssumption
  BY BackupAssumption DEF C!SessionAssumption, C!Codes, Client!Codes

(* The size of a command is a natural number. *)
LEMMA SizeType == \A c \in Commands : c.size \in Nat
  BY BackupAssumption

(* The sink's own assumption, from the composition's. *)
LEMMA SinkAssumption == F!SinkAssumption
  BY BackupAssumption, SizeType DEF F!SinkAssumption

-----------------------------------------------------------------------------
(* The types of what VdiBackup adds to the components. *)
ProgramTypes ==
  /\ queue \in [Devices -> Seq(Commands)]
  /\ ended \subseteq Devices
  /\ server \in {"waiting", "running", "aborted"}
  /\ posted \in Nat
  /\ use_file_sink \in BOOLEAN /\ auto_mode \in BOOLEAN
  /\ mpc \in {"connect", "launch", "prompt", "open", "process", "processing",
             "close", "closing", "return", "exited"}
  /\ exit_code \in {0, 1}
  /\ clean \in BOOLEAN

(* The invariants of the components, and these types. *)
Base == C!IInv /\ F!IInv /\ ProgramTypes

(* main() calls each method in a state that takes it, and the session is     *)
(* over when it returns.                                                     *)
MainInv ==
  /\ mpc = "connect" => state_ = "INIT"
  /\ mpc \in {"launch", "prompt", "open"} => state_ = "CONNECTED"
  /\ mpc = "process" => state_ = "STREAMING"
  /\ mpc = "processing" <=> pc \notin {"idle", "destroyed"}
  /\ mpc = "exited" <=> pc = "destroyed"
  /\ mpc = "close" => state_ \in {"STREAMING", "FAILED", "CLOSED"}
  /\ mpc = "closing" => state_ \in {"STREAMING", "FAILED"}
  /\ mpc = "return" => state_ \in {"FAILED", "CLOSED"}
  /\ mpc = "exited" => state_ = "CLOSED"
  /\ mpc # "connect" => device_count_ = NDevices
  /\ C!InLoop => opened = NDevices

(* Nothing was served, and nothing reported. *)
Unserved ==
  /\ offered = 0 /\ total_bytes = 0 /\ completed = 0 /\ acked = 0
  /\ ~clean

(* Nothing is served before the command loop, nor in a run that exits with 1;*)
(* a clean end is seen in the loop and never outside it.                     *)
ExitInv ==
  /\ \/ mpc \in {"connect", "launch", "prompt", "open", "process"}
     \/ pc = "OpenDevice"
     \/ exit_code = 1
     => Unserved
  /\ exit_code = 1 => mpc \in {"close", "closing", "return", "exited"}
  /\ clean /\ mpc = "processing" =>
       pc \in {"leave", "close"} /\ state_ = "FLUSHING"

(* What is acknowledged was accepted before it; in a live session the two    *)
(* differ by the chunk in hand, and nothing was refused.                     *)
StoreInv ==
  use_file_sink =>
    /\ acked + refused <= offered
    /\ C!Active => acked + C!Unacked = offered /\ refused = 0
    /\ clean => acked = offered /\ refused = 0

(* On a disk that works nothing is lost, and the end of the backup finds the *)
(* buffer written and the file synced.                                       *)
DurableInv ==
  /\ dropped = 0 /\ refused = 0
  /\ synced <= Len(file)
  /\ mpc # "exited" /\ ~file_handle_ => offered = 0
  /\ clean /\ use_file_sink => buffered = <<>> /\ synced = Len(file)

(* Only the end of the backup and a failure leave the loop where SQL Server  *)
(* sends no VDC_Close; the end flushes the sink.  close() flushes it before  *)
(* it comes to the device set.                                               *)
FlushInv ==
  /\ ~use_file_sink => buffered = <<>>
  /\ pc \in {"leave", "close"} => state_ \in {"FLUSHING", "FAILED"}
  /\ pc \in {"leave", "close"} /\ state_ = "FLUSHING" => buffered = <<>>
  /\ mpc = "closing" /\ state_ # "FAILED" => buffered = <<>>

(* On a single device, the commands posted are those completed, the one in   *)
(* hand and those queued, for as long as the loop runs.                      *)
InHand == IF pc \in {"dispatch", "write", "complete"} THEN 1 ELSE 0

DrainInv ==
  /\ \/ mpc \in {"connect", "launch", "prompt", "open", "process"}
     \/ pc = "OpenDevice" \/ C!InLoop
     => posted = completed + InHand + Len(queue[1])
  /\ clean => 1 \in ended /\ completed = posted

-----------------------------------------------------------------------------
(* Client and C name the same actions, and so do Sink and F. *)
LEMMA SameOperation == Client!Operation => C!Operation
  BY DEF Client!Operation, C!Operation, Client!ConnectNoCom, C!ConnectNoCom,
         Client!ConnectNoSet, C!ConnectNoSet, Client!Connect, C!Connect,
         Client!Connecting, C!Connecting, Client!ComRuntimeScope,
         C!ComRuntimeScope, Client!OpenDevices, C!OpenDevices,
         Client!OpenDevicesTimeout, C!OpenDevicesTimeout,
         Client!OpenDevicesFails, C!OpenDevicesFails, Client!Configuring,
         C!Configuring, Client!Close, C!Close, Client!CloseSession,
         C!CloseSession, Client!Destroy, C!Destroy, Client!SetFailAfter,
         C!SetFailAfter, Client!SetFailNextCommand, C!SetFailNextCommand,
         Client!ShouldFail, C!ShouldFail, Client!Reset, C!Reset,
         Client!InjectorCall, C!InjectorCall, Client!ProcessCommands,
         C!ProcessCommands, Client!OpenDevice, C!OpenDevice,
         Client!DeviceTarget, C!DeviceTarget, Client!OpenDeviceFails,
         C!OpenDeviceFails, Client!GetEnd, C!GetEnd, Client!GetFails,
         C!GetFails, Client!GetNothing, C!GetNothing, Client!NextDevice,
         C!NextDevice, Client!Break, C!Break, Client!Dispatch, C!Dispatch,
         Client!WriteInvalid, C!WriteInvalid, Client!WriteFails,
         C!WriteFails, Client!WriteStored, C!WriteStored, Client!Writing,
         C!Writing, Client!ValidWrite, C!ValidWrite, Client!CompleteFails,
         C!CompleteFails, Client!CompleteCommand, C!CompleteCommand,
         Client!Injected, C!Injected, Client!Counted, C!Counted,
         Client!Completing, C!Completing, Client!ReleaseDevice,
         C!ReleaseDevice, Client!Releasing, C!Releasing, Client!PostLoop,
         C!PostLoop, Client!CloseAfterLoop, C!CloseAfterLoop,
         Client!NoCommand, C!NoCommand,
         Client!clientVars, C!clientVars, Client!faultVars, C!faultVars,
         Client!metricVars, C!metricVars, Client!loopVars, C!loopVars,
         Client!comVars, C!comVars, Client!setVars, C!setVars,
         Client!historyVars, C!historyVars

(* The two instances of the client say the same. *)
LEMMA SameClient ==
  /\ Client!Init => C!Init
  /\ \A c : Client!GetCommand(c) => C!GetCommand(c)
  /\ UNCHANGED sessionVars => UNCHANGED C!sessionVars
  BY DEF Client!Init, C!Init, Client!NoCommand, C!NoCommand,
         Client!GetCommand, C!GetCommand, sessionVars, C!sessionVars,
         Client!clientVars, C!clientVars, Client!faultVars, C!faultVars,
         Client!metricVars, C!metricVars, C!loopVars, Client!comVars,
         C!comVars, Client!setVars, C!setVars, C!historyVars

(* The two instances of the sink say the same. *)
LEMMA SameSink ==
  /\ Sink!Init => F!Init
  /\ \A n, ok : Sink!Write(n, ok) => F!Write(n, ok)
  /\ Sink!Flush => F!Flush
  /\ Sink!Destroy => F!Destroy
  /\ UNCHANGED sinkVars => UNCHANGED F!sinkVars
  BY DEF Sink!Init, F!Init, Sink!Write, F!Write, Sink!WriteUnusable,
         F!WriteUnusable, Sink!WriteDirect, F!WriteDirect, Sink!WriteCopy,
         F!WriteCopy, Sink!WriteSpill, F!WriteSpill, Sink!Usable, F!Usable,
         Sink!Written, F!Written, Sink!Flushed, F!Flushed, Sink!Run, F!Run,
         Sink!Flush, F!Flush, Sink!Sync, F!Sync, Sink!Destroy, F!Destroy,
         Sink!sinkVars, F!sinkVars, sinkVars

(* What process_commands() does after its loop. *)
Ending == ReleaseDevice \/ PostLoop \/ CloseAfterLoop

(* Every step of the program is a step of the client or leaves it alone. *)
LEMMA ClientStep ==
  ASSUME ProgramTypes, [Next]_vars
  PROVE  [C!Step]_(C!sessionVars)
<1> USE SameOperation, SameClient DEF C!Step
<1>1. CASE UNCHANGED sessionVars
  BY <1>1
<1>2. CASE MainConnect \/ MainOpen \/ MainProcess
  BY <1>2 DEF MainConnect, Connecting, MainOpen, Opening, MainProcess,
              Client!Operation
<1>3. CASE MainClose \/ MainCloseSet \/ MainReturn
  BY <1>3, <1>1 DEF MainClose, MainCloseSet, MainReturn, Client!Operation
<1>4. CASE TakeCommand
  <2>1. Head(queue[dev]) \in Commands
    BY <1>4 DEF TakeCommand, ProgramTypes
  <2> QED
    BY <1>4, <2>1 DEF TakeCommand
<1>5. CASE OpenDevice \/ TakeEnd \/ TakeTimeout \/ TakeAbort \/ Dispatch
  BY <1>5 DEF OpenDevice, TakeEnd, EndsLoop, TakeTimeout, TakeAbort, Dispatch,
              Client!Operation
<1>6. CASE SinkWrite \/ Complete \/ Ending
  BY <1>6 DEF SinkWrite, SinkNotAsked, Complete, Ending, ReleaseDevice,
              PostLoop, CloseAfterLoop, Client!Operation
<1>7. CASE MainLaunch \/ MainPrompt
  BY <1>1, <1>7 DEF MainLaunch, MainPrompt
<1>8. CASE \/ ServerStart \/ ServerAbort
           \/ \E d \in Devices, c \in Commands : ServerPost(d, c)
           \/ \E d \in Devices : ServerEnd(d)
  BY <1>1, <1>8 DEF ServerStart, ServerAbort, ServerPost, ServerEnd, ServerStep
<1> QED
  BY <1>1, <1>2, <1>3, <1>4, <1>5, <1>6, <1>7, <1>8
  DEF Next, MainStep, LoopStep, Ending, vars

(* The command in hand is one that SQL Server posted. *)
LEMMA WriteInHand ==
  ASSUME C!IInv, pc = "write"
  PROVE  cmd \in Commands /\ cmd.size \in Nat
  BY SizeType DEF C!IInv, C!Core, C!CommandInv, C!Holding

(* Every step of the program is a step of the sink or leaves it alone. *)
LEMMA SinkStep ==
  ASSUME C!IInv, [Next]_vars
  PROVE  [F!Step]_(F!sinkVars)
<1> USE SameSink DEF F!Step
<1>1. CASE UNCHANGED sinkVars
  BY <1>1
<1>2. CASE SinkFlush
  BY <1>1, <1>2 DEF SinkFlush
<1>3. CASE MainClose \/ TakeEnd \/ PostLoop
  BY <1>1, <1>2, <1>3 DEF MainClose, FlushOnClose, TakeEnd, PostLoop
<1>4. CASE MainReturn
  BY <1>1, <1>4 DEF MainReturn, SinkDestroy
<1>5. CASE SinkWrite
  <2>1. ASSUME NEW ok \in BOOLEAN, SinkAnswers(cmd.size, ok), pc = "write"
        PROVE  [F!Step]_(F!sinkVars)
    <3>1. cmd.size \in {c.size : c \in Commands}
      BY <2>1, WriteInHand
    <3> QED
      BY <1>1, <2>1, <3>1 DEF SinkAnswers
  <2> QED
    BY <1>1, <1>5, <2>1 DEF SinkWrite, Client!WriteStored, Client!WriteFails,
                            Client!Writing
<1>6. CASE MainConnect \/ MainLaunch \/ MainPrompt \/ MainOpen \/ MainProcess
  BY <1>1, <1>6 DEF MainConnect, Connecting, MainLaunch, MainPrompt, MainOpen,
                    Opening, MainProcess
<1>7. CASE \/ OpenDevice \/ TakeCommand \/ TakeTimeout \/ TakeAbort
           \/ Dispatch \/ Complete \/ ReleaseDevice \/ CloseAfterLoop
           \/ MainCloseSet
  BY <1>1, <1>7 DEF OpenDevice, TakeCommand, TakeTimeout, TakeAbort, Dispatch,
                    Complete, ReleaseDevice, CloseAfterLoop, MainCloseSet,
                    Serving
<1>8. CASE \/ ServerStart \/ ServerAbort
           \/ \E d \in Devices, c \in Commands : ServerPost(d, c)
           \/ \E d \in Devices : ServerEnd(d)
  BY <1>1, <1>8 DEF ServerStart, ServerAbort, ServerPost, ServerEnd, ServerStep
<1> QED
  BY <1>1, <1>3, <1>4, <1>5, <1>6, <1>7, <1>8
  DEF Next, MainStep, LoopStep, Ending, vars

(* The initial states satisfy the invariants of the components. *)
LEMMA InitBase == Init => Base
<1> SUFFICES ASSUME Init PROVE Base
  OBVIOUS
<1>1. C!IInv
  BY ClientAssumption, SameClient, C!InitInv DEF Init
<1>2. F!IInv
  BY SinkAssumption, SameSink, F!InitInv DEF Init
<1>3. ProgramTypes
  <2>1. <<>> \in Seq(Commands)
    OBVIOUS
  <2>2. queue \in [Devices -> Seq(Commands)]
    BY <2>1 DEF Init
  <2>3. use_file_sink \in BOOLEAN /\ auto_mode \in BOOLEAN
    BY Zenon DEF Init
  <2> QED
    BY <2>2, <2>3 DEF Init, ProgramTypes
<1> QED
  BY <1>1, <1>2, <1>3 DEF Base

(* Every step keeps the types. *)
LEMMA TypesStep ==
  ASSUME ProgramTypes, [Next]_vars
  PROVE  ProgramTypes'
<1> USE BackupAssumption DEF ProgramTypes, serverVars, mainVars, Args
<1>1. CASE \/ MainConnect \/ MainLaunch \/ MainPrompt \/ MainOpen
           \/ MainProcess \/ MainClose \/ MainCloseSet \/ MainReturn
  BY <1>1 DEF MainConnect, Connecting, MainLaunch, MainPrompt, MainOpen,
              Opening, MainProcess, MainClose, MainCloseSet, MainReturn
<1>2. CASE \/ OpenDevice \/ TakeEnd \/ TakeTimeout \/ TakeAbort \/ Dispatch
           \/ SinkWrite \/ Complete \/ Ending
  BY <1>2 DEF OpenDevice, TakeEnd, EndsLoop, TakeTimeout, TakeAbort, Dispatch,
              SinkWrite, Complete, Ending, ReleaseDevice, PostLoop,
              CloseAfterLoop, Returning, Serving, Running
<1>3. CASE TakeCommand
  <2>1. queue[dev] \in Seq(Commands) /\ Tail(queue[dev]) \in Seq(Commands)
    BY <1>3 DEF TakeCommand
  <2> QED
    BY <1>3, <2>1 DEF TakeCommand, Running
<1>4. ASSUME NEW d \in Devices, NEW c \in Commands, ServerPost(d, c)
      PROVE  ProgramTypes'
  <2>1. queue[d] \in Seq(Commands) /\ Append(queue[d], c) \in Seq(Commands)
    OBVIOUS
  <2> QED
    BY <1>4, <2>1 DEF ServerPost, ServerStep
<1>5. CASE \/ ServerStart \/ ServerAbort \/ \E d \in Devices : ServerEnd(d)
  BY <1>5 DEF ServerStart, ServerAbort, ServerEnd, ServerStep
<1>6. CASE UNCHANGED vars
  BY <1>6 DEF vars
<1> QED
  BY <1>1, <1>2, <1>3, <1>4, <1>5, <1>6 DEF Next, MainStep, LoopStep, Ending

(* Every step keeps the invariants of the components. *)
LEMMA BaseStep == Base /\ [Next]_vars => Base'
<1> SUFFICES ASSUME Base, [Next]_vars PROVE Base'
  OBVIOUS
<1>1. C!IInv'
  BY ClientStep, ClientAssumption, C!StepInv DEF Base
<1>2. F!IInv'
  BY SinkStep, SinkAssumption, F!StepInv DEF Base
<1>3. ProgramTypes'
  BY TypesStep DEF Base
<1> QED
  BY <1>1, <1>2, <1>3 DEF Base

(* Both components keep their own invariants in the composition. *)
LEMMA BaseInvariant == Spec => []Base
  BY InitBase, BaseStep, PTL DEF Spec

(* Client and Sink name the same types as C and F. *)
LEMMA SameTypes == Base => TypeOK
<1>1. C!TypeOK => Client!TypeOK
  BY DEF C!TypeOK, Client!TypeOK, C!States, Client!States, C!NoCommand,
         Client!NoCommand
<1>2. F!TypeOK => Sink!TypeOK
  BY DEF F!TypeOK, Sink!TypeOK
<1> QED
  BY <1>1, <1>2 DEF Base, C!IInv, C!Core, F!IInv, ProgramTypes, TypeOK

(* The variables of the program keep their types. *)
THEOREM BackupTypes == Spec => []TypeOK
  BY BaseInvariant, SameTypes, PTL

-----------------------------------------------------------------------------
(* Where main() is and where the client is keep in step. *)
LEMMA MainStepInv ==
  ASSUME Base, MainInv, [Next]_vars
  PROVE  MainInv'
<1> USE BackupAssumption
        DEF Base, MainInv, C!InLoop, C!IInv, C!Core, C!StateInv, C!SetInv, C!DeviceInv,
            Running, Serving, Args, sessionVars, Client!clientVars,
            Client!loopVars
<1>1. CASE MainConnect
  BY <1>1 DEF MainConnect, Connecting, Client!Connect, Client!ConnectNoCom,
              Client!ConnectNoSet, Client!Connecting
<1>2. CASE MainLaunch \/ MainPrompt
  BY <1>2 DEF MainLaunch, MainPrompt
<1>3. CASE MainOpen
  BY <1>3 DEF MainOpen, Opening, Client!OpenDevices,
              Client!OpenDevicesTimeout, Client!OpenDevicesFails,
              Client!Configuring
<1>4. CASE MainProcess
  BY <1>4 DEF MainProcess, Client!ProcessCommands
<1>5. CASE MainClose
  BY <1>5 DEF MainClose
<1>16. CASE MainCloseSet
  BY <1>16 DEF MainCloseSet, Client!Close, Client!CloseSession
<1>6. CASE MainReturn
  BY <1>6 DEF MainReturn, Client!Destroy, Client!CloseSession
<1>7. CASE OpenDevice
  <2>1. CASE Client!OpenDevice /\ UNCHANGED mpc
    <3>1. device_count_ = NDevices /\ Client!DeviceTarget = NDevices
      BY <1>7 DEF OpenDevice, Client!DeviceTarget
    <3> QED
      BY <1>7, <2>1, <3>1 DEF OpenDevice, Client!OpenDevice
  <2>2. CASE Client!OpenDeviceFails /\ mpc' = "close"
    BY <1>7, <2>2 DEF OpenDevice, Client!OpenDeviceFails
  <2> QED
    BY <1>7, <2>1, <2>2 DEF OpenDevice
<1>8. CASE TakeCommand
  BY <1>8 DEF TakeCommand, Client!GetCommand
<1>9. CASE TakeEnd \/ TakeTimeout \/ TakeAbort
  BY <1>9 DEF TakeEnd, EndsLoop, TakeTimeout, TakeAbort, Client!GetEnd,
              Client!GetNothing, Client!GetFails, Client!Break
<1>10. CASE Dispatch
  BY <1>10 DEF Dispatch, Client!Dispatch, Client!Break
<1>11. CASE SinkWrite
  BY <1>11 DEF SinkWrite, SinkNotAsked, Client!WriteInvalid, Client!WriteFails,
               Client!WriteStored, Client!Writing, Client!Break
<1>12. CASE Complete
  BY <1>12 DEF Complete, Client!CompleteCommand, Client!Completing,
               Client!CompleteFails, Client!Break
<1>13. CASE Ending
  <2>1. CASE ReleaseDevice
    BY <2>1 DEF ReleaseDevice, Client!ReleaseDevice, Client!Releasing
  <2>2. CASE PostLoop
    BY <2>2 DEF PostLoop, Returning, Client!PostLoop
  <2>3. CASE CloseAfterLoop
    BY <2>3 DEF CloseAfterLoop, Returning, Client!CloseAfterLoop,
                Client!CloseSession
  <2> QED
    BY <1>13, <2>1, <2>2, <2>3 DEF Ending
<1>14. CASE \/ ServerStart \/ ServerAbort
            \/ \E d \in Devices, c \in Commands : ServerPost(d, c)
            \/ \E d \in Devices : ServerEnd(d)
  BY <1>14 DEF ServerStart, ServerAbort, ServerPost, ServerEnd, ServerStep,
               mainVars
<1>15. CASE UNCHANGED vars
  BY <1>15 DEF vars, mainVars
<1> QED
  BY <1>1, <1>2, <1>3, <1>4, <1>5, <1>6, <1>7, <1>8, <1>9, <1>10, <1>11, <1>12,
     <1>13, <1>14, <1>15, <1>16 DEF Next, MainStep, LoopStep, Ending

(* main() drives the client through its life as MainInv says. *)
LEMMA MainInvariant == Spec => []MainInv
<1>1. Init => MainInv
  BY DEF Init, MainInv, Client!Init, C!InLoop
<1>2. Base /\ MainInv /\ [Next]_vars => MainInv'
  BY MainStepInv
<1> QED
  BY <1>1, <1>2, BaseInvariant, PTL DEF Spec

(* However the backup ends, or fails, the destructor leaves no device set.   *)
LEMMA SetReleased == Base /\ MainInv => (mpc = "exited" => setRefs = 0)
<1> SUFFICES ASSUME Base, MainInv, mpc = "exited" PROVE setRefs = 0
  OBVIOUS
<1>1. ~device_set_ /\ setRefs # 1
  BY DEF Base, MainInv, C!IInv, C!Core, C!SetInv
<1>2. setRefs \in Nat /\ setCloses \in Nat /\ setCloses + setRefs <= 1
  BY DEF Base, C!IInv, C!Core, C!TypeOK, C!SetInv
<1> QED
  BY <1>1, <1>2

(* One device: the vector of process_commands() holds the only interface.    *)
LEMMA OneDevice == Spec => []C!OneDeviceInv
<1>1. Init => C!OneDeviceInv
  BY DEF Init, Client!Init, C!OneDeviceInv
<1>2. Base /\ C!OneDeviceInv /\ [Next]_vars => C!OneDeviceInv'
  BY ClientStep, ClientAssumption, C!OneDeviceStep DEF Base
<1> QED
  BY <1>1, <1>2, BaseInvariant, PTL DEF Spec

(* With the one device that main() asks for, the program leaves neither a    *)
(* device interface nor the device set behind, whatever failed on the way:   *)
(* OpenDevice, the disk, SQL Server or the operator's backup command.        *)
THEOREM NothingLeftBehind ==
  ASSUME NDevices = 1
  PROVE  Spec => []ExitReleasesAll
<1>1. Base /\ MainInv /\ C!OneDeviceInv => ExitReleasesAll
  <2> SUFFICES ASSUME Base, MainInv, C!OneDeviceInv, mpc = "exited"
               PROVE  setRefs = 0 /\ deviceRefs = 0
    BY DEF ExitReleasesAll
  <2>1. setRefs = 0
    BY SetReleased
  <2>2. pc = "destroyed" /\ device_count_ = 1
    BY DEF MainInv
  <2>3. opened = 0
    BY <2>2 DEF Base, C!IInv, C!Core, C!DeviceInv, C!InRun, C!InLoop
  <2> QED
    BY <2>1, <2>2, <2>3 DEF C!OneDeviceInv
<1> QED
  BY <1>1, OneDevice, BaseInvariant, MainInvariant, PTL

(* The end of the loop, close() and the destructor are the only steps that   *)
(* release a device or the device set.                                       *)
LEMMA OnlyClosingReleases ==
  ASSUME Base, Next,
         \/ setCloses' # setCloses
         \/ setRefs' < setRefs
         \/ deviceRefs' < deviceRefs
  PROVE  MainCloseSet \/ MainReturn \/ ReleaseDevice \/ CloseAfterLoop
<1>1. deviceRefs \in Nat /\ setRefs \in Nat
  BY DEF Base, C!IInv, C!Core, C!TypeOK
<1>2. ~MainConnect
  <2> SUFFICES ASSUME MainConnect PROVE FALSE
    OBVIOUS
  <2>1. UNCHANGED <<setCloses, deviceRefs>>
    BY DEF MainConnect, Connecting, Client!Connect, Client!ConnectNoCom,
           Client!ConnectNoSet, Client!Connecting
  <2>2. setRefs' = setRefs + 1 \/ setRefs' = setRefs
    BY DEF MainConnect, Connecting, Client!Connect, Client!ConnectNoCom,
           Client!ConnectNoSet
  <2> QED
    BY <1>1, <2>1, <2>2
<1>3. ~OpenDevice
  <2> SUFFICES ASSUME OpenDevice PROVE FALSE
    OBVIOUS
  <2>1. UNCHANGED <<setCloses, setRefs>>
    BY DEF OpenDevice, Client!OpenDevice, Client!OpenDeviceFails,
           Client!comVars, Client!setVars
  <2>2. deviceRefs' = deviceRefs + 1 \/ deviceRefs' = deviceRefs
    BY DEF OpenDevice, Client!OpenDevice, Client!OpenDeviceFails,
           Client!comVars
  <2> QED
    BY <1>1, <2>1, <2>2
<1>4. ~(MainLaunch \/ MainPrompt \/ MainOpen \/ MainProcess \/ MainClose)
  BY <1>1 DEF MainClose, MainLaunch, MainPrompt, MainOpen, Opening, Client!OpenDevices,
              Client!OpenDevicesTimeout, Client!OpenDevicesFails,
              Client!Configuring, MainProcess, Client!ProcessCommands,
              Client!comVars, Client!setVars, sessionVars
<1>5. ~(\/ TakeCommand \/ TakeEnd \/ TakeTimeout \/ TakeAbort
        \/ Dispatch \/ SinkWrite \/ Complete \/ PostLoop)
  <2> SUFFICES ASSUME \/ TakeCommand \/ TakeEnd \/ TakeTimeout \/ TakeAbort
                      \/ Dispatch \/ SinkWrite \/ Complete \/ PostLoop
               PROVE  UNCHANGED <<setCloses, setRefs, deviceRefs>>
    BY <1>1
  <2> QED
    BY DEF TakeCommand, TakeEnd, EndsLoop, TakeTimeout, TakeAbort, Dispatch,
           SinkWrite, SinkNotAsked, Complete, PostLoop, Client!GetCommand,
           Client!GetEnd, Client!GetNothing, Client!GetFails,
           Client!Dispatch, Client!WriteInvalid, Client!WriteFails,
           Client!WriteStored, Client!Writing, Client!CompleteCommand,
           Client!Completing, Client!CompleteFails, Client!PostLoop,
           Client!comVars, Client!setVars
<1>6. ~(\/ ServerStart \/ ServerAbort
        \/ \E d \in Devices, c \in Commands : ServerPost(d, c)
        \/ \E d \in Devices : ServerEnd(d))
  BY <1>1 DEF ServerStart, ServerAbort, ServerPost, ServerEnd, ServerStep,
              sessionVars
<1> QED
  BY <1>2, <1>3, <1>4, <1>5, <1>6 DEF Next, MainStep, LoopStep

(* Whichever of the loop's end, close() and the destructor closes the device *)
(* set, the only device was released before that call.                       *)
THEOREM DevicesReleasedFirst ==
  ASSUME NDevices = 1
  PROVE  Spec => DevicesBeforeSet
<1> DEFINE Order == setCloses' > setCloses => deviceRefs = 0
<1>1. ASSUME Base, MainInv, C!OneDeviceInv, [Next]_vars
      PROVE  [Order]_vars
  <2> SUFFICES ASSUME Next, setCloses' > setCloses PROVE deviceRefs = 0
    BY <1>1
  <2>1. setCloses \in Nat /\ setCloses' # setCloses
    BY <1>1 DEF Base, C!IInv, C!Core, C!TypeOK
  <2>2. ~ReleaseDevice
    BY <2>1 DEF ReleaseDevice, Client!ReleaseDevice, Client!Releasing,
                Client!setVars
  <2>3. pc \in {"idle", "close"} /\ mpc # "connect"
    BY <1>1, <2>1, <2>2, OnlyClosingReleases
       DEF MainCloseSet, MainReturn, CloseAfterLoop, Running, Client!Close,
           Client!Destroy, Client!CloseAfterLoop
  <2>4. opened = 0
    BY <1>1, <2>3 DEF Base, C!IInv, C!Core, C!DeviceInv, C!InRun, C!InLoop
  <2>5. device_count_ = 1
    BY <1>1, <2>3 DEF MainInv
  <2> QED
    BY <1>1, <2>4, <2>5 DEF C!OneDeviceInv
<1> QED
  BY <1>1, OneDevice, BaseInvariant, MainInvariant, PTL
  DEF Spec, DevicesBeforeSet

-----------------------------------------------------------------------------
(* A step that serves nothing: the counts of what was served stand. *)
ServesNothing == UNCHANGED <<offered, total_bytes, completed, acked, clean>>

(* Only the command loop serves. *)
LEMMA MainServesNothing ==
  ASSUME \/ MainConnect \/ MainLaunch \/ MainPrompt \/ MainOpen \/ MainProcess
         \/ MainClose \/ MainCloseSet \/ MainReturn \/ OpenDevice
         \/ ServerStart \/ ServerAbort
         \/ \E d \in Devices, c \in Commands : ServerPost(d, c)
         \/ \E d \in Devices : ServerEnd(d)
  PROVE  ServesNothing
<1> USE DEF ServesNothing, sessionVars, sinkVars, mainVars,
            Client!metricVars, Client!historyVars
<1>1. SinkFlush => offered' = offered
  BY DEF SinkFlush, Sink!Flush
<1>2. CASE MainClose
  BY <1>1, <1>2 DEF MainClose, FlushOnClose
<1>7. CASE MainCloseSet
  BY <1>7 DEF MainCloseSet, Client!Close
<1>3. CASE MainReturn
  BY <1>3 DEF MainReturn, Client!Destroy, SinkDestroy, Sink!Destroy
<1>4. CASE MainConnect \/ MainLaunch \/ MainPrompt \/ MainOpen \/ MainProcess
  BY <1>4 DEF MainConnect, Connecting, Client!Connect, Client!ConnectNoCom,
              Client!ConnectNoSet, Client!Connecting, MainLaunch, MainPrompt,
              MainOpen, Opening, Client!OpenDevices,
              Client!OpenDevicesTimeout, Client!OpenDevicesFails,
              Client!Configuring, MainProcess, Client!ProcessCommands
<1>5. CASE OpenDevice
  BY <1>5 DEF OpenDevice, Client!OpenDevice, Client!OpenDeviceFails
<1>6. CASE \/ ServerStart \/ ServerAbort
           \/ \E d \in Devices, c \in Commands : ServerPost(d, c)
           \/ \E d \in Devices : ServerEnd(d)
  BY <1>6 DEF ServerStart, ServerAbort, ServerPost, ServerEnd, ServerStep
<1> QED
  BY <1>2, <1>3, <1>4, <1>5, <1>6, <1>7

(* A step of the command loop is one of a run that has not failed to start. *)
LEMMA LoopRuns ==
  ASSUME \/ TakeCommand \/ TakeEnd \/ TakeTimeout \/ TakeAbort \/ Dispatch
         \/ SinkWrite \/ Complete \/ Ending
  PROVE  /\ mpc = "processing" /\ UNCHANGED <<exit_code, use_file_sink>>
         /\ pc \in {"GetCommand", "dispatch", "write", "complete", "leave",
                    "close"}
         /\ pc \in {"leave", "close"} => Ending
         /\ pc' # "OpenDevice"
  BY DEF TakeCommand, TakeEnd, EndsLoop, TakeTimeout, TakeAbort, Dispatch,
         SinkWrite, SinkNotAsked, Complete, Ending, ReleaseDevice, PostLoop,
         CloseAfterLoop, Serving, Running, Args,
         Client!GetCommand, Client!GetEnd, Client!GetNothing, Client!GetFails,
         Client!Dispatch, Client!WriteInvalid, Client!WriteFails,
         Client!WriteStored, Client!Writing, Client!CompleteCommand,
         Client!Completing, Client!CompleteFails, Client!ReleaseDevice,
         Client!Releasing, Client!PostLoop, Client!CloseAfterLoop,
         Client!Break, Client!loopVars

(* Exit code and reported end are as ExitInv says. *)
LEMMA ExitStep ==
  ASSUME Base, MainInv, MainInv', ExitInv, [Next]_vars
  PROVE  ExitInv'
<1> USE DEF ExitInv, Unserved, Args
<1>1. CASE MainConnect \/ MainLaunch \/ MainPrompt \/ MainOpen \/ MainProcess
  <2>1. ServesNothing /\ Unserved
    BY <1>1, MainServesNothing
       DEF MainConnect, Connecting, MainLaunch, MainPrompt, MainOpen, Opening,
           MainProcess
  <2>2. exit_code' = 1 => mpc' \in {"close", "closing", "return", "exited"}
    BY <1>1 DEF MainConnect, Connecting, MainLaunch, MainPrompt, MainOpen,
                Opening, MainProcess
  <2> QED
    BY <2>1, <2>2 DEF ServesNothing
<1>2. CASE MainClose \/ MainCloseSet \/ MainReturn
  <2>1. /\ ServesNothing /\ exit_code' = exit_code
        /\ mpc' \in {"closing", "return", "exited"}
    BY <1>2, MainServesNothing DEF MainClose, MainCloseSet, MainReturn
  <2>2. pc' # "OpenDevice"
    BY <2>1 DEF MainInv
  <2> QED
    BY <2>1, <2>2 DEF ServesNothing
<1>3. CASE OpenDevice
  <2>1. ServesNothing /\ exit_code' = exit_code /\ exit_code # 1 /\ Unserved
    BY <1>3, MainServesNothing DEF OpenDevice, Running, Client!OpenDevice,
                                   Client!OpenDeviceFails
  <2> QED
    BY <2>1 DEF ServesNothing
<1>4. CASE \/ ServerStart \/ ServerAbort
           \/ \E d \in Devices, c \in Commands : ServerPost(d, c)
           \/ \E d \in Devices : ServerEnd(d)
  <2>1. ServesNothing
    BY <1>4, MainServesNothing
  <2>2. UNCHANGED <<mpc, exit_code, pc, state_>>
    BY <1>4 DEF ServerStart, ServerAbort, ServerPost, ServerEnd, ServerStep,
                sessionVars, mainVars
  <2> QED
    BY <2>1, <2>2 DEF ServesNothing
<1>5. CASE \/ TakeCommand \/ TakeEnd \/ TakeTimeout \/ TakeAbort \/ Dispatch
           \/ SinkWrite \/ Complete \/ Ending
  <2>1. /\ mpc = "processing" /\ exit_code # 1 /\ exit_code' # 1
        /\ mpc' \in {"processing", "close"} /\ pc' # "OpenDevice"
    BY <1>5, LoopRuns
       DEF TakeCommand, TakeEnd, EndsLoop, TakeTimeout, TakeAbort, Dispatch,
           SinkWrite, Complete, Ending, ReleaseDevice, PostLoop,
           CloseAfterLoop, Returning, Serving
  <2>2. clean' /\ mpc' = "processing" =>
          pc' \in {"leave", "close"} /\ state_' = "FLUSHING"
    <3>1. CASE Ending
      <4>1. clean' = clean /\ (mpc' = "processing" => state_' = state_)
        BY <2>1, <3>1
           DEF Ending, ReleaseDevice, PostLoop, CloseAfterLoop, Returning,
               Serving, Client!ReleaseDevice, Client!Releasing,
               Client!PostLoop, Client!CloseAfterLoop, Client!clientVars
      <4>2. mpc' = "processing" => pc' \in {"leave", "close"}
        BY <2>1, <3>1
           DEF Ending, ReleaseDevice, PostLoop, CloseAfterLoop, Returning,
               Serving, Client!ReleaseDevice, Client!Releasing,
               Client!PostLoop, Client!CloseAfterLoop
      <4> QED
        BY <2>1, <4>1, <4>2
    <3>2. CASE TakeEnd
      BY <3>2 DEF TakeEnd, EndsLoop, Client!GetEnd, Client!Break
    <3>3. CASE \/ TakeCommand \/ TakeTimeout \/ TakeAbort \/ Dispatch
               \/ SinkWrite \/ Complete
      <4>1. clean' = clean
        BY <3>3 DEF TakeCommand, TakeTimeout, TakeAbort, Dispatch, SinkWrite,
                    Complete, Serving
      <4> QED
        BY <2>1, <3>1, <4>1, <1>5, LoopRuns
    <3> QED
      BY <1>5, <3>1, <3>2, <3>3
  <2> QED
    BY <2>1, <2>2
<1>6. CASE UNCHANGED vars
  BY <1>6 DEF vars, sessionVars, sinkVars, mainVars
<1> QED
  BY <1>1, <1>2, <1>3, <1>4, <1>5, <1>6 DEF Next, MainStep, LoopStep, Ending

(* What the exits of the program leave, in every state. *)
LEMMA ExitInvariant == Spec => []ExitInv
<1>1. Init => ExitInv
  BY DEF Init, Client!Init, Sink!Init, ExitInv, Unserved
<1>2. Base /\ MainInv /\ MainInv' /\ ExitInv /\ [Next]_vars => ExitInv'
  BY ExitStep
<1> QED
  BY <1>1, <1>2, BaseInvariant, MainInvariant, PTL DEF Spec

(* Exit code 1 says that nothing was taken of the backup, and a backup that  *)
(* ended well exits with 0.                                                  *)
THEOREM ExitCodeHonest == Spec => []ExitCodeTells
<1>1. Base /\ ExitInv => ExitCodeTells
  BY DEF Base, ProgramTypes, ExitInv, Unserved, ExitCodeTells
<1> QED
  BY <1>1, BaseInvariant, ExitInvariant, PTL

-----------------------------------------------------------------------------
(* main(), SQL Server and process_commands() make the client do nothing that *)
(* VdiSession does not allow.                                                *)
THEOREM ClientRefined == Spec => C!Init /\ [][C!Step]_(C!sessionVars)
<1>1. Init => C!Init
  BY SameClient DEF Init
<1>2. Base /\ [Next]_vars => [C!Step]_(C!sessionVars)
  BY ClientStep DEF Base
<1> QED
  BY <1>1, <1>2, BaseInvariant, PTL DEF Spec

(* What VdiSession promises of a client on its own holds of it in the        *)
(* program: the set closed once, no call through a released interface, every *)
(* command answered, metrics that agree, and legal transitions.              *)
THEOREM ClientCorrect ==
  Spec => /\ [](/\ Client!SetClosedOnce /\ Client!LoopHoldsObjects
                /\ Client!AnsweredOnce /\ Client!MetricsAgree)
          /\ Client!LegalTransitions
<1>1. C!IInv => /\ Client!SetClosedOnce /\ Client!LoopHoldsObjects
                /\ Client!AnsweredOnce /\ Client!MetricsAgree
  BY ClientAssumption, C!Consequences
     DEF Client!SetClosedOnce, C!SetClosedOnce, Client!LoopHoldsObjects,
         C!LoopHoldsObjects, Client!InLoop, C!InLoop, Client!AnsweredOnce,
         C!AnsweredOnce, Client!MetricsAgree, C!MetricsAgree
<1>2. Base /\ [Next]_vars => [C!Legal]_(C!sessionVars)
  BY ClientStep, ClientAssumption, C!LegalStep DEF Base
<1>3. [C!Legal]_(C!sessionVars) => [C!Legal]_(Client!sessionVars)
  BY DEF C!Legal, C!sessionVars, C!clientVars
<1> QED
  BY <1>1, <1>2, <1>3, BaseInvariant, PTL
  DEF Spec, Base, Client!LegalTransitions, C!Legal

(* The calls that the client makes to its FileSink are such that the sink    *)
(* keeps every promise proved of it: the buffer never overflows, the bytes   *)
(* reach the file in order, and none is lost or made up but by the disk.     *)
THEOREM SinkCorrect ==
  Spec => /\ [](/\ Sink!BufferFits /\ Sink!InOrder
                /\ Sink!Conserved /\ Sink!Intact)
          /\ F!ImplementsDurableLog
<1>1. F!IInv => Sink!BufferFits /\ Sink!InOrder /\ Sink!Conserved /\ Sink!Intact
  BY DEF F!IInv, F!BufferFits, Sink!BufferFits, F!InOrder, Sink!InOrder,
         F!Conserved, Sink!Conserved, F!Intact, Sink!Intact
<1>2. Init => F!Promise!Init
  BY SinkAssumption, SameSink, F!InitSimulation DEF Init
<1>3. Base /\ [Next]_vars =>
        [F!Promise!Next]_<<F!Lossless,
                           IF F!Lossless THEN file \o buffered ELSE <<>>,
                           IF F!Lossless THEN synced ELSE 0>>
  BY SinkStep, SinkAssumption, F!StepSimulation DEF Base
<1> QED
  BY <1>1, <1>2, <1>3, BaseInvariant, PTL
  DEF Spec, Base, F!ImplementsDurableLog, F!Promise!Spec

-----------------------------------------------------------------------------
(* What an answer of write() means for the bytes offered and refused.  A     *)
(* write() that fails may have put the chunk, but never all of it, in the    *)
(* file.                                                                     *)
LEMMA SinkAnswer ==
  ASSUME Base, NEW n \in Nat, NEW ok \in BOOLEAN, Sink!Write(n, ok)
  PROVE  /\ offered' \in Nat /\ refused' \in Nat
         /\ offered' + refused >= offered + refused'
         /\ ok => offered' = offered + n /\ refused' = refused
<1> USE DEF Base, F!IInv, F!TypeOK
<1>1. CASE Sink!WriteUnusable(n, ok)
  BY <1>1 DEF Sink!WriteUnusable, Sink!sinkVars
<1>2. CASE Sink!WriteDirect(n, ok)
  <2>1. PICK k \in Sink!Written(n) :
          /\ refused' = refused + (n - k)
          /\ ok = (k = n)
    BY <1>2 DEF Sink!WriteDirect
  <2>2. k \in 0 .. n
    BY <2>1 DEF Sink!Written
  <2>3. offered' = offered + n
    BY <1>2 DEF Sink!WriteDirect
  <2>4. ok => k = n
    BY Zenon, <2>1
  <2> QED
    BY <2>1, <2>2, <2>3, <2>4
<1>3. CASE Sink!WriteCopy(n, ok)
  BY <1>3 DEF Sink!WriteCopy
<1>4. CASE Sink!WriteSpill(n, ok)
  BY <1>4 DEF Sink!WriteSpill
<1> QED
  BY <1>1, <1>2, <1>3, <1>4 DEF Sink!Write

(* A flush, and the destructor, offer nothing and refuse nothing. *)
LEMMA FlushOffersNothing ==
  ASSUME SinkFlush \/ SinkDestroy
  PROVE  UNCHANGED <<offered, refused>>
  BY DEF SinkFlush, SinkDestroy, Sink!Flush, Sink!Destroy, sinkVars

(* A step that leaves the account of bytes as it is. *)
LEMMA StoreUnchanged ==
  ASSUME StoreInv, UNCHANGED <<offered, refused, acked, clean, use_file_sink>>,
         C!Active' => C!Active, C!Active' => C!Unacked' = C!Unacked
  PROVE  StoreInv'
  BY DEF StoreInv

(* A session that is over stays over. *)
LEMMA OverStays ==
  ASSUME Base, [Next]_vars, C!Active'
  PROVE  C!Active
<1>1. [C!Legal]_(C!sessionVars)
  BY ClientStep, ClientAssumption, C!LegalStep DEF Base
<1> QED
  BY <1>1 DEF C!Legal, C!Active, C!sessionVars, C!clientVars

(* The client of a live session holds a chunk that is accepted and not       *)
(* acknowledged only where it completes the command.                         *)
LEMMA NoChunkHeld ==
  ASSUME Base, Base'
  PROVE  /\ C!Active /\ pc # "complete" => C!Unacked = 0
         /\ C!Active' /\ pc' # "complete" => C!Unacked' = 0
<1> USE DEF Base, C!IInv, C!Core, C!CommandInv, C!Holding, C!InLoop,
            C!NoCommand, C!Unacked
<1>1. C!Active /\ pc # "complete" => C!Unacked = 0
  OBVIOUS
<1>2. C!Active' /\ pc' # "complete" => C!Unacked' = 0
  OBVIOUS
<1> QED
  BY <1>1, <1>2

(* Acknowledged bytes are accepted bytes, step by step. *)
LEMMA StoreStep ==
  ASSUME Base, Base', MainInv, MainInv', ExitInv, StoreInv, [Next]_vars
  PROVE  StoreInv'
<1>1. C!Active' => C!Active
  BY OverStays
<1>2. CASE \/ MainConnect \/ MainLaunch \/ MainPrompt \/ MainOpen \/ MainProcess
           \/ MainClose \/ MainCloseSet \/ MainReturn \/ OpenDevice
  <2>1. UNCHANGED <<offered, acked, clean>>
    BY <1>2, MainServesNothing DEF ServesNothing
  <2>2. UNCHANGED <<refused, use_file_sink>>
    BY <1>2, FlushOffersNothing
       DEF MainConnect, Connecting, MainLaunch, MainPrompt, MainOpen, Opening,
           MainProcess, MainClose, FlushOnClose, MainCloseSet, MainReturn,
           OpenDevice, Running, sinkVars, Args
  <2>3. pc # "complete" /\ pc' # "complete"
    <3>1. CASE OpenDevice \/ MainProcess
      BY <3>1 DEF OpenDevice, MainProcess, Client!OpenDevice,
                  Client!OpenDeviceFails, Client!ProcessCommands
    <3>2. CASE ~(OpenDevice \/ MainProcess)
      <4>1. mpc # "processing" /\ mpc' # "processing"
        BY <1>2, <3>2
           DEF MainConnect, Connecting, MainLaunch, MainPrompt, MainOpen,
               Opening, MainClose, MainCloseSet, MainReturn
      <4> QED
        BY <4>1 DEF MainInv
    <3> QED
      BY <3>1, <3>2
  <2> QED
    BY <1>1, <2>1, <2>2, <2>3, NoChunkHeld, StoreUnchanged
<1>3. CASE \/ ServerStart \/ ServerAbort
           \/ \E d \in Devices, c \in Commands : ServerPost(d, c)
           \/ \E d \in Devices : ServerEnd(d)
  BY <1>1, <1>3, StoreUnchanged
     DEF ServerStart, ServerAbort, ServerPost, ServerEnd, ServerStep,
         sessionVars, sinkVars, mainVars, C!Unacked
<1>4. CASE TakeCommand \/ TakeTimeout \/ TakeAbort \/ Dispatch
  <2>1. UNCHANGED <<offered, refused, acked, clean, use_file_sink>>
    BY <1>4 DEF TakeCommand, TakeTimeout, TakeAbort, Dispatch, Serving,
                Running, Args, sinkVars, Client!GetCommand, Client!GetNothing,
                Client!GetFails, Client!Dispatch, Client!historyVars
  <2>2. pc # "complete"
    BY <1>4 DEF TakeCommand, TakeTimeout, TakeAbort, Dispatch,
                Client!GetCommand, Client!GetNothing, Client!GetFails,
                Client!Dispatch
  <2>3. pc' = "complete" => C!Unacked' = 0
    <3> SUFFICES ASSUME pc' = "complete" PROVE C!Unacked' = 0
      OBVIOUS
    <3>1. /\ pc = "dispatch" /\ pending' = pending
          /\ cmd.code # "VDC_Write"
      BY <1>4 DEF TakeCommand, TakeTimeout, TakeAbort, Dispatch,
                  Client!GetCommand, Client!GetNothing, Client!GetFails,
                  Client!Dispatch, Client!Break, Client!loopVars,
                  Client!historyVars
    <3>2. pending = cmd
      BY <3>1 DEF Base, C!IInv, C!Core, C!CommandInv, C!InLoop
    <3> QED
      BY <3>1, <3>2 DEF C!Unacked
  <2> QED
    BY <1>1, <2>1, <2>2, <2>3, NoChunkHeld, StoreUnchanged
<1>5. CASE TakeEnd
  <2>1. /\ pc = "GetCommand" /\ pc' = "leave"
        /\ UNCHANGED <<acked, use_file_sink, offered, refused>>
    BY <1>5, FlushOffersNothing
       DEF TakeEnd, EndsLoop, Running, Args, Client!GetEnd, Client!Break,
           Client!historyVars
  <2>2. C!Active /\ C!Unacked = 0 /\ (C!Active' => C!Unacked' = 0)
    <3>1. C!Active
      BY <2>1 DEF Base, C!IInv, C!Core, C!StateInv, C!InLoop, C!Active
    <3> QED
      BY <2>1, <3>1, NoChunkHeld
  <2>3. use_file_sink =>
          acked + refused <= offered /\ acked + 0 = offered /\ refused = 0
    BY <2>2 DEF StoreInv
  <2>4. acked \in Nat
    BY DEF Base, C!IInv, C!Core, C!TypeOK
  <2> QED
    BY <2>1, <2>2, <2>3, <2>4 DEF StoreInv
<1>6. CASE SinkWrite
  <2>1. pc = "write" /\ UNCHANGED <<acked, clean, use_file_sink>>
    BY <1>6 DEF SinkWrite, SinkNotAsked, Running, Args, Client!WriteInvalid,
                Client!WriteFails, Client!WriteStored, Client!Writing,
                Client!historyVars
  <2>2. /\ cmd.code = "VDC_Write" /\ cmd.size \in Nat /\ C!Active
        /\ pending = cmd /\ pending' = pending /\ C!Unacked = 0
    <3>1. cmd.code = "VDC_Write" /\ C!Active /\ pending = cmd
      BY <2>1 DEF Base, C!IInv, C!Core, C!CommandInv, C!StateInv, C!InLoop,
                  C!Active
    <3>2. pending' = pending
      BY <1>6 DEF SinkWrite, SinkNotAsked, Client!WriteInvalid,
                  Client!WriteFails, Client!WriteStored, Client!Writing,
                  Client!historyVars
    <3> QED
      BY <2>1, <3>1, <3>2, WriteInHand, NoChunkHeld DEF Base
  <2>3. ~clean
    BY <2>1 DEF MainInv, ExitInv
  <2>4. use_file_sink => acked = offered /\ refused = 0
    BY <2>2 DEF StoreInv, Base, C!IInv, C!Core, C!TypeOK
  <2>5. acked \in Nat /\ offered \in Nat /\ refused \in Nat
    BY DEF Base, C!IInv, C!Core, C!TypeOK, F!IInv, F!TypeOK
  <2>6. CASE Client!WriteStored /\ SinkAnswers(cmd.size, TRUE)
    <3>1. use_file_sink => offered' = offered + cmd.size /\ refused' = refused
      BY <2>2, <2>6, SinkAnswer DEF SinkAnswers
    <3>2. C!Unacked' = cmd.size
      BY <2>2, <2>6 DEF Client!WriteStored, C!Unacked
    <3> QED
      BY <2>1, <2>2, <2>3, <2>4, <2>5, <3>1, <3>2 DEF StoreInv
  <2>7. CASE Client!WriteFails /\ SinkAnswers(cmd.size, FALSE)
    <3>1. use_file_sink => /\ offered' + refused >= offered + refused'
                           /\ offered' \in Nat /\ refused' \in Nat
      BY <2>2, <2>7, SinkAnswer DEF SinkAnswers
    <3>2. ~C!Active'
      BY <2>7 DEF Client!WriteFails, Client!Break, C!Active
    <3> QED
      BY <2>1, <2>3, <2>4, <2>5, <3>1, <3>2 DEF StoreInv
  <2>8. CASE SinkNotAsked /\ UNCHANGED sinkVars
    <3>1. ~C!Active'
      BY <2>8 DEF SinkNotAsked, Client!WriteInvalid, Client!WriteFails,
                  Client!Break, C!Active
    <3> QED
      BY <2>1, <2>3, <2>4, <2>5, <2>8, <3>1 DEF StoreInv, sinkVars
  <2> QED
    BY <1>6, <2>6, <2>7, <2>8 DEF SinkWrite
<1>7. CASE Complete
  <2>1. /\ pc = "complete"
        /\ UNCHANGED <<offered, refused, clean, use_file_sink>>
    BY <1>7 DEF Complete, Client!CompleteCommand, Client!Completing,
                Client!CompleteFails,
                Serving, Running, Args, sinkVars
  <2>2. C!Active /\ ~clean
    BY <2>1 DEF Base, C!IInv, C!Core, C!StateInv, C!InLoop, C!Active, MainInv, ExitInv
  <2>3. acked \in Nat /\ C!Unacked \in Nat /\ offered \in Nat
    <3>1. pending \in Commands
      BY <2>1 DEF Base, C!IInv, C!Core, C!CommandInv, C!InLoop, C!Holding
    <3> QED
      BY <3>1, SizeType DEF Base, C!IInv, C!Core, C!TypeOK, F!IInv, F!TypeOK, C!Unacked
  <2>4. use_file_sink => acked + C!Unacked = offered /\ refused = 0
    BY <2>2 DEF StoreInv
  <2>5. CASE Client!CompleteCommand
    <3>3. pending = cmd /\ pending'.code = "none"
      BY <2>1, <2>5
         DEF Base, C!IInv, C!Core, C!CommandInv, C!InLoop,
             Client!CompleteCommand, Client!Completing, Client!NoCommand
    <3>1. acked' = acked + C!Unacked
      BY <2>1, <2>3, <2>5, <3>3
         DEF Client!CompleteCommand, Client!Completing, C!Unacked
    <3>2. C!Unacked' = 0
      BY <3>3 DEF C!Unacked
    <3> QED
      BY <2>1, <2>2, <2>3, <2>4, <3>1, <3>2 DEF StoreInv
  <2>6. CASE Client!CompleteFails
    <3>1. acked' = acked /\ ~C!Active'
      BY <2>6 DEF Client!CompleteFails, Client!Break, Client!historyVars,
                  C!Active
    <3> QED
      BY <2>1, <2>2, <2>3, <2>4, <3>1 DEF StoreInv
  <2> QED
    BY <1>7, <2>5, <2>6 DEF Complete
<1>8. CASE Ending
  <2>1. UNCHANGED <<acked, clean, use_file_sink>>
    BY <1>8 DEF Ending, ReleaseDevice, PostLoop, CloseAfterLoop, Returning,
                Serving, Running, Args, Client!ReleaseDevice,
                Client!Releasing, Client!PostLoop, Client!CloseAfterLoop,
                Client!historyVars
  <2>2. UNCHANGED <<offered, refused>>
    BY <1>8, FlushOffersNothing
       DEF Ending, ReleaseDevice, PostLoop, CloseAfterLoop, Serving, sinkVars
  <2>3. pc # "complete" /\ pc' # "complete"
    BY <1>8 DEF Ending, ReleaseDevice, PostLoop, CloseAfterLoop,
                Client!ReleaseDevice, Client!Releasing, Client!PostLoop,
                Client!CloseAfterLoop
  <2> QED
    BY <1>1, <2>1, <2>2, <2>3, NoChunkHeld, StoreUnchanged
<1>9. CASE UNCHANGED vars
  BY <1>1, <1>9, StoreUnchanged DEF vars, sessionVars, sinkVars, mainVars,
                                    C!Unacked
<1> QED
  BY <1>2, <1>3, <1>4, <1>5, <1>6, <1>7, <1>8, <1>9
  DEF Next, MainStep, LoopStep, Ending

(* What the acknowledged bytes say of the file, in every state. *)
LEMMA StoreInvariant == Spec => []StoreInv
<1>1. Init => StoreInv
  BY DEF Init, Client!Init, Client!NoCommand, Sink!Init, StoreInv, C!Unacked
<1>2. /\ Base /\ Base' /\ MainInv /\ MainInv' /\ ExitInv /\ StoreInv
      /\ [Next]_vars
      => StoreInv'
  BY StoreStep
<1> QED
  BY <1>1, <1>2, BaseInvariant, MainInvariant, ExitInvariant, PTL DEF Spec

(* SQL Server is told of no byte that the sink has not accepted, whatever    *)
(* the disk does and wherever the backup breaks off; and no byte accepted is *)
(* kept from it for longer than the command in hand.                         *)
THEOREM AcknowledgedIsStored == Spec => []AckedIsStored
<1>1. Base /\ StoreInv => AckedIsStored
  <2> SUFFICES ASSUME Base, StoreInv, use_file_sink
               PROVE  /\ acked <= Len(file) + Len(buffered) + dropped
                      /\ pc = "GetCommand" \/ clean =>
                           acked = offered /\ refused = 0
    BY DEF AckedIsStored
  <2>1. /\ acked \in Nat /\ offered \in Nat /\ refused \in Nat
        /\ dropped \in Nat /\ Len(file) \in Nat /\ Len(buffered) \in Nat
    BY DEF Base, C!IInv, C!Core, C!TypeOK, F!IInv, F!TypeOK
  <2>2. acked + refused <= offered
    BY DEF StoreInv
  <2>3. Len(file) + Len(buffered) + dropped + refused = offered
    BY DEF Base, F!IInv, F!Conserved
  <2>4. acked <= Len(file) + Len(buffered) + dropped
    BY ONLY <2>1, <2>2, <2>3
  <2>5. ASSUME pc = "GetCommand" PROVE acked = offered /\ refused = 0
    <3>1. C!Active /\ C!Unacked = 0
      BY <2>5 DEF Base, C!IInv, C!Core, C!StateInv, C!CommandInv, C!InLoop,
                  C!Holding, C!NoCommand, C!Active, C!Unacked
    <3> QED
      BY <2>1, <3>1 DEF StoreInv
  <2> QED
    BY <2>4, <2>5 DEF StoreInv
<1> QED
  BY <1>1, BaseInvariant, StoreInvariant, PTL

-----------------------------------------------------------------------------
(* The lengths that the account of bytes is made of. *)
LEMMA Lengths ==
  ASSUME Base
  PROVE  /\ Len(file) \in Nat /\ Len(buffered) \in Nat /\ synced \in Nat
         /\ offered \in Nat /\ dropped \in Nat /\ refused \in Nat
         /\ Len(file) + Len(buffered) + dropped + refused = offered
  BY DEF Base, F!IInv, F!TypeOK, F!Conserved

(* On a disk that works a flush puts all that was offered in the file, and   *)
(* syncs it if there is a file.                                              *)
LEMMA HealthyFlush ==
  ASSUME ~DiskFaults, Base, Base', DurableInv, mpc # "exited", Sink!Flush
  PROVE  /\ dropped' = 0 /\ refused' = 0
         /\ offered' = offered /\ file_handle_' = file_handle_
         /\ buffered' = <<>> /\ synced' = Len(file')
<1>1. /\ dropped' = dropped /\ refused' = refused
      /\ offered' = offered /\ file_handle_' = file_handle_ /\ buffered' = <<>>
  BY Lengths DEF Sink!Flush, Sink!Written
<1>2. Len(file') = offered
  <2>1. Len(file') + 0 + 0 + 0 = offered /\ Len(file') \in Nat
    BY <1>1 DEF Base, F!IInv, F!Conserved, F!TypeOK, DurableInv
  <2> QED
    BY ONLY <2>1
<1>3. CASE file_handle_
  BY <1>1, <1>3 DEF DurableInv, Sink!Flush, Sink!Sync
<1>4. CASE ~file_handle_
  <2>1. synced' = synced /\ offered = 0
    BY <1>4 DEF DurableInv, Sink!Flush
  <2>2. synced = 0
    BY <2>1, Lengths DEF DurableInv
  <2> QED
    BY <1>1, <1>2, <2>1, <2>2 DEF DurableInv
<1> QED
  BY <1>3, <1>4

(* A write takes nothing out of the file, and one that the sink accepts is   *)
(* whole.                                                                    *)
LEMMA HealthyWrite ==
  ASSUME ~DiskFaults, Base, Base', DurableInv,
         NEW n \in Nat, NEW ok \in BOOLEAN, Sink!Write(n, ok)
  PROVE  /\ dropped' = 0 /\ refused' = 0
         /\ file_handle_' = file_handle_ /\ synced' = synced
         /\ Len(file) <= Len(file')
         /\ ~file_handle_ => offered' = offered
<1> USE DEF DurableInv
<1>1. CASE Sink!WriteUnusable(n, ok)
  BY <1>1, Lengths DEF Sink!WriteUnusable, Sink!sinkVars
<1>2. CASE Sink!WriteDirect(n, ok) \/ Sink!WriteSpill(n, ok)
  <2>1. /\ file_handle_' = file_handle_ /\ synced' = synced /\ file_handle_
        /\ dropped' = 0 /\ refused' = 0 /\ offered' = offered + n
    BY <1>2, Lengths DEF Sink!WriteDirect, Sink!WriteSpill, Sink!Usable,
                         Sink!Written
  <2>2. Len(buffered') \in Nat /\ Len(buffered') <= n
    BY <1>2 DEF Sink!WriteDirect, Sink!WriteSpill, Sink!Run
  <2>3. Len(file') \in Nat /\ Len(file') + Len(buffered') + 0 + 0 = offered + n
    BY <2>1 DEF Base, F!IInv, F!TypeOK, F!Conserved
  <2> QED
    BY <2>1, <2>2, <2>3, Lengths
<1>3. CASE Sink!WriteCopy(n, ok)
  BY <1>3, Lengths DEF Sink!WriteCopy, Sink!Usable
<1> QED
  BY <1>1, <1>2, <1>3 DEF Sink!Write

(* The destructor writes what is left. *)
LEMMA HealthyDestroy ==
  ASSUME ~DiskFaults, Base, Base', DurableInv, Sink!Destroy
  PROVE  /\ dropped' = 0 /\ refused' = 0
         /\ synced' = synced /\ buffered' = <<>>
         /\ Len(file) <= Len(file')
         /\ buffered = <<>> => Len(file') = Len(file)
<1>1. /\ dropped' = 0 /\ refused' = 0 /\ synced' = synced
      /\ offered' = offered /\ buffered' = <<>>
  BY Lengths DEF Sink!Destroy, Sink!Written, DurableInv
<1>2. Len(file') + 0 + 0 + 0 = offered /\ Len(file') \in Nat
  BY <1>1 DEF Base, F!IInv, F!Conserved, F!TypeOK
<1>3. Len(file) + Len(buffered) + 0 + 0 = offered
  BY Lengths DEF DurableInv
<1>4. buffered = <<>> => Len(buffered) = 0
  OBVIOUS
<1> QED
  BY <1>1, <1>2, <1>3, <1>4, Lengths

(* A step that leaves the sink and what is reported of the backup alone. *)
LEMMA DurableUnchanged ==
  ASSUME DurableInv, UNCHANGED <<sinkVars, clean, use_file_sink>>,
         mpc' # "exited" => mpc # "exited"
  PROVE  DurableInv'
  BY DEF DurableInv, sinkVars

(* A flush, in a step that may report the end of the backup. *)
LEMMA DurableFlush ==
  ASSUME ~DiskFaults, Base, Base', DurableInv, mpc # "exited",
         SinkFlush, UNCHANGED use_file_sink, clean' # clean => clean'
  PROVE  DurableInv'
<1>1. CASE use_file_sink
  <2>1. /\ dropped' = 0 /\ refused' = 0
        /\ offered' = offered /\ file_handle_' = file_handle_
        /\ buffered' = <<>> /\ synced' = Len(file')
    BY <1>1, HealthyFlush DEF SinkFlush
  <2>2. Len(file') \in Nat
    BY DEF Base, F!IInv, F!TypeOK
  <2>3. ~file_handle_ => offered = 0
    BY DEF DurableInv
  <2> QED
    BY <2>1, <2>2, <2>3 DEF DurableInv
<1>2. CASE ~use_file_sink
  BY <1>2 DEF SinkFlush, DurableInv, sinkVars
<1> QED
  BY <1>1, <1>2

(* On a disk that works nothing is lost, step by step. *)
LEMMA DurableStep ==
  ASSUME ~DiskFaults, Base, Base', MainInv, ExitInv, DurableInv, [Next]_vars
  PROVE  DurableInv'
<1>1. CASE \/ MainConnect \/ MainLaunch \/ MainPrompt \/ MainOpen \/ MainProcess
  BY <1>1, DurableUnchanged
     DEF MainConnect, Connecting, MainLaunch, MainPrompt, MainOpen, Opening,
         MainProcess, Args
<1>2. CASE \/ OpenDevice \/ TakeCommand \/ TakeTimeout \/ TakeAbort \/ Dispatch
           \/ Complete \/ ReleaseDevice \/ CloseAfterLoop \/ MainCloseSet
  BY <1>2, DurableUnchanged
     DEF OpenDevice, TakeCommand, TakeTimeout, TakeAbort, Dispatch, Complete,
         ReleaseDevice, CloseAfterLoop, Returning, MainCloseSet, Serving,
         Running, Args
<1>3. CASE \/ ServerStart \/ ServerAbort
           \/ \E d \in Devices, c \in Commands : ServerPost(d, c)
           \/ \E d \in Devices : ServerEnd(d)
  BY <1>3, DurableUnchanged
     DEF ServerStart, ServerAbort, ServerPost, ServerEnd, ServerStep, mainVars
<1>4. CASE MainClose
  BY <1>4, DurableUnchanged, DurableFlush DEF MainClose, FlushOnClose, Args
<1>5. CASE TakeEnd
  BY <1>5, DurableFlush DEF TakeEnd, EndsLoop, Running, Args
<1>6. CASE PostLoop
  BY <1>6, DurableUnchanged, DurableFlush DEF PostLoop, Returning, Running, Args
<1>7. CASE MainReturn
  <2>1. UNCHANGED <<clean, use_file_sink>> /\ mpc' = "exited"
    BY <1>7 DEF MainReturn, Args
  <2>2. CASE use_file_sink
    <3>1. Sink!Destroy
      BY <1>7, <2>2 DEF MainReturn, SinkDestroy
    <3>2. Len(file) \in Nat /\ Len(file') \in Nat /\ synced \in Nat
      BY DEF Base, F!IInv, F!TypeOK
    <3> QED
      BY <2>1, <3>1, <3>2, HealthyDestroy DEF DurableInv
  <2>3. CASE ~use_file_sink
    BY <1>7, <2>1, <2>3, DurableUnchanged DEF MainReturn, SinkDestroy
  <2> QED
    BY <2>2, <2>3
<1>8. CASE SinkWrite
  <2>1. /\ pc = "write" /\ UNCHANGED <<clean, use_file_sink, mpc>>
        /\ mpc = "processing"
    BY <1>8 DEF SinkWrite, SinkNotAsked, Running, Args, Client!WriteInvalid,
                Client!WriteFails, Client!WriteStored, Client!Writing
  <2>2. ~clean /\ cmd.size \in Nat
    BY <2>1, WriteInHand DEF ExitInv, Base
  <2>3. ASSUME NEW ok \in BOOLEAN, SinkAnswers(cmd.size, ok), use_file_sink
        PROVE  DurableInv'
    <3>1. /\ dropped' = 0 /\ refused' = 0
          /\ file_handle_' = file_handle_ /\ synced' = synced
          /\ Len(file) <= Len(file')
          /\ ~file_handle_ => offered' = offered
      BY <2>2, <2>3, HealthyWrite DEF SinkAnswers
    <3>2. Len(file) \in Nat /\ Len(file') \in Nat /\ synced \in Nat
      BY DEF Base, F!IInv, F!TypeOK
    <3> QED
      BY <2>1, <2>2, <3>1, <3>2 DEF DurableInv
  <2>4. CASE UNCHANGED sinkVars
    BY <2>1, <2>4, DurableUnchanged
  <2> QED
    BY <1>8, <2>3, <2>4 DEF SinkWrite, SinkAnswers
<1>9. CASE UNCHANGED vars
  BY <1>9, DurableUnchanged DEF vars, mainVars
<1> QED
  BY <1>1, <1>2, <1>3, <1>4, <1>5, <1>6, <1>7, <1>8, <1>9
  DEF Next, MainStep, LoopStep, Ending

(* With a disk that works, a backup that SQL Server ended is in the file and *)
(* on stable storage, byte for byte, from the moment that the client takes   *)
(* the end of it, whatever the chunks and however main() then returns.       *)
THEOREM CleanEndDurable ==
  ASSUME ~DiskFaults
  PROVE  Spec => []CleanEndIsDurable
<1>1. Init => DurableInv
  BY DEF Init, Sink!Init, DurableInv
<1>2. /\ Base /\ Base' /\ MainInv /\ ExitInv /\ DurableInv /\ [Next]_vars
      => DurableInv'
  BY DurableStep
<1>3. Base /\ StoreInv /\ DurableInv => CleanEndIsDurable
  <2> SUFFICES ASSUME Base, StoreInv, DurableInv, clean, use_file_sink
               PROVE  /\ Len(file) = acked
                      /\ synced = Len(file)
                      /\ \A i \in 1 .. Len(file) : file[i] = i - 1
    BY DEF CleanEndIsDurable
  <2>1. buffered = <<>> /\ synced = Len(file) /\ dropped = 0 /\ refused = 0
    BY DEF DurableInv
  <2>2. acked = offered
    BY DEF StoreInv
  <2>3. Len(file) = offered
    BY <2>1, Lengths
  <2> QED
    BY <2>1, <2>2, <2>3 DEF Base, F!IInv, F!Intact
<1> QED
  BY <1>1, <1>2, <1>3, BaseInvariant, MainInvariant, ExitInvariant,
     StoreInvariant, PTL DEF Spec

-----------------------------------------------------------------------------
(* The queue of the only device. *)
LEMMA OneQueue ==
  ASSUME NDevices = 1, Base
  PROVE  /\ Devices = {1} /\ queue[1] \in Seq(Commands) /\ Len(queue[1]) \in Nat
         /\ posted \in Nat /\ completed \in Nat /\ ended \subseteq {1}
<1>1. Devices = {1}
  BY DEF Devices
<1> QED
  BY <1>1 DEF Base, ProgramTypes, C!IInv, C!Core, C!TypeOK

(* Commands posted are completed, in hand or queued, step by step. *)
LEMMA DrainStep ==
  ASSUME NDevices = 1, Base, MainInv, MainInv', ExitInv, DrainInv, [Next]_vars
  PROVE  DrainInv'
<1> USE OneQueue
<1>1. CASE \/ MainConnect \/ MainLaunch \/ MainPrompt \/ MainOpen \/ MainProcess
           \/ MainClose \/ MainCloseSet \/ MainReturn \/ OpenDevice
  <2>1. UNCHANGED <<completed, clean>>
    BY <1>1, MainServesNothing DEF ServesNothing
  <2>2. UNCHANGED <<queue, posted, ended>>
    BY <1>1 DEF MainConnect, Connecting, MainLaunch, MainPrompt, MainOpen,
                Opening, MainProcess, MainClose, MainCloseSet, MainReturn,
                OpenDevice, serverVars
  <2>3. CASE \/ MainConnect \/ MainLaunch \/ MainPrompt \/ MainOpen
             \/ MainProcess \/ OpenDevice
    <3>1. \/ mpc \in {"connect", "launch", "prompt", "open", "process"}
          \/ pc = "OpenDevice"
      BY <2>3 DEF MainConnect, Connecting, MainLaunch, MainPrompt, MainOpen,
                  Opening, MainProcess, OpenDevice, Client!OpenDevice,
                  Client!OpenDeviceFails
    <3>2. InHand = 0
      BY <3>1 DEF MainInv, InHand
    <3>3. InHand' = 0
      <4>1. CASE mpc' # "processing"
        BY <4>1 DEF MainInv, InHand
      <4>2. CASE MainProcess \/ OpenDevice
        BY <4>2 DEF MainProcess, OpenDevice, Client!ProcessCommands,
                    Client!OpenDevice, Client!OpenDeviceFails, InHand
      <4> QED
        BY <2>3, <4>1, <4>2 DEF MainConnect, Connecting, MainLaunch,
           MainPrompt, MainOpen, Opening
    <3> QED
      BY <2>1, <2>2, <3>1, <3>2, <3>3 DEF DrainInv
  <2>4. CASE MainClose \/ MainCloseSet \/ MainReturn
    <3>1. /\ mpc' \in {"closing", "return", "exited"}
          /\ pc' \in {"idle", "destroyed"}
      BY <2>4 DEF MainClose, MainCloseSet, MainReturn, MainInv
    <3> QED
      BY <2>1, <2>2, <3>1 DEF DrainInv, C!InLoop
  <2> QED
    BY <1>1, <2>3, <2>4
<1>2. ASSUME NEW d \in Devices, NEW c \in Commands, ServerPost(d, c)
      PROVE  DrainInv'
  <2>1. d = 1 /\ posted' = posted + 1 /\ ~(1 \in ended) /\ ended' = ended
        /\ UNCHANGED <<mpc, pc, completed, clean>>
    BY <1>2 DEF ServerPost, ServerStep, sessionVars, mainVars
  <2>2. Len(queue'[1]) = Len(queue[1]) + 1
    <3>1. queue'[1] = Append(queue[1], c)
      BY <1>2, <2>1 DEF ServerPost, Base, ProgramTypes
    <3> QED
      BY <3>1
  <2>3. InHand' = InHand /\ InHand \in Nat
    BY <2>1 DEF InHand
  <2> QED
    BY <2>1, <2>2, <2>3 DEF DrainInv, C!InLoop
<1>3. CASE \/ ServerStart \/ ServerAbort \/ \E d \in Devices : ServerEnd(d)
  BY <1>3 DEF ServerStart, ServerAbort, ServerEnd, ServerStep, sessionVars,
              mainVars, DrainInv, C!InLoop, InHand
<1>4. CASE TakeCommand
  <2>1. /\ dev = 1 /\ queue[1] # <<>> /\ queue'[1] = Tail(queue[1])
        /\ UNCHANGED <<posted, ended, clean, completed>>
    BY <1>4 DEF TakeCommand, Client!GetCommand, Base, ProgramTypes
  <2>2. Len(queue'[1]) = Len(queue[1]) - 1 /\ Len(queue[1]) > 0
    BY <2>1
  <2>3. InHand = 0 /\ InHand' = 1 /\ C!InLoop
    BY <1>4 DEF TakeCommand, Client!GetCommand, InHand, C!InLoop
  <2> QED
    BY <2>1, <2>2, <2>3 DEF DrainInv
<1>5. CASE TakeEnd
  <2>1. /\ dev = 1 /\ queue[1] = <<>> /\ 1 \in ended /\ C!InLoop /\ InHand = 0
        /\ UNCHANGED <<posted, ended, completed>>
        /\ mpc' = "processing" /\ pc' = "leave"
    BY <1>5 DEF TakeEnd, NothingQueued, EndsLoop, Running, serverVars,
                Client!GetEnd, Client!Break, Client!historyVars, C!InLoop, InHand
  <2> QED
    BY <2>1 DEF DrainInv, C!InLoop
<1>6. CASE TakeTimeout \/ TakeAbort \/ Dispatch \/ SinkWrite
  <2>1. /\ UNCHANGED <<queue, posted, ended, completed, clean>>
        /\ C!InLoop /\ mpc' = "processing"
    BY <1>6 DEF TakeTimeout, TakeAbort, Dispatch, SinkWrite, SinkNotAsked,
                Serving, Running, serverVars, Client!GetNothing,
                Client!GetFails, Client!Dispatch, Client!WriteInvalid,
                Client!WriteFails, Client!WriteStored, Client!Writing,
                Client!historyVars, C!InLoop
  <2>2. pc' = "leave" \/ (InHand' = InHand /\ pc' # "OpenDevice")
    BY <1>6 DEF TakeTimeout, TakeAbort, Dispatch, SinkWrite, SinkNotAsked,
                Client!GetNothing, Client!GetFails, Client!Dispatch,
                Client!WriteInvalid, Client!WriteFails, Client!WriteStored,
                Client!Writing, Client!Break, InHand
  <2> QED
    BY <2>1, <2>2 DEF DrainInv, C!InLoop
<1>7. CASE Complete
  <2>1. /\ UNCHANGED <<queue, posted, ended, clean>> /\ pc = "complete"
        /\ mpc = "processing" /\ mpc' = "processing"
    BY <1>7 DEF Complete, Serving, Running, serverVars,
                Client!CompleteCommand, Client!Completing,
                Client!CompleteFails
  <2>2. C!InLoop /\ InHand = 1 /\ ~clean
    BY <2>1 DEF C!InLoop, InHand, ExitInv
  <2>3. \/ pc' = "leave"
        \/ pc' = "GetCommand" /\ completed' = completed + 1
    BY <1>7 DEF Complete, Client!CompleteCommand, Client!Completing,
                Client!CompleteFails, Client!Break
  <2> QED
    BY <2>1, <2>2, <2>3 DEF DrainInv, C!InLoop, InHand
<1>8. CASE Ending
  BY <1>8 DEF Ending, ReleaseDevice, PostLoop, CloseAfterLoop, Returning,
              Serving, Running, serverVars, Client!ReleaseDevice,
              Client!Releasing, Client!PostLoop, Client!CloseAfterLoop,
              Client!historyVars, DrainInv, C!InLoop
<1>9. CASE UNCHANGED vars
  BY <1>9 DEF vars, sessionVars, serverVars, mainVars, DrainInv, C!InLoop,
              InHand
<1> QED
  BY <1>1, <1>2, <1>3, <1>4, <1>5, <1>6, <1>7, <1>8, <1>9
  DEF Next, MainStep, LoopStep, Ending

(* On the one device that main() asks for, a backup that ends well leaves no *)
(* command that SQL Server posted behind.                                    *)
THEOREM CleanEndDrained ==
  ASSUME NDevices = 1
  PROVE  Spec => []CleanEndIsDrained
<1>1. Init => DrainInv
  BY DEF Init, Client!Init, DrainInv, InHand, Devices
<1>2. /\ Base /\ MainInv /\ MainInv' /\ ExitInv /\ DrainInv /\ [Next]_vars
      => DrainInv'
  BY DrainStep
<1>3. DrainInv => CleanEndIsDrained
  BY DEF DrainInv, CleanEndIsDrained
<1> QED
  BY <1>1, <1>2, <1>3, BaseInvariant, MainInvariant, ExitInvariant, PTL
  DEF Spec

-----------------------------------------------------------------------------
NoCloseCommand == \A c \in Commands : c.code # "VDC_Close"

(* A null sink buffers nothing, and a flush leaves nothing buffered. *)
LEMMA SinkFlushEmpties ==
  ASSUME FlushInv, SinkFlush
  PROVE  buffered' = <<>>
  BY DEF FlushInv, SinkFlush, Sink!Flush, sinkVars

(* The buffer is empty at the end of the backup, step by step. *)
LEMMA FlushStep ==
  ASSUME NoCloseCommand, Base, MainInv, MainInv', FlushInv, [Next]_vars
  PROVE  FlushInv'
<1> USE DEF FlushInv
<1>1. CASE \/ MainConnect \/ MainLaunch \/ MainPrompt \/ MainOpen \/ MainProcess
           \/ OpenDevice
  <2>1. /\ UNCHANGED <<buffered, use_file_sink>>
        /\ pc' \notin {"leave", "close"} /\ mpc' # "closing"
    BY <1>1 DEF MainConnect, Connecting, MainLaunch, MainPrompt, MainOpen,
                Opening, MainProcess, OpenDevice, Running, Args, sinkVars,
                Client!ProcessCommands, Client!OpenDevice,
                Client!OpenDeviceFails, MainInv
  <2> QED
    BY <2>1
<1>2. CASE MainClose \/ MainCloseSet \/ MainReturn
  <2>1. pc' \notin {"leave", "close"} /\ use_file_sink' = use_file_sink
    BY <1>2 DEF MainClose, MainCloseSet, MainReturn, Args, MainInv
  <2>2. ~use_file_sink => UNCHANGED buffered
    BY <1>2 DEF MainClose, MainCloseSet, MainReturn, FlushOnClose, SinkFlush,
                SinkDestroy, sinkVars
  <2>3. mpc' = "closing" /\ state_' # "FAILED" => buffered' = <<>>
    <3> SUFFICES ASSUME mpc' = "closing", state_' # "FAILED"
                 PROVE  buffered' = <<>>
      OBVIOUS
    <3>1. MainClose /\ FlushOnClose /\ state_' = state_
      BY <1>2 DEF MainClose, MainCloseSet, MainReturn, sessionVars
    <3>2. state_ = "STREAMING"
      BY <3>1 DEF MainInv
    <3> QED
      BY <3>1, <3>2, SinkFlushEmpties DEF FlushOnClose
  <2> QED
    BY <2>1, <2>2, <2>3
<1>3. CASE \/ ServerStart \/ ServerAbort
           \/ \E d \in Devices, c \in Commands : ServerPost(d, c)
           \/ \E d \in Devices : ServerEnd(d)
  BY <1>3 DEF ServerStart, ServerAbort, ServerPost, ServerEnd, ServerStep,
              sessionVars, sinkVars, mainVars
<1>4. CASE TakeCommand \/ TakeTimeout \/ TakeAbort \/ Complete
  <2>1. UNCHANGED <<buffered, use_file_sink>> /\ mpc' # "closing"
    BY <1>4 DEF TakeCommand, TakeTimeout, TakeAbort, Complete, Serving,
                Running, Args, sinkVars
  <2>2. pc' # "close" /\ (pc' = "leave" => state_' = "FAILED")
    BY <1>4 DEF TakeCommand, TakeTimeout, TakeAbort, Complete,
                Client!GetCommand, Client!GetNothing, Client!GetFails,
                Client!CompleteCommand, Client!Completing,
                Client!CompleteFails, Client!Break
  <2> QED
    BY <2>1, <2>2
<1>5. CASE Dispatch
  <2>1. /\ UNCHANGED <<buffered, use_file_sink>> /\ pc = "dispatch"
        /\ mpc' # "closing"
    BY <1>5 DEF Dispatch, Serving, Running, Args, sinkVars, Client!Dispatch
  <2>2. cmd.code # "VDC_Close"
    BY <2>1 DEF NoCloseCommand, Base, C!IInv, C!Core, C!CommandInv, C!Holding
  <2>3. pc' \notin {"leave", "close"}
    BY <1>5, <2>2 DEF Dispatch, Client!Dispatch
  <2> QED
    BY <2>1, <2>3
<1>6. CASE TakeEnd
  <2>1. buffered' = <<>>
    BY <1>6, SinkFlushEmpties DEF TakeEnd
  <2>2. state_' = "FLUSHING" /\ mpc' # "closing"
    BY <1>6 DEF TakeEnd, EndsLoop, Running, Client!GetEnd, Client!Break
  <2> QED
    BY <2>1, <2>2
<1>7. CASE SinkWrite
  <2>1. use_file_sink' = use_file_sink /\ mpc' # "closing"
    BY <1>7 DEF SinkWrite, Running, Args
  <2>2. ~use_file_sink => UNCHANGED buffered
    BY <1>7 DEF SinkWrite, SinkAnswers, sinkVars
  <2>3. pc' # "close" /\ (pc' = "leave" => state_' = "FAILED")
    BY <1>7 DEF SinkWrite, SinkNotAsked, Client!WriteInvalid,
                Client!WriteFails, Client!WriteStored, Client!Writing,
                Client!Break
  <2> QED
    BY <2>1, <2>2, <2>3
<1>8. CASE Ending
  <2>1. /\ pc \in {"leave", "close"} /\ use_file_sink' = use_file_sink
        /\ mpc' # "closing"
    BY <1>8 DEF Ending, ReleaseDevice, PostLoop, CloseAfterLoop, Returning,
                Serving, Running, Args, Client!ReleaseDevice,
                Client!Releasing, Client!PostLoop, Client!CloseAfterLoop
  <2>2. buffered' = buffered \/ buffered' = <<>>
    BY <1>8, SinkFlushEmpties
       DEF Ending, ReleaseDevice, PostLoop, CloseAfterLoop, Serving, sinkVars
  <2>3. pc' \in {"leave", "close"} => state_' = state_
    BY <1>8 DEF Ending, ReleaseDevice, PostLoop, CloseAfterLoop,
                Client!ReleaseDevice, Client!Releasing, Client!PostLoop,
                Client!CloseAfterLoop, Client!clientVars
  <2> QED
    BY <2>1, <2>2, <2>3
<1>9. CASE UNCHANGED vars
  BY <1>9 DEF vars, sessionVars, sinkVars, mainVars
<1> QED
  BY <1>1, <1>2, <1>3, <1>4, <1>5, <1>6, <1>7, <1>8, <1>9
  DEF Next, MainStep, LoopStep, Ending

(* As long as SQL Server sends no VDC_Close, a session that has not failed   *)
(* releases its devices and its device set only with an empty write buffer.  *)
THEOREM FlushedFirst ==
  ASSUME NoCloseCommand
  PROVE  Spec => FlushedBeforeRelease
<1> DEFINE Order ==
      /\ state_ # "FAILED"
      /\ deviceRefs' < deviceRefs \/ setCloses' > setCloses
      => buffered = <<>>
<1>1. Init => FlushInv
  BY DEF Init, Client!Init, Sink!Init, FlushInv
<1>2. Base /\ MainInv /\ MainInv' /\ FlushInv /\ [Next]_vars => FlushInv'
  BY FlushStep
<1>3. ASSUME Base, MainInv, FlushInv, [Next]_vars
      PROVE  [Order]_vars
  <2> SUFFICES ASSUME Next, state_ # "FAILED",
                      deviceRefs' < deviceRefs \/ setCloses' > setCloses
               PROVE  buffered = <<>>
    BY <1>3
  <2>1. /\ deviceRefs \in Nat /\ setCloses \in Nat
        /\ deviceRefs' < deviceRefs \/ setCloses' # setCloses
    BY <1>3 DEF Base, C!IInv, C!Core, C!TypeOK
  <2>2. CASE MainCloseSet
    BY <1>3, <2>2 DEF MainCloseSet, FlushInv
  <2>3. CASE MainReturn
    <3>1. state_ = "CLOSED" /\ devices_closed_
      BY <1>3, <2>3 DEF MainReturn, MainInv, Base, C!IInv, C!Core, C!SetInv
    <3>2. UNCHANGED <<deviceRefs, setCloses>>
      BY <2>3, <3>1 DEF MainReturn, Client!Destroy
    <3> QED
      BY <2>1, <3>2
  <2>4. CASE ReleaseDevice \/ CloseAfterLoop
    <3>1. pc \in {"leave", "close"}
      BY <2>4 DEF ReleaseDevice, CloseAfterLoop, Client!ReleaseDevice,
                  Client!Releasing, Client!CloseAfterLoop
    <3> QED
      BY <1>3, <3>1 DEF FlushInv
  <2> QED
    BY <1>3, <2>1, <2>2, <2>3, <2>4, OnlyClosingReleases
<1> QED
  BY <1>1, <1>2, <1>3, BaseInvariant, MainInvariant, PTL
  DEF Spec, FlushedBeforeRelease

==============================================================================
