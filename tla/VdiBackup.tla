----------------------------- MODULE VdiBackup ------------------------------
(***************************************************************************)
(* One run of the program: main() (src/main.cpp) drives a VdiClient that   *)
(* serves the commands of SQL Server into a FileSink or a NullSink.        *)
(*                                                                         *)
(* VdiSession and FileSink are instantiated; this module decides what COM, *)
(* the sink and SQL Server answer the client, makes the client's calls to  *)
(* the sink part of its steps, and adds the processes around it: main()    *)
(* and SQL Server, whose steps interleave with the client's.               *)
(*                                                                         *)
(* SQL Server is external.  It is modelled by what the client relies on: a *)
(* FIFO of commands for each device, an end of each device that GetCommand *)
(* reports as VD_E_CLOSE once its FIFO is empty, and an abort.             *)
(*                                                                         *)
(* A definition marked "Mutant" is a faulty variant of the one after it.   *)
(* No action uses it: it stands in for that one to test a property.        *)
(***************************************************************************)
EXTENDS Naturals, Sequences

CONSTANTS
  NDevices,            \* device_count: 1 in main(), more for other callers
  Commands,            \* commands SQL Server may post
  MAX_SANE_CHUNK_SIZE,
  WRITE_BUFFER_SIZE,
  DiskFaults,
  FiniteTimeout,       \* is command_timeout_ms_ other than INFINITE?
  MaxPosted            \* bound: commands posted in a behaviour

Devices == 1 .. NDevices

VARIABLES  \* of VdiSession
  state_, device_set_, devices_closed_, device_count_, fail_after,
  chunk_counter, fail_next, total_bytes, timings, pc, opened, dev, cmd, setsMade,
  setRefs, setCloses, deviceRefs, comCount, owed, pending, completed, acked

VARIABLES  \* of FileSink
  alive, file_handle_, write_buffer_, buffered, file, synced, offered, dropped,
  refused

VARIABLES
  queue,      \* for each device, the commands posted and not yet taken
  ended,      \* the devices SQL Server has ended
  server,     \* "waiting" for BACKUP to be issued, "running" or "aborted"
  posted,     \* number of commands posted
  use_file_sink,  \* was --sink file given?
  auto_mode,  \* was --auto given, and sqlcmd launched?
  mpc,        \* where main() is
  exit_code,  \* what main() returns
  clean       \* history: GetCommand reported the end of the backup

Client == INSTANCE VdiSession WITH
            DeviceCounts <- {NDevices}, FailAfter <- {}, ComAtStart <- {0},
            MaxCommands <- MaxPosted

Sink == INSTANCE FileSink WITH
          Sizes <- {c.size : c \in Commands}, MaxBytes <- 0

ASSUME BackupAssumption ==
  /\ NDevices \in Nat \ {0}
  /\ Commands \subseteq [code : Client!Codes, size : Nat, buffer : BOOLEAN]
  /\ MAX_SANE_CHUNK_SIZE \in Nat
  /\ WRITE_BUFFER_SIZE \in Nat \ {0}
  /\ DiskFaults \in BOOLEAN
  /\ FiniteTimeout \in BOOLEAN
  /\ MaxPosted \in Nat

sessionVars ==
  <<state_, device_set_, devices_closed_, device_count_, fail_after,
    chunk_counter, fail_next, total_bytes, timings, pc, opened, dev, cmd, setsMade,
    setRefs, setCloses, deviceRefs, comCount, owed, pending, completed, acked>>
sinkVars ==
  <<alive, file_handle_, write_buffer_, buffered, file, synced, offered,
    dropped, refused>>
serverVars == <<queue, ended, server, posted>>
mainVars == <<use_file_sink, auto_mode, mpc, exit_code, clean>>
vars == <<sessionVars, sinkVars, serverVars, mainVars>>

Init ==
  /\ Client!Init
  /\ Sink!Init
  /\ queue = [d \in Devices |-> <<>>]
  /\ ended = {}
  /\ server = "waiting"
  /\ posted = 0
  /\ use_file_sink \in BOOLEAN /\ auto_mode \in BOOLEAN
  /\ use_file_sink \/ ~(file_handle_ \/ write_buffer_)
  /\ mpc = "connect"
  /\ exit_code = 0
  /\ clean = FALSE

-----------------------------------------------------------------------------
(* The sink: NullSink is always open, takes every byte, and keeps none. *)

SinkIsOpen == use_file_sink => file_handle_

SinkAnswers(n, ok) ==
  IF use_file_sink THEN Sink!Write(n, ok) ELSE ok /\ UNCHANGED sinkVars

SinkFlush == IF use_file_sink THEN Sink!Flush ELSE UNCHANGED sinkVars

SinkDestroy == IF use_file_sink THEN Sink!Destroy ELSE UNCHANGED sinkVars

-----------------------------------------------------------------------------
(* SQL Server *)

ServerStep == UNCHANGED <<sessionVars, sinkVars, mainVars>>

(* BACKUP is issued on the connected device set. *)
ServerStart ==
  /\ server = "waiting"
  /\ state_ = "CONNECTED"
  /\ server' = "running"
  /\ UNCHANGED <<queue, ended, posted>>
  /\ ServerStep

ServerPost(d, c) ==
  /\ server = "running"
  /\ d \notin ended
  /\ posted < MaxPosted
  /\ queue' = [queue EXCEPT ![d] = Append(@, c)]
  /\ posted' = posted + 1
  /\ UNCHANGED <<ended, server>>
  /\ ServerStep

ServerEnd(d) ==
  /\ server = "running"
  /\ d \notin ended
  /\ ended' = ended \cup {d}
  /\ UNCHANGED <<queue, server, posted>>
  /\ ServerStep

ServerAbort ==
  /\ server = "running"
  /\ server' = "aborted"
  /\ UNCHANGED <<queue, ended, posted>>
  /\ ServerStep

-----------------------------------------------------------------------------
(* main() *)

Args == <<use_file_sink, auto_mode>>

(* connect(), with the exit code that follows its success. *)
Connecting(code) ==
  /\ mpc = "connect"
  /\ \/ /\ Client!Connect(NDevices)
        /\ mpc' = IF auto_mode THEN "launch" ELSE "prompt"
        /\ exit_code' = code
     \/ /\ Client!ConnectNoCom(NDevices) \/ Client!ConnectNoSet(NDevices)
        /\ mpc' = "return"
        /\ exit_code' = 1
  /\ UNCHANGED <<sinkVars, serverVars, Args, clean>>

\* Mutant: the exit code is set to 1 at first and not reset.
MainConnectAssumesFailure == Connecting(1)

MainConnect == Connecting(0)

(* launch_sqlcmd(): where sqlcmd cannot be started, main() goes interactive. *)
MainLaunch ==
  /\ mpc = "launch"
  /\ \/ mpc' = "open" /\ UNCHANGED auto_mode
     \/ mpc' = "prompt" /\ auto_mode' = FALSE
  /\ UNCHANGED <<sessionVars, sinkVars, serverVars, use_file_sink, exit_code,
                 clean>>

(* The operator presses Enter. *)
MainPrompt ==
  /\ mpc = "prompt"
  /\ mpc' = "open"
  /\ UNCHANGED <<sessionVars, sinkVars, serverVars, Args, exit_code, clean>>

(* open_devices(), timing out or not; close() and exit code 1 if it fails. *)
Opening(times_out) ==
  /\ mpc = "open"
  /\ \/ /\ server = "running"
        /\ Client!OpenDevices
        /\ mpc' = "process"
        /\ UNCHANGED exit_code
     \/ /\ \/ server = "waiting" /\ times_out /\ Client!OpenDevicesTimeout
           \/ server # "waiting" /\ Client!OpenDevicesFails
        /\ mpc' = "close"
        /\ exit_code' = 1
  /\ UNCHANGED <<sinkVars, serverVars, Args, clean>>

\* Mutant: GetConfiguration waits without a timeout.
MainOpenWaits == Opening(FALSE)

MainOpen == Opening(TRUE)

MainProcess ==
  /\ mpc = "process"
  /\ Client!ProcessCommands
  /\ mpc' = "processing"
  /\ UNCHANGED <<sinkVars, serverVars, Args, exit_code, clean>>

(* close() flushes the sink of a session that is streaming or flushing. *)
FlushOnClose ==
  IF state_ \in {"STREAMING", "FLUSHING"} THEN SinkFlush
                                          ELSE UNCHANGED sinkVars

(* close() returns at once when the client is closed already. *)
MainClose ==
  /\ mpc = "close"
  /\ IF devices_closed_
       THEN mpc' = "return" /\ UNCHANGED sinkVars
       ELSE mpc' = "closing" /\ FlushOnClose
  /\ UNCHANGED <<sessionVars, serverVars, Args, exit_code, clean>>

MainCloseSet ==
  /\ mpc = "closing"
  /\ mpc' = "return"
  /\ Client!Close
  /\ UNCHANGED <<sinkVars, serverVars, Args, exit_code, clean>>

(* main() returns: the client is destroyed and its sink with it.  The client *)
(* is then CLOSED or FAILED, so a close() here flushes nothing itself.       *)
MainReturn ==
  /\ mpc = "return"
  /\ mpc' = "exited"
  /\ Client!Destroy
  /\ SinkDestroy
  /\ UNCHANGED <<serverVars, Args, exit_code, clean>>

MainStep ==
  \/ MainConnect \/ MainLaunch \/ MainOpen \/ MainProcess
  \/ MainClose \/ MainCloseSet \/ MainReturn

-----------------------------------------------------------------------------
(* process_commands() *)

Running == mpc = "processing" /\ UNCHANGED <<Args, exit_code>>

(* A step that neither calls the sink nor ends process_commands(). *)
Serving == Running /\ UNCHANGED <<sinkVars, serverVars, mpc, clean>>

OpenDevice ==
  /\ Running
  /\ \/ Client!OpenDevice /\ UNCHANGED mpc
     \/ Client!OpenDeviceFails /\ mpc' = "close"
  /\ UNCHANGED <<sinkVars, serverVars, clean>>

TakeCommand ==
  /\ Running
  /\ server = "running"
  /\ dev \in Devices
  /\ queue[dev] # <<>>
  /\ Client!GetCommand(Head(queue[dev]))
  /\ queue' = [queue EXCEPT ![dev] = Tail(@)]
  /\ UNCHANGED <<sinkVars, ended, server, posted, mpc, clean>>

NothingQueued == server = "running" /\ dev \in Devices /\ queue[dev] = <<>>

EndsLoop == Running /\ Client!GetEnd /\ clean' = TRUE /\ UNCHANGED <<serverVars, mpc>>

\* Mutant: no flush on VD_E_CLOSE.
TakeEndNoFlush ==
  NothingQueued /\ dev \in ended /\ EndsLoop /\ UNCHANGED sinkVars

(* VD_E_CLOSE (or VD_E_EOF): the sink is flushed on the spot. *)
TakeEnd == NothingQueued /\ dev \in ended /\ EndsLoop /\ SinkFlush

TimesOut == FiniteTimeout /\ NothingQueued /\ dev \notin ended

\* Mutant: VD_E_TIMEOUT is taken for the end.
TakeTimeoutEnds == TimesOut /\ EndsLoop /\ SinkFlush

TakeTimeout == TimesOut /\ Client!GetNothing /\ Serving

\* Mutant: the loop goes on after VD_E_ABORT.
TakeAbortRetries == server = "aborted" /\ Client!GetNothing /\ Serving

(* VD_E_ABORT: SQL Server gave up the backup. *)
TakeAbort == server = "aborted" /\ Client!GetFails /\ Serving

Dispatch == Client!Dispatch /\ Serving

SinkNotAsked ==
  \/ Client!WriteInvalid
  \/ ~SinkIsOpen /\ Client!WriteFails

\* Mutant: the result of write() is not looked at.
SinkWriteUnchecked ==
  /\ Running
  /\ \/ SinkNotAsked /\ UNCHANGED sinkVars
     \/ /\ SinkIsOpen
        /\ Client!WriteStored
        /\ \E ok \in BOOLEAN : SinkAnswers(cmd.size, ok)
  /\ UNCHANGED <<serverVars, mpc, clean>>

(* is_open() is asked only of a valid command, write() only of an open sink. *)
SinkWrite ==
  /\ Running
  /\ \/ SinkNotAsked /\ UNCHANGED sinkVars
     \/ /\ SinkIsOpen
        /\ \/ Client!WriteStored /\ SinkAnswers(cmd.size, TRUE)
           \/ Client!WriteFails /\ SinkAnswers(cmd.size, FALSE)
  /\ UNCHANGED <<serverVars, mpc, clean>>

(* No completion is accepted from SQL Server's abort on. *)
Complete ==
  /\ \/ server = "running" /\ Client!CompleteCommand
     \/ Client!CompleteFails
  /\ Serving

ReleaseDevice == Client!ReleaseDevice /\ Serving

(* process_commands() returns to main(). *)
Returning ==
  /\ mpc' = IF pc' = "idle" THEN "close" ELSE mpc
  /\ UNCHANGED <<serverVars, clean>>

(* The close() that follows a backup that ended well flushes the sink, ... *)
PostLoop ==
  /\ Running
  /\ Client!PostLoop
  /\ IF pc' = "close" THEN SinkFlush ELSE UNCHANGED sinkVars
  /\ Returning

(* ... and then closes the device set. *)
CloseAfterLoop ==
  Running /\ Client!CloseAfterLoop /\ UNCHANGED sinkVars /\ Returning

LoopStep ==
  \/ OpenDevice
  \/ TakeCommand \/ TakeEnd \/ TakeTimeout \/ TakeAbort
  \/ Dispatch \/ SinkWrite \/ Complete
  \/ ReleaseDevice \/ PostLoop \/ CloseAfterLoop

-----------------------------------------------------------------------------
Next ==
  \/ ServerStart
  \/ \E d \in Devices, c \in Commands : ServerPost(d, c)
  \/ \E d \in Devices : ServerEnd(d)
  \/ ServerAbort
  \/ MainStep \/ MainPrompt
  \/ LoopStep

Spec == Init /\ [][Next]_vars

(* The program's own steps are taken when they can be: nothing else runs on  *)
(* its thread, and GetCommand and GetConfiguration return when their timeout *)
(* elapses.  Nothing is promised of SQL Server, nor of the operator.         *)
FairSpec == Spec /\ WF_vars(MainStep \/ LoopStep)

-----------------------------------------------------------------------------
(* The values the state may take. *)
TypeOK ==
  /\ Client!TypeOK
  /\ Sink!TypeOK
  /\ queue \in [Devices -> Seq(Commands)]
  /\ ended \subseteq Devices
  /\ server \in {"waiting", "running", "aborted"}
  /\ posted \in Nat
  /\ use_file_sink \in BOOLEAN /\ auto_mode \in BOOLEAN
  /\ mpc \in {"connect", "launch", "prompt", "open", "process", "processing",
             "close", "closing", "return", "exited"}
  /\ exit_code \in {0, 1}
  /\ clean \in BOOLEAN

(* No byte is acknowledged to SQL Server that the sink has not accepted, and *)
(* the client never holds a byte accepted and unacknowledged over GetCommand *)
(* or a clean end: an acknowledged byte is in the file, in the write buffer, *)
(* or lost by a WriteFile of flush_buffer().                                 *)
AckedIsStored ==
  use_file_sink =>
    /\ acked <= Len(file) + Len(buffered) + dropped
    /\ pc = "GetCommand" \/ clean => acked = offered /\ refused = 0

(* With a working disk, a backup that SQL Server ended is completely in the  *)
(* file and on stable storage, byte for byte, from the moment the client     *)
(* left its loop.                                                            *)
CleanEndIsDurable ==
  clean /\ use_file_sink =>
    /\ Len(file) = acked
    /\ synced = Len(file)
    /\ \A i \in 1 .. Len(file) : file[i] = i - 1

(* A session that ends well, on one device, has completed every command that *)
(* SQL Server posted.                                                        *)
CleanEndIsDrained == clean => completed = posted

(* Unless the session failed, nothing is buffered in the sink any more when  *)
(* a device is released, nor when the device set is closed.                  *)
FlushedBeforeRelease ==
  [][state_ # "FAILED" /\ (deviceRefs' < deviceRefs \/ setCloses' > setCloses) =>
       buffered = <<>>]_vars

(* The device set is closed when the last device has been released. *)
DevicesBeforeSet == [][setCloses' > setCloses => deviceRefs = 0]_vars

(* main() never leaves COM objects behind, whatever failed on the way.      *)
ExitReleasesAll == mpc = "exited" => setRefs = 0 /\ deviceRefs = 0

(* From exit code 1 a script may conclude that no byte of the backup was     *)
(* taken, and a backup that ended well exits with 0.  The converse does not  *)
(* hold: main() does not ask what became of process_commands().              *)
ExitCodeTells ==
  /\ exit_code = 1 => offered = 0 /\ total_bytes = 0 /\ completed = 0
  /\ clean => exit_code = 0

(* Once SQL Server has ended every device or aborted, main() returns, unless *)
(* it stands waiting for the operator; --auto spares it that wait as long as *)
(* sqlcmd can be launched.                                                   *)
BackupEndReturns ==
  ended = Devices \/ server = "aborted" ~> mpc \in {"prompt", "exited"}

(* A command that SQL Server posted on any device is taken, or the session   *)
(* is over: the loop serves every device, however long the others are idle.  *)
(* The operator may keep the session from starting.                          *)
PostedIsServed ==
  \A d \in Devices :
    queue[d] # <<>> ~> queue[d] = <<>> \/ mpc \in {"prompt", "exited"}

(* A call to open_devices() returns even if BACKUP is never issued.          *)
OpenReturns == mpc = "open" ~> mpc \in {"processing", "exited"}

-----------------------------------------------------------------------------
(* What the repository says of the program and the code does not do. *)

(* VDC_Flush is completed only when every byte acknowledged is durable. *)
FlushIsDurable ==
  [][use_file_sink /\ completed' > completed /\ cmd.code = "VDC_Flush" =>
       synced >= acked]_vars

(* A session that is not FAILED has lost no byte it acknowledged. *)
NoSilentLoss == clean /\ use_file_sink => Len(file) + Len(buffered) = acked

=============================================================================
