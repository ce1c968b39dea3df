---------------------------- MODULE MCVdiBackup -----------------------------
(***************************************************************************)
(* VdiBackup for TLC.  Write sizes fall below and at the capacity of the   *)
(* write buffer, so chunks are copied, spilled and written directly.       *)
(***************************************************************************)
EXTENDS VdiBackup

Command(code, size, buffer) == [code |-> code, size |-> size, buffer |-> buffer]

Write1 == Command("VDC_Write", 1, TRUE)
Write2 == Command("VDC_Write", 2, TRUE)
Write3 == Command("VDC_Write", 3, TRUE)
Oversize == Command("VDC_Write", 4, TRUE)
Flush0 == Command("VDC_Flush", 0, FALSE)
Close0 == Command("VDC_Close", 0, FALSE)

(* What a backup sends. *)
BackupCommands == {Write1, Write2, Write3, Flush0}

(* With a chunk that does not pass validation, and the close command. *)
AnyCommands == BackupCommands \cup {Oversize, Close0}

TwoCommands == {Write1, Flush0}

OneCommand == {Write1}

=============================================================================
