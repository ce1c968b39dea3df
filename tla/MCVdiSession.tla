---------------------------- MODULE MCVdiSession ----------------------------
(***************************************************************************)
(* VdiSession for TLC.  The commands cover every branch of the dispatch    *)
(* and of the validation: a chunk below, at and above the size limit, an   *)
(* empty one, one without a buffer, and the commands that need no work.    *)
(***************************************************************************)
EXTENDS VdiSession

Command(code, size, buffer) == [code |-> code, size |-> size, buffer |-> buffer]

MCCommands ==
  {Command("VDC_Write", n, TRUE) : n \in 0 .. 3}
    \cup {Command("VDC_Write", 1, FALSE), Command("VDC_Flush", 0, FALSE),
          Command("VDC_Read", 1, TRUE), Command("VDC_Close", 0, FALSE),
          Command("other", 0, FALSE)}

=============================================================================
