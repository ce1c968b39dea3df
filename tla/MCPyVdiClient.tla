--------------------------- MODULE MCPyVdiClient ----------------------------
(***************************************************************************)
(* PyVdiClient for TLC: chunks of three sizes, the empty one included, and *)
(* a command for each other branch of the dispatch.                        *)
(***************************************************************************)
EXTENDS PyVdiClient

MCCommands ==
  {[code |-> "VDC_Write", size |-> n] : n \in 0 .. 2}
    \cup {[code |-> c, size |-> 0] : c \in {"VDC_Flush", "VDC_Close", "other"}}

=============================================================================
