---------------------------- MODULE MCMeteredLoop ----------------------------
(***************************************************************************)
(* MeteredLoop for TLC: a counter of four ticks to three microseconds      *)
(* whose product overflows, within the bound, six ticks after its start.   *)
(* PRECISION = 2^13 stands for 2^53: the powers leave the same remainder    *)
(* modulo 100, so 50, 95 and 99 percent are rounded in the same direction.  *)
(***************************************************************************)
EXTENDS MeteredLoop

MCCommands ==
  {[code |-> "VDC_Write", size |-> 1], [code |-> "VDC_Write", size |-> 4],
   [code |-> "other", size |-> 0], [code |-> "VDC_Close", size |-> 0]}

=============================================================================
