---------------------------- MODULE MCExtioShift ----------------------------
(* The instance of ExtioShift for TLC: three chips of two stages.          *)
EXTENDS ExtioShift
=============================================================================
