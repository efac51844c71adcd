------------------------------- MODULE MCMisc -------------------------------
(* Instances of Misc for TLC.                                              *)
EXTENDS Misc
=============================================================================
