------------------------------ MODULE MCExtio ------------------------------
(* Instances of Extio for TLC.                                             *)
EXTENDS Extio

\* Inputs "a1" and "a2" share a byte of the input chain, "b1" has its own.
MCByteOf == [i \in Inputs |-> IF i = "b1" THEN 1 ELSE 0]
=============================================================================
