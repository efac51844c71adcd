------------------------------ MODULE MCConfig ------------------------------
(* Instances of Config for TLC: two groups of members, three values.       *)
EXTENDS Config

MCDefault == [f \in Fields |-> "d"]
MCZero == [f \in Fields |-> "empty"]
\* A checksum without collisions.
MCCrc(c) == c
MCNoCrc == [f \in Fields |-> "none"]
=============================================================================
