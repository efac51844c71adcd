------------------------------ MODULE MCNbIot ------------------------------
(* Instances of NbIot: two building ids, two settings of the detectors.     *)
EXTENDS NbIot

MCDelivered == [building_id |-> "b1", threshold |-> 10]
=============================================================================
