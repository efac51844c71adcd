------------------------------- MODULE MCOta -------------------------------
(* Instances of Ota: three releases, two of them of the same day.           *)
EXTENDS Ota

MCVersions == {2021041501, 2021041502, 2021042001}
MCFirst == 2021041501
\* Compiled on the day in the number (months count from 0).
MCBuiltOn == [v \in MCVersions |->
    IF v = 2021042001 THEN <<2021, 3, 20>> ELSE <<2021, 3, 15>>]
\* The second release of the same day, which is recorded and not installed, and the
\* older offer once the last one runs; the last one, also without its file; and no
\* version.
MCOffered == [ver : {2021041502, 2021042001}, file : {TRUE}]
    \cup {[ver |-> 2021042001, file |-> FALSE], [ver |-> NoVersion, file |-> TRUE]}
=============================================================================
