------------------------------ MODULE MCDetect ------------------------------
(***************************************************************************)
(* Instances of Detect for TLC.                                            *)
(***************************************************************************)
EXTENDS Detect, TLC

CONSTANTS n1, n2, mts, tele, big, virtual

\* An operator, and one carrier_list.pb does not know.  An MVNO has the number of
\* the first and the name of the second.
A == [number |-> n1, name |-> mts]
U == [number |-> n2, name |-> tele]

McGeneric == n1 :> big
McMvno    == [number |-> n1, name |-> tele] :> virtual
NoMvno    == [s \in {} |-> virtual]
TwoSims   == {A, U}
OneSim    == {A}
=============================================================================
