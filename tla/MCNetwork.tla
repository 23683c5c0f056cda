------------------------------ MODULE MCNetwork ------------------------------
(***************************************************************************)
(* Instances of Network for TLC.                                           *)
(***************************************************************************)
EXTENDS Network

AllNetworks == {"gsm", "lte", "nr"}

\* The user allows everything.
OneMask  == {AllNetworks}
=============================================================================
