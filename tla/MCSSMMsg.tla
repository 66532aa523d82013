------------------------------ MODULE MCSSMMsg ------------------------------
(***************************************************************************)
(* Instances of SSMMsg for TLC.                                            *)
(***************************************************************************)
EXTENDS SSMMsg
=============================================================================
