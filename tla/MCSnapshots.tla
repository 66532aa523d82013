---------------------------- MODULE MCSnapshots -----------------------------
(***************************************************************************)
(* Instances of Snapshots for TLC.  Clients and blocks are interchangeable.*)
(***************************************************************************)
EXTENDS Snapshots, TLC

Symmetry == Permutations(Client) \cup Permutations(Xptr)
=============================================================================
