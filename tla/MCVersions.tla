----------------------------- MODULE MCVersions -----------------------------
(***************************************************************************)
(* Instances of Versions for TLC.  Clients, initial blocks and free        *)
(* addresses are interchangeable.                                          *)
(***************************************************************************)
EXTENDS Versions, TLC

Symmetry == Permutations(Client) \cup Permutations(InitialBlocks)
              \cup Permutations(Xptr \ InitialBlocks)
=============================================================================
