--------------------------- MODULE MCLocalLockMgr ---------------------------
(***************************************************************************)
(* Instances of LocalLockMgr for TLC.  Transactions are interchangeable.   *)
(***************************************************************************)
EXTENDS LocalLockMgr, LockLoop

Symmetry == Permutations(Tran)
=============================================================================
