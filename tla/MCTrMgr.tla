------------------------------ MODULE MCTrMgr -------------------------------
(***************************************************************************)
(* Instances of TrMgr for TLC.  Sessions that may do the same things are   *)
(* interchangeable.                                                        *)
(***************************************************************************)
EXTENDS TrMgr, TLC

Symmetry == {p \in Permutations(Session) :
               \A s \in Session : /\ s \in ReadOnly <=> p[s] \in ReadOnly
                                  /\ s \in LogLess <=> p[s] \in LogLess
                                  /\ s \in Stoppable <=> p[s] \in Stoppable}
=============================================================================
