---------------------------- MODULE LocalLockMgr ----------------------------
(***************************************************************************)
(* The lock protocol of a transaction process (kernel/tr/locks/locks.cpp)  *)
(* on top of the lock table.  Every lock on a document, collection, index  *)
(* or trigger is preceded by an intention lock on the database; the two    *)
(* obtain_lock calls are two messages, between which other sessions run.   *)
(* Read-only transactions send no lock message at all and are left out.    *)
(***************************************************************************)
EXTENDS LockTable

CONSTANTS
    Db,         \* the database, the root of the lock hierarchy
    Stoppable   \* the sessions that the governor may stop

ASSUME DbAssumption == Db \in Resource
ASSUME StoppableAssumption == Stoppable \subseteq Tran

VARIABLE pending    \* the second obtain_lock of a put_lock_on_* call, or NoLock

mgrVars == <<vars, pending>>

NoLock == <<NoResource, "NULL">>

Entity == Resource \ {Db}

\* local_lock_mrg->mode, set by every statement with lock(lm_s) or lock(lm_x).
StatementMode == {"s", "x"}

Intention(m) == IF m = "s" THEN "is" ELSE "ix"

MgrInit == Init /\ pending = [t \in Tran |-> NoLock]

Idle(t) == client[t] = "running" /\ pending[t] = NoLock

\* put_lock_on_document, _collection, _index, _trigger: the intention lock ...
put_lock_on_entity(t, e, m) ==
    /\ Idle(t)
    /\ Obtain(t, Db, Intention(m))
    /\ pending' = [pending EXCEPT ![t] = IF client'[t] = "ending" THEN NoLock ELSE <<e, m>>]

\* ... and, once it is granted, the lock itself.
obtain_pending(t) ==
    /\ client[t] = "running" /\ pending[t] # NoLock
    /\ Obtain(t, pending[t][1], pending[t][2])
    /\ pending' = [pending EXCEPT ![t] = NoLock]

put_lock_on_db(t, m) ==
    /\ Idle(t)
    /\ Obtain(t, Db, m)
    /\ UNCHANGED pending

\* wait_for_sm_to_unblock ends in SE4608: the put_lock_on_* call is abandoned.
StopWaiting(t) ==
    /\ t \in Stoppable /\ Stopped(t)
    /\ pending' = [pending EXCEPT ![t] = NoLock]

\* A statement is never left between the two obtain_lock calls.
EndTransaction(t) ==
    /\ pending[t] = NoLock
    /\ Release(t)
    /\ UNCHANGED pending

MgrNext ==
    \E t \in Tran :
        \/ \E m \in StatementMode : \/ \E e \in Entity : put_lock_on_entity(t, e, m)
                                    \/ put_lock_on_db(t, m)
        \/ obtain_pending(t)
        \/ StopWaiting(t)
        \/ EndTransaction(t)
        \/ (Unblocked(t) \/ ReleaseStopped(t) \/ NewSession(t)) /\ UNCHANGED pending

MgrSpec == MgrInit /\ [][MgrNext]_mgrVars
=============================================================================
