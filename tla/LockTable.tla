------------------------------ MODULE LockTable ------------------------------
(***************************************************************************)
(* The lock manager of the storage manager process (kernel/sm/lm), driven  *)
(* by the lock messages of kernel/sm/sm.cpp.  The table is protected by a  *)
(* mutex and the messages by the storage manager's giant lock, so one      *)
(* message is one atomic action.                                           *)
(*                                                                         *)
(* A lock_head that does not exist is a resource with an empty queue.  A   *)
(* session runs one transaction at a time and owns one semaphore, so a     *)
(* transaction, its TransCB and its session semaphore share one name.      *)
(***************************************************************************)
EXTENDS Integers, Sequences

CONSTANTS
    Tran,       \* transaction identifiers (and their sessions)
    Resource,   \* lockable entities: database, documents, collections, ...
    NoResource  \* TransCB.wait = NULL

ASSUME ResourceAssumption == NoResource \notin Resource

VARIABLES
    queue,          \* lock_head.queue
    granted_mode,   \* lock_head.granted_mode
    waiting,        \* lock_head.waiting
    wait,           \* TransCB.wait: the resource whose request blocks the transaction
    status,         \* TransCB.status
    xsem,           \* value of the session semaphore (process_xsem, wait_sem)
    client          \* what the transaction process is doing

vars == <<queue, granted_mode, waiting, wait, status, xsem, client>>

(***************************************************************************)
(* Lock modes.                                                             *)
(***************************************************************************)
Requested == {"s", "x", "is", "ix"}
HeldMode == Requested \cup {"six"}
LockMode == HeldMode \cup {"NULL"}

Compatible ==
    {<<"is", "is">>, <<"is", "ix">>, <<"is", "s">>, <<"is", "six">>,
     <<"ix", "is">>, <<"ix", "ix">>, <<"s", "is">>, <<"s", "s">>, <<"six", "is">>}

lock_compat(m1, m2) == m1 = "NULL" \/ m2 = "NULL" \/ <<m1, m2>> \in Compatible

\* lock_max of any number of modes: the least mode that covers all of them.
LockMaxOf(S) ==
    IF "x" \in S THEN "x"
    ELSE IF "six" \in S \/ {"s", "ix"} \subseteq S THEN "six"
    ELSE IF "s" \in S THEN "s"
    ELSE IF "ix" \in S THEN "ix"
    ELSE IF "is" \in S THEN "is"
    ELSE "NULL"

lock_max(m1, m2) == LockMaxOf({m1, m2})

(***************************************************************************)
(* Requests and queues.                                                    *)
(***************************************************************************)
LockStatus == {"GRANTED", "CONVERTING", "WAITING"}
Request == [tran : Tran, mode : HeldMode, status : LockStatus, convert_mode : LockMode]

lock_request(t, m, s) == [tran |-> t, mode |-> m, status |-> s, convert_mode |-> "NULL"]

\* A granted and a converting request both hold their mode.
Holds(req) == req.status \in {"GRANTED", "CONVERTING"}

InQueue(q, t) == \E i \in DOMAIN q : q[i].tran = t
Position(q, t) == CHOOSE i \in DOMAIN q : q[i].tran = t

(***************************************************************************)
(* The traversal that unlock makes of the queue a request has left.        *)
(* Conversions are tried in queue order, each against the requests that    *)
(* are granted when its turn comes; the first one that fails stops the     *)
(* granting.  Waiters are then granted in queue order up to the first that *)
(* conflicts.                                                              *)
(***************************************************************************)
\* Mutant: only the requests ahead of the conversion are looked at.
ConvertCompatible_AheadOnly(q, j) ==
    \A k \in 1..(j - 1) :
        /\ q[k].status = "GRANTED" => lock_compat(q[j].convert_mode, q[k].mode)
        /\ q[k].status = "CONVERTING" => lock_compat(q[j].convert_mode, q[k].convert_mode)

ConvertCompatible(q, j) ==
    \A k \in DOMAIN q \ {j} :
        /\ q[k].status = "GRANTED" => lock_compat(q[j].convert_mode, q[k].mode)
        /\ q[k].status = "CONVERTING" /\ k < j
              => lock_compat(q[j].convert_mode, q[k].convert_mode)

ConvertGranted(q, i) ==
    /\ q[i].status = "CONVERTING"
    /\ \A j \in 1..i : q[j].status = "CONVERTING" => ConvertCompatible(q, j)

\* Mutant: the flag is set by every conversion, also one that has just been granted.
convert_request_waiting_Any(q) == \E j \in DOMAIN q : q[j].status = "CONVERTING"

convert_request_waiting(q) ==
    \E j \in DOMAIN q : q[j].status = "CONVERTING" /\ ~ConvertGranted(q, j)

ModeAfter(q, k) == IF ConvertGranted(q, k) THEN q[k].convert_mode ELSE q[k].mode

WaiterGranted(q, i) ==
    /\ q[i].status = "WAITING"
    /\ ~convert_request_waiting(q)
    /\ \A j \in 1..i : q[j].status = "WAITING"
          => \A k \in 1..(j - 1) : lock_compat(q[j].mode, ModeAfter(q, k))

Woken(q, i) == ConvertGranted(q, i) \/ WaiterGranted(q, i)

Traversed(q) ==
    [i \in DOMAIN q |->
        IF Woken(q, i)
        THEN [q[i] EXCEPT !.status = "GRANTED",
                          !.mode = ModeAfter(q, i),
                          !.convert_mode = "NULL"]
        ELSE q[i]]

\* The first conversion that fails is the one whose held mode is not counted.
FirstBlocked(q, i) ==
    /\ q[i].status = "CONVERTING" /\ ~ConvertGranted(q, i)
    /\ \A j \in 1..(i - 1) : q[j].status = "CONVERTING" => ConvertGranted(q, j)

TraversedMode(q) ==
    LockMaxOf({ModeAfter(q, i) : i \in {k \in DOMAIN q :
        Holds(Traversed(q)[k]) /\ ~FirstBlocked(q, k)}})

TraversedWaiting(q) == \E i \in DOMAIN q : q[i].status # "GRANTED" /\ ~Woken(q, i)

\* The queue that the request of t leaves behind.
Without(q, p) == SubSeq(q, 1, p - 1) \o SubSeq(q, p + 1, Len(q))
Left(q, t) == Without(q, Position(q, t))

(***************************************************************************)
(* Deadlock detection: the requests that visit() follows from t.           *)
(***************************************************************************)
\* Mutant: only waiting requests are followed, conversions are not.
Followed_WaitingOnly(q, me, k) ==
    /\ q[me].status = "WAITING" /\ k < me
    /\ ~lock_compat(q[k].mode, q[me].mode)

Followed(q, me, k) ==
    LET my == q[me] them == q[k] IN
    IF my.status = "WAITING"
    THEN /\ k < me
         /\ \/ ~lock_compat(them.mode, my.mode)
            \/ them.status = "CONVERTING" /\ ~lock_compat(them.convert_mode, my.mode)
    ELSE /\ k # me
         /\ \A j \in 1..k : q[j].status # "WAITING"
         /\ \/ ~lock_compat(them.mode, my.convert_mode)
            \/ /\ k < me /\ them.status = "CONVERTING"
               /\ ~lock_compat(them.convert_mode, my.convert_mode)

\* qs and w are the queues and the wait pointers visit() reads.
Visited(qs, w, t) ==
    IF w[t] = NoResource THEN {}
    ELSE LET q == qs[w[t]] IN
         {q[k].tran : k \in {i \in DOMAIN q : Followed(q, Position(q, t), i)}}

\* The depth-first search from t meets t again.
deadlock(qs, w, t) ==
    \A S \in SUBSET Tran :
        /\ Visited(qs, w, t) \subseteq S
        /\ \A u \in S : Visited(qs, w, u) \subseteq S
        => t \in S

-----------------------------------------------------------------------------
Init ==
    /\ queue = [r \in Resource |-> <<>>]
    /\ granted_mode = [r \in Resource |-> "NULL"]
    /\ waiting = [r \in Resource |-> FALSE]
    /\ wait = [t \in Tran |-> NoResource]
    /\ status = [t \in Tran |-> "NORMAL_PROCESSING"]
    /\ xsem = [t \in Tran |-> 0]
    /\ client = [t \in Tran |-> "running"]

\* The reply to a request that was granted at once: '1'.
Granted(r, q, m) ==
    /\ queue' = [queue EXCEPT ![r] = q]
    /\ granted_mode' = [granted_mode EXCEPT ![r] = lock_max(m, @)]
    /\ UNCHANGED <<waiting, wait, status, client>>

\* The reply to a request that was not: '0', the transaction waits on its
\* semaphore, or '2', it is the victim of a deadlock and rolls back.
NotLocked(t, r, q) ==
    LET qs == [queue EXCEPT ![r] = q]
        w == [wait EXCEPT ![t] = r]
        victim == deadlock(qs, w, t)
    IN  /\ queue' = qs
        /\ wait' = w
        /\ waiting' = [waiting EXCEPT ![r] = TRUE]
        /\ status' = IF victim THEN [status EXCEPT ![t] = "ROLLING_BACK_AFTER_DEADLOCK"] ELSE status
        /\ client' = [client EXCEPT ![t] = IF victim THEN "ending" ELSE "blocked"]
        /\ UNCHANGED granted_mode

\* lock(), a new request: granted if nobody waits and the mode fits the group.
LockNew(t, r, m) ==
    LET q == queue[r] IN
    /\ ~InQueue(q, t)
    /\ IF ~waiting[r] /\ lock_compat(m, granted_mode[r])
       THEN Granted(r, Append(q, lock_request(t, m, "GRANTED")), m)
       ELSE NotLocked(t, r, Append(q, lock_request(t, m, "WAITING")))

\* The request at position p waits for mode m, or has got it.
Converting(q, p, m) == [q EXCEPT ![p] = [@ EXCEPT !.convert_mode = m, !.status = "CONVERTING"]]
Converted(q, p, m) ==
    [q EXCEPT ![p] = [@ EXCEPT !.mode = m, !.status = "GRANTED", !.convert_mode = "NULL"]]

\* lock(), a conversion: granted if it fits what every other holder holds.
LockConvert(t, r, m) ==
    LET q == queue[r]
        me == Position(q, t)
        convert_mode == lock_max(q[me].mode, m)
        blocked == \E k \in DOMAIN q : /\ k # me /\ Holds(q[k])
                                       /\ ~lock_compat(q[k].mode, convert_mode)
    IN  /\ InQueue(q, t)
        /\ IF blocked
           THEN NotLocked(t, r, Converting(q, me, convert_mode))
           ELSE Granted(r, Converted(q, me, convert_mode), convert_mode)

\* Message 3: obtain a lock.
Obtain(t, r, m) ==
    /\ client[t] = "running"
    /\ LockNew(t, r, m) \/ LockConvert(t, r, m)
    /\ UNCHANGED xsem

\* wait_for_sm_to_unblock: the semaphore was raised.
Unblocked(t) ==
    /\ client[t] = "blocked" /\ xsem[t] > 0
    /\ xsem' = [xsem EXCEPT ![t] = @ - 1]
    /\ client' = [client EXCEPT ![t] = "running"]
    /\ UNCHANGED <<queue, granted_mode, waiting, wait, status>>

\* wait_for_sm_to_unblock: the wait timed out and the session is being stopped;
\* the transaction is rolled back and the session will end.
Stopped(t) ==
    /\ client[t] = "blocked" /\ xsem[t] = 0
    /\ client' = [client EXCEPT ![t] = "stopping"]
    /\ UNCHANGED <<queue, granted_mode, waiting, wait, status, xsem>>

\* Message 4: release all locks of t.  Its requests are in different queues and a
\* transaction waits in one queue only, so the order of the queues is immaterial.
WokenBy(t) ==
    {u \in Tran \ {t} : \E r \in Resource :
        /\ InQueue(queue[r], t)
        /\ LET q == Left(queue[r], t) IN
           \E i \in DOMAIN q : q[i].tran = u /\ Woken(q, i)}

release_tr_locks(t) ==
    LET at == {r \in Resource : InQueue(queue[r], t)}
        woken == WokenBy(t)
    IN
    /\ queue' = [r \in Resource |->
          IF r \in at THEN Traversed(Left(queue[r], t)) ELSE queue[r]]
    /\ granted_mode' = [r \in Resource |->
          IF r \in at THEN TraversedMode(Left(queue[r], t)) ELSE granted_mode[r]]
    /\ waiting' = [r \in Resource |->
          IF r \in at THEN TraversedWaiting(Left(queue[r], t)) ELSE waiting[r]]
    /\ wait' = [u \in Tran |-> IF u = t \/ u \in woken THEN NoResource ELSE wait[u]]
    /\ status' = [status EXCEPT ![t] = "NORMAL_PROCESSING"]
    /\ xsem' = [u \in Tran |->
          IF u \in woken /\ status[u] # "ROLLING_BACK_AFTER_DEADLOCK"
          THEN xsem[u] + 1 ELSE xsem[u]]

\* The end of a transaction: commit, rollback, or rollback of a victim.
Release(t) ==
    /\ client[t] \in {"running", "ending"}
    /\ release_tr_locks(t)
    /\ client' = [client EXCEPT ![t] = "running"]

\* The end of a stopped transaction.
ReleaseStopped(t) ==
    /\ client[t] = "stopping"
    /\ release_tr_locks(t)
    /\ client' = [client EXCEPT ![t] = "stopped"]

\* on_session_end and the next on_session_begin: a new semaphore.
NewSession(t) ==
    /\ client[t] = "stopped"
    /\ client' = [client EXCEPT ![t] = "running"]
    /\ xsem' = [xsem EXCEPT ![t] = 0]
    /\ UNCHANGED <<queue, granted_mode, waiting, wait, status>>

Next ==
    \E t \in Tran :
        \/ \E r \in Resource, m \in Requested : Obtain(t, r, m)
        \/ Unblocked(t) \/ Stopped(t)
        \/ Release(t) \/ ReleaseStopped(t) \/ NewSession(t)

Spec == Init /\ [][Next]_vars

-----------------------------------------------------------------------------
\* The types of the lock heads, requests and transaction control blocks.
TypeOK ==
    /\ queue \in [Resource -> Seq(Request)]
    /\ granted_mode \in [Resource -> LockMode]
    /\ waiting \in [Resource -> BOOLEAN]
    /\ wait \in [Tran -> Resource \cup {NoResource}]
    /\ status \in [Tran -> {"NORMAL_PROCESSING", "ROLLING_BACK_AFTER_DEADLOCK"}]
    /\ xsem \in [Tran -> Nat]
    /\ client \in [Tran -> {"running", "blocked", "ending", "stopping", "stopped"}]

Active(st, t) == st[t] # "ROLLING_BACK_AFTER_DEADLOCK"

\* The requests of q that hold a mode for a transaction which is not a deadlock victim.
ActiveHolders(q, st) == {i \in DOMAIN q : Holds(q[i]) /\ Active(st, q[i].tran)}

CompatibleIn(q, S) == \A i, j \in S : i # j => lock_compat(q[i].mode, q[j].mode)

\* Two transactions never hold incompatible modes of one resource, whether their
\* requests are granted or converting: what lock() checks of a conversion.  Deadlock
\* victims that are still rolling back are left out.
HoldersCompatible ==
    \A r \in Resource : CompatibleIn(queue[r], ActiveHolders(queue[r], status))

\* The same of every holder: a victim keeps what it holds until its rollback has ended
\* (release_locks comes last in on_transaction_end), so nobody is let in before.
\* The code does not guarantee it (README, section 4).
AllHoldersCompatible ==
    \A r \in Resource : CompatibleIn(queue[r], {i \in DOMAIN queue[r] : Holds(queue[r][i])})

ModeExact(q, m) ==
    /\ \A i \in DOMAIN q : q[i].status = "GRANTED"
    /\ m = LockMaxOf({q[i].mode : i \in DOMAIN q})

\* Whenever a new request can be granted at once (the waiting flag is clear), the
\* granted mode it is compared with is exactly the maximum of what is held.
GrantedModeExact == \A r \in Resource : ~waiting[r] => ModeExact(queue[r], granted_mode[r])

\* A blocked transaction has exactly one unit on its semaphore once its request has
\* been granted and none before; a transaction that is not blocked has none that a
\* later wait would mistake for its own grant.
WokenIffGranted ==
    \A t \in Tran :
        /\ client[t] = "blocked" =>
              xsem[t] = IF wait[t] = NoResource THEN 1 ELSE 0
        /\ client[t] \in {"running", "ending"} => xsem[t] = 0

\* The requests that stand in the way of request i of q.
Blockers(q, i) ==
    IF q[i].status = "CONVERTING"
    THEN {k \in DOMAIN q \ {i} : Holds(q[k]) /\ ~lock_compat(q[i].convert_mode, q[k].mode)}
    ELSE {k \in 1..(i - 1) : ~lock_compat(q[i].mode, q[k].mode)}

FirstNotGranted(q, i) ==
    /\ q[i].status # "GRANTED"
    /\ \A j \in 1..(i - 1) : q[j].status = "GRANTED"

BlockedRightly(q) == \A i \in DOMAIN q : FirstNotGranted(q, i) => Blockers(q, i) # {}

\* A request that waits at the front of the not granted part of its queue conflicts
\* with what another transaction holds: unlock() misses no grant.
NoMissedGrant == \A r \in Resource : BlockedRightly(queue[r])

\* Some transaction can still go on whenever one is blocked: every cycle of waits was
\* found when its last request was made, as deadlock() claims of the cycles that do
\* not start in the current node.
NoStall ==
    (\E t \in Tran : client[t] = "blocked" /\ xsem[t] = 0)
    => \E t \in Tran : \/ client[t] = "blocked" /\ xsem[t] > 0
                       \/ client[t] # "blocked" /\ \E r \in Resource : InQueue(queue[r], t)

-----------------------------------------------------------------------------
(***************************************************************************)
(* The inductive invariant.                                                *)
(***************************************************************************)
Distinct(q) == \A i, j \in DOMAIN q : i # j => q[i].tran # q[j].tran

\* Requests that wait are behind all that hold.
HoldersFirst(q) == \A i, j \in DOMAIN q : i < j /\ Holds(q[j]) => Holds(q[i])

\* A converting request wants a mode that covers the one it holds.
WantsMore(q) ==
    \A i \in DOMAIN q : q[i].status = "CONVERTING" =>
        /\ q[i].convert_mode \in HeldMode
        /\ lock_max(q[i].mode, q[i].convert_mode) = q[i].convert_mode

\* A conversion that will be tried first conflicts with no later converting holder,
\* because visit() would have found the two in each other's way.
ConvertAhead(q, st) ==
    \A i, j \in ActiveHolders(q, st) :
        i < j /\ q[i].status = "CONVERTING" /\ q[j].status = "CONVERTING"
        => lock_compat(q[i].convert_mode, q[j].mode)

QueueInv(q, st) ==
    /\ Distinct(q)
    /\ HoldersFirst(q)
    /\ WantsMore(q)
    /\ ConvertAhead(q, st)
    /\ CompatibleIn(q, ActiveHolders(q, st))

\* TransCB.wait points to the one request of the transaction that is not granted.
WaitPointer ==
    /\ \A r \in Resource : \A i \in DOMAIN queue[r] :
          queue[r][i].status # "GRANTED" <=> wait[queue[r][i].tran] = r
    /\ \A t \in Tran : wait[t] # NoResource => InQueue(queue[wait[t]], t)

WaitingFlag ==
    \A r \in Resource :
        waiting[r] => \E i \in DOMAIN queue[r] : queue[r][i].status # "GRANTED"

ClientState ==
    \A t \in Tran :
        /\ client[t] \in {"running", "stopped"} => wait[t] = NoResource
        /\ Active(status, t) <=> client[t] # "ending"

LockInv ==
    /\ TypeOK
    /\ \A r \in Resource : QueueInv(queue[r], status)
    /\ NoMissedGrant
    /\ GrantedModeExact
    /\ WaitPointer
    /\ WaitingFlag
    /\ ClientState
    /\ WokenIffGranted
=============================================================================
