-------------------------- MODULE LockObtainProofs --------------------------
(*****************************************************************************)
(* The inductive invariant holds initially and is kept by the handling of a  *)
(* lock request: granted at once, refused as a deadlock, or left waiting.    *)
(*****************************************************************************)
EXTENDS LockQueueProofs

-----------------------------------------------------------------------------
(* The steps *)

\* A request granted at once keeps the invariant when its new queue does.
LEMMA GrantedStep ==
    ASSUME LockInv, NEW r \in Resource, NEW n \in Seq(Request), NEW m \in HeldMode,
           Granted(r, n, m), UNCHANGED xsem,
           QueueInv(n, status), BlockedRightly(n),
           \A i \in DOMAIN n : n[i].status # "GRANTED" <=> wait[n[i].tran] = r,
           \A u \in Tran : InQueue(queue[r], u) => InQueue(n, u),
           waiting[r] => \E i \in DOMAIN n : n[i].status # "GRANTED",
           ~waiting[r] => ModeExact(n, lock_max(m, granted_mode[r]))
    PROVE  LockInv'
  <1>1. /\ queue \in [Resource -> Seq(Request)] /\ granted_mode \in [Resource -> LockMode]
        /\ queue' = [queue EXCEPT ![r] = n]
        /\ granted_mode' = [granted_mode EXCEPT ![r] = lock_max(m, @)]
        /\ UNCHANGED <<waiting, wait, status, client, xsem>>
    BY DEF LockInv, TypeOK, Granted
  <1>2. /\ queue' \in [Resource -> Seq(Request)] /\ queue'[r] = n
        /\ \A s \in Resource : s # r => queue'[s] = queue[s] /\ granted_mode'[s] = granted_mode[s]
        /\ granted_mode'[r] = lock_max(m, granted_mode[r])
    BY <1>1
  <1>3. TypeOK'
    BY <1>1, <1>2, MaxType DEF LockInv, TypeOK, LockMode
  <1>4. \A s \in Resource : QueueInv(queue'[s], status') /\ BlockedRightly(queue'[s])
    BY <1>1, <1>2 DEF LockInv, NoMissedGrant
  <1>5. GrantedModeExact'
    BY <1>1, <1>2 DEF LockInv, GrantedModeExact
  <1>6. WaitPointer'
    <2>1. \A s \in Resource : \A i \in DOMAIN queue'[s] :
             queue'[s][i].status # "GRANTED" <=> wait'[queue'[s][i].tran] = s
      BY <1>1, <1>2 DEF LockInv, WaitPointer
    <2>2. \A u \in Tran : wait'[u] # NoResource => InQueue(queue'[wait'[u]], u)
      BY <1>1, <1>2 DEF LockInv, WaitPointer, TypeOK
    <2> QED
      BY <2>1, <2>2 DEF WaitPointer
  <1>7. WaitingFlag'
    BY <1>1, <1>2 DEF LockInv, WaitingFlag
  <1>8. ClientState' /\ WokenIffGranted'
    BY <1>1 DEF LockInv, ClientState, WokenIffGranted
  <1> QED
    BY <1>3, <1>4, <1>5, <1>6, <1>7, <1>8 DEF LockInv, NoMissedGrant

\* A request that is not granted keeps the invariant when its new queue does.
LEMMA NotLockedStep ==
    ASSUME LockInv, NEW t \in Tran, NEW r \in Resource, NEW n \in Seq(Request),
           client[t] = "running", NotLocked(t, r, n), UNCHANGED xsem,
           QueueInv(n, status'), BlockedRightly(n),
           \A i \in DOMAIN n : \/ n[i].tran = t /\ n[i].status # "GRANTED"
                               \/ n[i].tran # t /\ i \in DOMAIN queue[r] /\ n[i] = queue[r][i],
           \A u \in Tran : InQueue(queue[r], u) => InQueue(n, u),
           InQueue(n, t)
    PROVE  LockInv'
  <1> DEFINE victim == deadlock([queue EXCEPT ![r] = n], [wait EXCEPT ![t] = r], t)
  <1>1. /\ queue \in [Resource -> Seq(Request)] /\ granted_mode \in [Resource -> LockMode]
        /\ waiting \in [Resource -> BOOLEAN] /\ wait \in [Tran -> Resource \cup {NoResource}]
        /\ status \in [Tran -> {"NORMAL_PROCESSING", "ROLLING_BACK_AFTER_DEADLOCK"}]
        /\ xsem \in [Tran -> Nat]
        /\ client \in [Tran -> {"running", "blocked", "ending", "stopping", "stopped"}]
    BY DEF LockInv, TypeOK
  <1>2. /\ queue' = [queue EXCEPT ![r] = n] /\ wait' = [wait EXCEPT ![t] = r]
        /\ waiting' = [waiting EXCEPT ![r] = TRUE]
        /\ status' = IF victim THEN [status EXCEPT ![t] = "ROLLING_BACK_AFTER_DEADLOCK"]
                     ELSE status
        /\ client' = [client EXCEPT ![t] = IF victim THEN "ending" ELSE "blocked"]
        /\ UNCHANGED <<granted_mode, xsem>>
    BY DEF NotLocked
  <1> HIDE DEF victim
  <1>3. /\ queue'[r] = n /\ wait'[t] = r /\ waiting'[r]
        /\ \A s \in Resource : s # r => queue'[s] = queue[s] /\ waiting'[s] = waiting[s]
        /\ \A u \in Tran : u # t => /\ wait'[u] = wait[u] /\ status'[u] = status[u]
                                    /\ client'[u] = client[u]
        /\ \/ client'[t] = "ending" /\ status'[t] = "ROLLING_BACK_AFTER_DEADLOCK"
           \/ client'[t] = "blocked" /\ status'[t] = status[t]
    BY <1>1, <1>2
  <1>4. /\ queue' \in [Resource -> Seq(Request)] /\ waiting' \in [Resource -> BOOLEAN]
        /\ wait' \in [Tran -> Resource \cup {NoResource}]
        /\ status' \in [Tran -> {"NORMAL_PROCESSING", "ROLLING_BACK_AFTER_DEADLOCK"}]
        /\ client' \in [Tran -> {"running", "blocked", "ending", "stopping", "stopped"}]
    BY <1>1, <1>2
  <1>5. TypeOK'
    BY <1>1, <1>2, <1>4 DEF TypeOK
  <1>6. wait[t] = NoResource /\ xsem[t] = 0 /\ Active(status, t)
    BY DEF LockInv, ClientState, WokenIffGranted
  <1>7. \A s \in Resource : QueueInv(queue'[s], status') /\ BlockedRightly(queue'[s])
    <2> SUFFICES ASSUME NEW s \in Resource, s # r
                 PROVE  QueueInv(queue[s], status') /\ BlockedRightly(queue[s])
      BY <1>3
    <2>1. QueueInv(queue[s], status) /\ BlockedRightly(queue[s])
      BY DEF LockInv, NoMissedGrant
    <2>2. \A i \in DOMAIN queue[s] : queue[s][i].tran \in Tran
      BY <1>1, RequestFields
    <2>3. \A i \in DOMAIN queue[s] :
             Active(status', queue[s][i].tran) => Active(status, queue[s][i].tran)
      BY <2>2, <1>3 DEF Active
    <2> QED
      BY <2>1, <2>3, QueueInvOfStatus
  <1>8. GrantedModeExact'
    BY <1>2, <1>3 DEF LockInv, GrantedModeExact
  <1>9. WaitPointer'
    <2>1. ASSUME NEW s \in Resource, NEW i \in DOMAIN queue'[s]
          PROVE  queue'[s][i].status # "GRANTED" <=> wait'[queue'[s][i].tran] = s
      <3>0. \A j \in DOMAIN queue[s] :
               /\ queue[s][j].status # "GRANTED" <=> wait[queue[s][j].tran] = s
               /\ queue[s][j].tran \in Tran
        BY <1>1, RequestFields DEF LockInv, WaitPointer
      <3>1. CASE s = r
        BY <3>0, <3>1, <1>3, <1>6
      <3>2. CASE s # r
        BY <3>0, <3>2, <1>3, <1>6, ResourceAssumption
      <3> QED
        BY <3>1, <3>2
    <2>2. ASSUME NEW u \in Tran, wait'[u] # NoResource
          PROVE  InQueue(queue'[wait'[u]], u)
      <3>1. CASE u = t
        BY <3>1, <1>3
      <3>2. CASE u # t
        <4>1. wait'[u] = wait[u] /\ wait[u] \in Resource /\ InQueue(queue[wait[u]], u)
          BY <3>2, <2>2, <1>1, <1>3 DEF LockInv, WaitPointer
        <4> QED
          BY <4>1, <1>3
      <3> QED
        BY <3>1, <3>2
    <2> QED
      BY <2>1, <2>2 DEF WaitPointer
  <1>10. WaitingFlag'
    <2>1. \E i \in DOMAIN n : n[i].status # "GRANTED"
      BY DEF InQueue
    <2> QED
      BY <2>1, <1>3 DEF LockInv, WaitingFlag
  <1>11. ClientState'
    BY <1>3, <1>6 DEF LockInv, ClientState, Active
  <1>12. WokenIffGranted'
    BY <1>2, <1>3, <1>6, ResourceAssumption DEF LockInv, WokenIffGranted
  <1> QED
    BY <1>5, <1>7, <1>8, <1>9, <1>10, <1>11, <1>12 DEF LockInv, NoMissedGrant

\* Facts about a running transaction and a resource used for both kinds of request.
LEMMA RunningFacts ==
    ASSUME LockInv, NEW t \in Tran, NEW r \in Resource, client[t] = "running"
    PROVE  /\ queue[r] \in Seq(Request)
           /\ wait[t] = NoResource /\ Active(status, t)
           /\ QueueInv(queue[r], status) /\ BlockedRightly(queue[r])
           /\ \A i \in DOMAIN queue[r] :
                 /\ queue[r][i].tran \in Tran
                 /\ queue[r][i].status # "GRANTED" <=> wait[queue[r][i].tran] = r
           /\ ~waiting[r] => ModeExact(queue[r], granted_mode[r])
           /\ waiting[r] => \E i \in DOMAIN queue[r] : queue[r][i].status # "GRANTED"
  <1>1. queue[r] \in Seq(Request)
    BY DEF LockInv, TypeOK
  <1>2. \A i \in DOMAIN queue[r] : queue[r][i].tran \in Tran
    BY <1>1, RequestFields
  <1> QED
    BY <1>1, <1>2 DEF LockInv, ClientState, NoMissedGrant, WaitPointer, WaitingFlag, GrantedModeExact

\* A request that is not granted makes nobody active who was not.
LEMMA NotLockedStatus ==
    ASSUME LockInv, NEW t \in Tran, NEW r, NEW n, NotLocked(t, r, n)
    PROVE  \A u \in Tran : Active(status', u) => Active(status, u)
  BY DEF LockInv, TypeOK, NotLocked, Active

\* lock() with a new request.
LEMMA LockNewStep ==
    ASSUME LockInv, NEW t \in Tran, NEW r \in Resource, NEW m \in Requested,
           client[t] = "running", LockNew(t, r, m), UNCHANGED xsem
    PROVE  LockInv'
  <1> DEFINE q == queue[r]
  <1>1. /\ q \in Seq(Request) /\ wait[t] = NoResource
        /\ QueueInv(q, status) /\ BlockedRightly(q)
        /\ \A i \in DOMAIN q : /\ q[i].tran \in Tran
                               /\ q[i].status # "GRANTED" <=> wait[q[i].tran] = r
        /\ ~waiting[r] => ModeExact(q, granted_mode[r])
        /\ waiting[r] => \E i \in DOMAIN q : q[i].status # "GRANTED"
    BY RunningFacts
  <1>2. ~InQueue(q, t) /\ m \in HeldMode
    BY DEF LockNew, HeldMode
  <1>3. CASE ~waiting[r] /\ lock_compat(m, granted_mode[r])
    <2> DEFINE req == lock_request(t, m, "GRANTED")
               n == Append(q, req)
    <2>1. Granted(r, n, m)
      BY <1>3 DEF LockNew
    <2>2. \A i \in DOMAIN q : q[i].status = "GRANTED"
      BY <1>1, <1>3 DEF ModeExact
    <2>3. /\ n \in Seq(Request) /\ QueueInv(n, status) /\ BlockedRightly(n)
          /\ ModeExact(n, lock_max(m, granted_mode[r]))
      <3> HIDE DEF q
      <3> QED
        BY <1>1, <1>2, <1>3, AppendGrantedInv, Zenon
    <2>4. \A i \in DOMAIN n : n[i].status = "GRANTED"
      BY <2>3 DEF ModeExact
    <2>5. /\ \A i \in DOMAIN n : n[i].tran = t \/ (i \in DOMAIN q /\ n[i] = q[i])
          /\ \A i \in DOMAIN q : i \in DOMAIN n /\ n[i] = q[i]
      BY <1>1 DEF lock_request
    <2> HIDE DEF n, q
    <2>6. \A i \in DOMAIN n : n[i].status # "GRANTED" <=> wait[n[i].tran] = r
      BY <2>2, <2>4, <2>5, <1>1, ResourceAssumption
    <2>7. \A u \in Tran : InQueue(queue[r], u) => InQueue(n, u)
      BY <2>5 DEF InQueue, q
    <2> QED
      BY <1>2, <1>3, <2>1, <2>3, <2>6, <2>7, GrantedStep
  <1>4. CASE ~(~waiting[r] /\ lock_compat(m, granted_mode[r]))
    <2> DEFINE req == lock_request(t, m, "WAITING")
               n == Append(q, req)
    <2>1. NotLocked(t, r, n)
      BY <1>4 DEF LockNew
    <2>2. \/ \E i \in DOMAIN q : q[i].status # "GRANTED"
          \/ ModeExact(q, granted_mode[r]) /\ ~lock_compat(m, granted_mode[r])
      BY <1>1, <1>4
    <2>3. QueueInv(q, status')
      <3>1. \A u \in Tran : Active(status', u) => Active(status, u)
        BY <2>1, NotLockedStatus
      <3> QED
        BY <3>1, <1>1, QueueInvOfStatus
    <2>4. n \in Seq(Request) /\ QueueInv(n, status') /\ BlockedRightly(n)
      <3> HIDE DEF q
      <3> QED
        BY <1>1, <1>2, <2>2, <2>3, AppendWaitingInv, Zenon
    <2>5. /\ \A i \in DOMAIN q : i \in DOMAIN n /\ n[i] = q[i]
          /\ \A i \in DOMAIN n : \/ n[i].tran = t /\ n[i].status # "GRANTED"
                                 \/ i \in DOMAIN q /\ n[i] = q[i]
          /\ \E i \in DOMAIN n : n[i].tran = t
      <3>1. req \in Request /\ req.tran = t /\ req.status # "GRANTED"
        BY <1>2 DEF lock_request, Request, LockStatus, LockMode
      <3> HIDE DEF req
      <3>2. /\ \A i \in DOMAIN q : i \in DOMAIN n /\ n[i] = q[i]
            /\ n[Len(q) + 1] = req /\ Len(q) + 1 \in DOMAIN n
            /\ \A i \in DOMAIN n : i # Len(q) + 1 => i \in DOMAIN q
        BY <1>1, <3>1, AppendedQueue
      <3> HIDE DEF n
      <3> QED
        BY <3>1, <3>2
    <2> HIDE DEF n
    <2>6. \A u \in Tran : InQueue(queue[r], u) => InQueue(n, u)
      BY <2>5 DEF InQueue
    <2>7. /\ \A i \in DOMAIN n : \/ n[i].tran = t /\ n[i].status # "GRANTED"
                                 \/ n[i].tran # t /\ i \in DOMAIN q /\ n[i] = q[i]
          /\ InQueue(n, t)
      BY <1>2, <2>5 DEF InQueue
    <2> QED
      BY <2>1, <2>4, <2>6, <2>7, NotLockedStep
  <1> QED
    BY <1>3, <1>4

\* When a conversion is made to wait and its transaction is not chosen as a victim, it is
\* compatible with every other conversion in the way ConvertAhead asks for.
LEMMA ConvertingPair ==
    ASSUME LockInv, NEW t \in Tran, NEW r \in Resource, NEW n \in Seq(Request),
           NotLocked(t, r, n), Distinct(n), HoldersFirst(n), WantsMore(n),
           NEW i \in DOMAIN n, NEW j \in DOMAIN n, i < j,
           n[i].status = "CONVERTING", n[j].status = "CONVERTING",
           n[i].tran = t \/ n[j].tran = t,
           \A k \in DOMAIN n : n[k].tran # t => k \in DOMAIN queue[r] /\ n[k] = queue[r][k],
           Active(status', t)
    PROVE  lock_compat(n[i].convert_mode, n[j].mode)
  <1> DEFINE qs == [queue EXCEPT ![r] = n]
             w == [wait EXCEPT ![t] = r]
  <1> SUFFICES ASSUME ~lock_compat(n[i].convert_mode, n[j].mode) PROVE FALSE
    OBVIOUS
  <1>1. /\ queue \in [Resource -> Seq(Request)] /\ wait \in [Tran -> Resource \cup {NoResource}]
        /\ status \in [Tran -> {"NORMAL_PROCESSING", "ROLLING_BACK_AFTER_DEADLOCK"}]
    BY DEF LockInv, TypeOK
  <1>2. ~deadlock(qs, w, t)
    BY <1>1 DEF NotLocked, Active
  <1>3. qs[r] = n /\ w[t] = r
    BY <1>1
  <1>4. \A k \in DOMAIN n : /\ k \in Nat \ {0} /\ n[k].tran \in Tran
                            /\ n[k].mode \in LockMode /\ n[k].convert_mode \in LockMode
    BY RequestFields DEF LockMode
  <1>5. w[n[i].tran] = r /\ w[n[j].tran] = r
    <2>1. ASSUME NEW k \in DOMAIN n, n[k].status = "CONVERTING"
          PROVE  w[n[k].tran] = r
      <3>1. CASE n[k].tran = t
        BY <3>1, <1>3
      <3>2. CASE n[k].tran # t
        <4>1. wait[n[k].tran] = r
          BY <3>2, <2>1 DEF LockInv, WaitPointer
        <4> QED
          BY <4>1, <3>2, <1>1, <1>4
      <3> QED
        BY <3>1, <3>2
    <2> QED
      BY <2>1
  <1>6. Position(n, n[i].tran) = i /\ Position(n, n[j].tran) = j
    <2>1. InQueue(n, n[i].tran) /\ InQueue(n, n[j].tran)
      BY DEF InQueue
    <2> QED
      BY <2>1, PositionProperties DEF Distinct
  <1>7. \A k \in 1..j : k \in DOMAIN n /\ n[k].status # "WAITING"
    <2>1. \A k \in 1..j : k \in DOMAIN n
      BY <1>4
    <2>2. \A k \in 1..j : Holds(n[k])
      BY <2>1, <1>4 DEF HoldersFirst, Holds
    <2> QED
      BY <2>1, <2>2 DEF Holds
  <1>8. Followed(n, i, j)
    <2>1. ~lock_compat(n[j].mode, n[i].convert_mode)
      BY CompatSymmetric
    <2> QED
      BY <2>1, <1>4, <1>7 DEF Followed
  <1>9. Followed(n, j, i)
    <2>1. lock_max(n[j].mode, n[j].convert_mode) = n[j].convert_mode
      BY DEF WantsMore
    <2>2. ~lock_compat(n[i].convert_mode, n[j].convert_mode)
      BY <2>1, <1>4, CoverConflicts
    <2>3. \A k \in 1..i : k \in 1..j
      BY <1>4
    <2> QED
      BY <2>2, <2>3, <1>4, <1>7 DEF Followed
  <1>10. n[j].tran \in Visited(qs, w, n[i].tran) /\ n[i].tran \in Visited(qs, w, n[j].tran)
    <2>1. r # NoResource
      BY ResourceAssumption
    <2> HIDE DEF qs, w
    <2> QED
      BY <2>1, <1>3, <1>5, <1>6, <1>8, <1>9 DEF Visited
  <1> HIDE DEF qs, w
  <1>11. deadlock(qs, w, n[i].tran) /\ deadlock(qs, w, n[j].tran)
    BY <1>4, <1>10, MutualIsDeadlock
  <1> QED
    BY <1>2, <1>11

\* lock() with a conversion.
LEMMA LockConvertStep ==
    ASSUME LockInv, NEW t \in Tran, NEW r \in Resource, NEW m \in Requested,
           client[t] = "running", LockConvert(t, r, m), UNCHANGED xsem
    PROVE  LockInv'
  <1> DEFINE q == queue[r]
             p == Position(q, t)
             c == lock_max(q[p].mode, m)
  <1>1. /\ q \in Seq(Request) /\ wait[t] = NoResource /\ Active(status, t)
        /\ QueueInv(q, status) /\ BlockedRightly(q)
        /\ \A i \in DOMAIN q : /\ q[i].tran \in Tran
                               /\ q[i].status # "GRANTED" <=> wait[q[i].tran] = r
        /\ ~waiting[r] => ModeExact(q, granted_mode[r])
        /\ waiting[r] => \E i \in DOMAIN q : q[i].status # "GRANTED"
    BY RunningFacts
  <1>2. p \in DOMAIN q /\ q[p].tran = t
    BY PositionProperties DEF LockConvert
  <1>3. q[p].status = "GRANTED"
    BY <1>1, <1>2, ResourceAssumption
  <1>4. c \in HeldMode /\ lock_max(q[p].mode, c) = c
    <2>1. q[p].mode \in HeldMode /\ m \in LockMode
      BY <1>1, <1>2, RequestFields DEF LockMode, HeldMode
    <2>2. q[p].mode \in LockMode
      BY <2>1 DEF LockMode
    <2> QED
      BY <2>1, <2>2, MaxType, MaxCovers
  <1>5. CASE ~\E k \in DOMAIN q : k # p /\ Holds(q[k]) /\ ~lock_compat(q[k].mode, c)
    <2> DEFINE n == Converted(q, p, c)
    <2>1. Granted(r, n, c)
      BY <1>5, SMTT(30) DEF LockConvert
    <2>2. /\ n \in Seq(Request) /\ QueueInv(n, status) /\ BlockedRightly(n)
          /\ DOMAIN n = DOMAIN q
          /\ \A i \in DOMAIN n : n[i].tran = q[i].tran /\ n[i].status = q[i].status
          /\ ModeExact(q, granted_mode[r]) => ModeExact(n, lock_max(c, granted_mode[r]))
      <3>1. \A k \in DOMAIN q : k # p /\ Holds(q[k]) => lock_compat(q[k].mode, c)
        BY <1>5
      <3> HIDE DEF q, p, c
      <3> QED
        BY <1>1, <1>2, <1>3, <1>4, <3>1, ConvertedInv
    <2> HIDE DEF n, p, c
    <2>3. ~waiting[r] => ModeExact(n, lock_max(c, granted_mode[r]))
      BY <1>1, <2>2
    <2>4. /\ \A i \in DOMAIN n : n[i].status # "GRANTED" <=> wait[n[i].tran] = r
          /\ \A u \in Tran : InQueue(q, u) => InQueue(n, u)
          /\ waiting[r] => \E i \in DOMAIN n : n[i].status # "GRANTED"
      <3> HIDE DEF q
      <3> QED
        BY <1>1, <2>2, SMTT(30) DEF InQueue
    <2> QED
      BY <1>4, <2>1, <2>2, <2>3, <2>4, GrantedStep
  <1>6. CASE \E k \in DOMAIN q : k # p /\ Holds(q[k]) /\ ~lock_compat(q[k].mode, c)
    <2> DEFINE n == Converting(q, p, c)
               qs == [queue EXCEPT ![r] = n]
               w == [wait EXCEPT ![t] = r]
    <2>1. NotLocked(t, r, n)
      BY <1>6 DEF LockConvert
    <2>2. QueueInv(q, status')
      <3>1. \A u \in Tran : Active(status', u) => Active(status, u)
        BY <2>1, NotLockedStatus, SMTT(30)
      <3> QED
        BY <3>1, <1>1, QueueInvOfStatus
    <2>3. /\ n \in Seq(Request) /\ DOMAIN n = DOMAIN q
          /\ BlockedRightly(n)
          /\ Distinct(n) /\ HoldersFirst(n) /\ WantsMore(n)
          /\ CompatibleIn(n, ActiveHolders(n, status'))
          /\ n[p].tran = t /\ n[p].mode = q[p].mode
          /\ n[p].status = "CONVERTING" /\ n[p].convert_mode = c
          /\ \A i \in DOMAIN n : i # p => n[i] = q[i]
      <3>1. q \in Seq(Request) /\ QueueInv(q, status') /\ BlockedRightly(q)
        BY <1>1, <2>2
      <3> HIDE DEF q, p, c
      <3>2. n = Converting(q, p, c)
        OBVIOUS
      <3> HIDE DEF n
      <3> QED
        BY <1>2, <1>3, <1>4, <1>6, <3>1, <3>2, ConvertingInv, SMTT(30)
    <2>4. Distinct(q)
      BY <1>1 DEF QueueInv
    <2> HIDE DEF n, p, c
    <2>5. \A i \in DOMAIN n : \/ n[i].tran = t /\ n[i].status # "GRANTED"
                              \/ n[i].tran # t /\ i \in DOMAIN q /\ n[i] = q[i]
      BY <1>2, <2>3, <2>4 DEF Distinct
    <2>6. /\ \A u \in Tran : InQueue(q, u) => InQueue(n, u)
          /\ InQueue(n, t)
      <3> HIDE DEF q
      <3> QED
        BY <1>2, <2>3 DEF InQueue
    <2>7. ConvertAhead(n, status')
      <3> SUFFICES ASSUME NEW i \in ActiveHolders(n, status'), NEW j \in ActiveHolders(n, status'),
                          i < j, n[i].status = "CONVERTING", n[j].status = "CONVERTING"
                   PROVE  lock_compat(n[i].convert_mode, n[j].mode)
        BY DEF ConvertAhead
      <3>1. CASE i # p /\ j # p
        <4>1. n[i] = q[i] /\ n[j] = q[j] /\ i \in ActiveHolders(q, status')
              /\ j \in ActiveHolders(q, status')
          BY <2>3, <3>1, SMTT(30) DEF ActiveHolders
        <4> QED
          BY <4>1, <2>2, SMTT(30) DEF QueueInv, ConvertAhead
      <3>2. CASE i = p \/ j = p
        <4>1. /\ i \in DOMAIN n /\ j \in DOMAIN n /\ Active(status', t)
              /\ n[i].tran = t \/ n[j].tran = t
          BY <3>2, <2>3 DEF ActiveHolders
        <4>2. \A k \in DOMAIN n : n[k].tran # t => k \in DOMAIN queue[r] /\ n[k] = queue[r][k]
          BY <2>5
        <4> HIDE DEF q
        <4> QED
          BY <4>1, <4>2, <2>1, <2>3, ConvertingPair, SMTT(30)
      <3> QED
        BY <3>1, <3>2
    <2>8. QueueInv(n, status')
      BY <2>3, <2>7 DEF QueueInv
    <2> QED
      BY <2>1, <2>3, <2>5, <2>6, <2>8, NotLockedStep
  <1> QED
    BY <1>5, <1>6
=============================================================================
