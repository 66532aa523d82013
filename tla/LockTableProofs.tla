-------------------------- MODULE LockTableProofs ---------------------------
(***************************************************************************)
(* Proofs that the lock table keeps the holders of a resource compatible,  *)
(* for any number of transactions and resources.                           *)
(***************************************************************************)
EXTENDS LockObtainProofs

\* l is what the request of t has left of the queue of r.
LeftOf(l, r, t) ==
    /\ l \in Seq(Request) /\ QueueInv(l, status)
    /\ \A i \in DOMAIN l : /\ l[i].tran \in Tran /\ l[i].tran # t
                           /\ l[i].status # "GRANTED" <=> wait[l[i].tran] = r
    /\ \A u \in Tran : u # t /\ InQueue(queue[r], u) => InQueue(l, u)

\* T, m and w are the queue, granted mode and waiting flag that unlock() makes of it.
UnlockedOf(l, T, m, w, r, t, st) ==
    /\ \A u \in Tran : u # t /\ InQueue(queue[r], u) => InQueue(T, u)
    /\ T \in Seq(Request) /\ QueueInv(T, st) /\ BlockedRightly(T)
    /\ m \in LockMode /\ w \in BOOLEAN
    /\ ~w => ModeExact(T, m)
    /\ w => \E i \in DOMAIN T : T[i].status # "GRANTED"
    /\ DOMAIN T = DOMAIN l
    /\ \A i \in DOMAIN l : /\ T[i].tran = l[i].tran
                           /\ Woken(l, i) => T[i].status = "GRANTED"
                           /\ ~Woken(l, i) => T[i] = l[i]

\* What a request leaves behind in its queue.
LEMMA LeftQueue ==
    ASSUME LockInv, NEW t \in Tran, NEW r \in Resource, InQueue(queue[r], t)
    PROVE  LeftOf(Left(queue[r], t), r, t)
  <1> DEFINE q == queue[r]
             p == Position(q, t)
             l == Left(q, t)
  <1>1. q \in Seq(Request) /\ QueueInv(q, status)
    BY DEF LockInv, TypeOK
  <1>2. \A i \in DOMAIN q : q[i].tran \in Tran /\ (q[i].status # "GRANTED" <=> wait[q[i].tran] = r)
    BY <1>1, RequestFields DEF LockInv, WaitPointer
  <1>3. QueueInv(l, status) /\ \A i \in DOMAIN l : l[i].tran # t
    BY <1>1, LeftKeepsInv, Zenon
  <1>4. /\ l \in Seq(Request) /\ Len(l) = Len(q) - 1 /\ p \in 1..Len(q)
        /\ \A i \in DOMAIN l : l[i] = q[IF i < p THEN i ELSE i + 1]
        /\ \A i \in DOMAIN q : q[i].tran = t <=> i = p
    BY <1>1, LeftProperties DEF QueueInv
  <1> HIDE DEF p, q, l
  <1>5. \A i \in DOMAIN l : \E k \in DOMAIN q : l[i] = q[k]
    BY <1>1, <1>4
  <1>6. \A k \in DOMAIN q : k # p => \E i \in DOMAIN l : l[i] = q[k]
    <2> SUFFICES ASSUME NEW k \in DOMAIN q, k # p PROVE \E i \in DOMAIN l : l[i] = q[k]
      OBVIOUS
    <2>1. CASE k < p
      BY <1>1, <1>4, <2>1
    <2>2. CASE k > p
      <3>1. k - 1 \in DOMAIN l /\ ~(k - 1 < p) /\ (k - 1) + 1 = k
        BY <1>1, <1>4, <2>2
      <3> QED
        BY <3>1, <1>4
    <2> QED
      BY <1>1, <1>4, <2>1, <2>2
  <1>7. \A i \in DOMAIN l : /\ l[i].tran \in Tran /\ l[i].tran # t
                            /\ l[i].status # "GRANTED" <=> wait[l[i].tran] = r
    BY <1>2, <1>3, <1>5
  <1>8. \A u \in Tran : u # t /\ InQueue(q, u) => InQueue(l, u)
    BY <1>4, <1>6 DEF InQueue
  <1> QED
    BY <1>3, <1>4, <1>7, <1>8 DEF LeftOf, q, l

\* What unlock() makes of the queue that t was in.
LEMMA UnlockedQueue ==
    ASSUME LockInv, NEW t \in Tran, NEW r \in Resource, InQueue(queue[r], t), NEW st,
           \A u \in Tran : u # t => (Active(st, u) <=> Active(status, u))
    PROVE  LET l == Left(queue[r], t) IN
           UnlockedOf(l, Traversed(l), TraversedMode(l), TraversedWaiting(l), r, t, st)
  <1> DEFINE l == Left(queue[r], t)
             T == Traversed(l)
  <1>0. LeftOf(l, r, t)
    BY LeftQueue
  <1>1. /\ l \in Seq(Request) /\ QueueInv(l, status)
        /\ \A i \in DOMAIN l : l[i].tran \in Tran /\ l[i].tran # t
        /\ \A u \in Tran : u # t /\ InQueue(queue[r], u) => InQueue(l, u)
    BY <1>0 DEF LeftOf
  <1> HIDE DEF l
  <1>2. QueueInv(l, st)
    BY <1>1, QueueInvOfStatus
  <1>3. /\ T \in Seq(Request) /\ DOMAIN T = DOMAIN l
        /\ \A i \in DOMAIN l : /\ T[i].tran = l[i].tran
                               /\ Woken(l, i) => T[i].status = "GRANTED"
                               /\ ~Woken(l, i) => T[i] = l[i]
    BY <1>1, <1>2, TraversedProperties DEF QueueInv
  <1>4. QueueInv(T, st) /\ BlockedRightly(T)
    BY <1>1, <1>2, TraversedKeepsInv, TraversedBlocksRightly
  <1>5. ~TraversedWaiting(l) => ModeExact(T, TraversedMode(l))
    BY <1>1, <1>2, TraversedModeExact DEF QueueInv
  <1>6. TraversedMode(l) \in LockMode
    <2> DEFINE A == {k \in DOMAIN l : Holds(Traversed(l)[k]) /\ ~FirstBlocked(l, k)}
    <2>1. \A i \in DOMAIN l : ModeAfter(l, i) \in LockMode
      BY <1>1, RequestFields DEF ModeAfter, LockMode
    <2>2. {ModeAfter(l, i) : i \in A} \in SUBSET LockMode
      BY <2>1
    <2> QED
      BY <2>2, MaxType DEF TraversedMode
  <1>7. TraversedWaiting(l) \in BOOLEAN
    BY DEF TraversedWaiting
  <1>8. ASSUME TraversedWaiting(l) PROVE \E i \in DOMAIN T : T[i].status # "GRANTED"
    <2>1. PICK i \in DOMAIN l : l[i].status # "GRANTED" /\ ~Woken(l, i)
      BY <1>8 DEF TraversedWaiting
    <2> QED
      BY <2>1, <1>3
  <1>9. \A u \in Tran : u # t /\ InQueue(queue[r], u) => InQueue(T, u)
    <2> SUFFICES ASSUME NEW u \in Tran, InQueue(l, u) PROVE InQueue(T, u)
      BY <1>1
    <2>1. PICK i \in DOMAIN l : l[i].tran = u
      BY DEF InQueue
    <2> QED
      BY <2>1, <1>3 DEF InQueue
  <1> QED
    BY <1>3, <1>4, <1>5, <1>6, <1>7, <1>8, <1>9 DEF UnlockedOf, l

\* A transaction that is woken was waiting in the queue it is woken in.
LEMMA WokenWaits ==
    ASSUME LockInv, NEW t \in Tran, NEW r \in Resource, InQueue(queue[r], t),
           NEW i \in DOMAIN Left(queue[r], t), Woken(Left(queue[r], t), i)
    PROVE  wait[Left(queue[r], t)[i].tran] = r
  <1> DEFINE l == Left(queue[r], t)
  <1>0. LeftOf(l, r, t)
    BY LeftQueue
  <1>1. \A k \in DOMAIN l : l[k].status # "GRANTED" <=> wait[l[k].tran] = r
    BY <1>0 DEF LeftOf
  <1>2. l[i].status # "GRANTED"
    BY DEF Woken, ConvertGranted, WaiterGranted
  <1> QED
    BY <1>1, <1>2

\* Message 4 keeps the invariant.
LEMMA ReleaseStep ==
    ASSUME LockInv, NEW t \in Tran, release_tr_locks(t), NEW c,
           client' = [client EXCEPT ![t] = c],
           \/ c = "running" /\ client[t] \in {"running", "ending"}
           \/ c = "stopped" /\ client[t] = "stopping"
    PROVE  LockInv'
  <1> DEFINE in(r) == InQueue(queue[r], t)
             l(r) == Left(queue[r], t)
             woken == WokenBy(t)
  <1>1. /\ queue \in [Resource -> Seq(Request)] /\ granted_mode \in [Resource -> LockMode]
        /\ waiting \in [Resource -> BOOLEAN] /\ wait \in [Tran -> Resource \cup {NoResource}]
        /\ status \in [Tran -> {"NORMAL_PROCESSING", "ROLLING_BACK_AFTER_DEADLOCK"}]
        /\ xsem \in [Tran -> Nat]
        /\ client \in [Tran -> {"running", "blocked", "ending", "stopping", "stopped"}]
    BY DEF LockInv, TypeOK
  <1>2. /\ queue' = [r \in Resource |-> IF in(r) THEN Traversed(l(r)) ELSE queue[r]]
        /\ granted_mode' = [r \in Resource |->
                               IF in(r) THEN TraversedMode(l(r)) ELSE granted_mode[r]]
        /\ waiting' = [r \in Resource |-> IF in(r) THEN TraversedWaiting(l(r)) ELSE waiting[r]]
        /\ wait' = [u \in Tran |-> IF u = t \/ u \in woken THEN NoResource ELSE wait[u]]
        /\ status' = [status EXCEPT ![t] = "NORMAL_PROCESSING"]
        /\ xsem' = [u \in Tran |-> IF u \in woken /\ status[u] # "ROLLING_BACK_AFTER_DEADLOCK"
                                   THEN xsem[u] + 1 ELSE xsem[u]]
    BY DEF release_tr_locks
  <1>3. \A u \in Tran : u # t => (Active(status', u) <=> Active(status, u))
    BY <1>1, <1>2 DEF Active
  <1>4. ASSUME NEW r \in Resource, in(r)
        PROVE  /\ \A u \in Tran : u # t /\ InQueue(queue[r], u) => InQueue(queue'[r], u)
               /\ queue'[r] \in Seq(Request)
               /\ QueueInv(queue'[r], status') /\ BlockedRightly(queue'[r])
               /\ granted_mode'[r] \in LockMode /\ waiting'[r] \in BOOLEAN
               /\ ~waiting'[r] => ModeExact(queue'[r], granted_mode'[r])
               /\ waiting'[r] => \E i \in DOMAIN queue'[r] : queue'[r][i].status # "GRANTED"
               /\ DOMAIN queue'[r] = DOMAIN l(r)
               /\ \A i \in DOMAIN l(r) : /\ queue'[r][i].tran = l(r)[i].tran
                                         /\ Woken(l(r), i) => queue'[r][i].status = "GRANTED"
                                         /\ ~Woken(l(r), i) => queue'[r][i] = l(r)[i]
    <2>1. /\ queue'[r] = Traversed(l(r)) /\ granted_mode'[r] = TraversedMode(l(r))
          /\ waiting'[r] = TraversedWaiting(l(r))
      BY <1>2, <1>4
    <2>2. UnlockedOf(l(r), queue'[r], granted_mode'[r], waiting'[r], r, t, status')
      BY <1>3, <1>4, <2>1, UnlockedQueue
    <2> QED
      BY <2>2 DEF UnlockedOf
  <1>5. ASSUME NEW r \in Resource, ~in(r)
        PROVE  /\ queue'[r] = queue[r] /\ granted_mode'[r] = granted_mode[r]
               /\ waiting'[r] = waiting[r]
               /\ queue[r] \in Seq(Request)
               /\ \A i \in DOMAIN queue[r] : queue[r][i].tran \in Tran \ {t}
               /\ QueueInv(queue'[r], status') /\ BlockedRightly(queue'[r])
    <2>1. /\ queue'[r] = queue[r] /\ granted_mode'[r] = granted_mode[r]
          /\ waiting'[r] = waiting[r] /\ queue[r] \in Seq(Request)
      BY <1>1, <1>2, <1>5
    <2>2. \A i \in DOMAIN queue[r] : queue[r][i].tran \in Tran \ {t}
      BY <1>5, <2>1, RequestFields DEF InQueue
    <2>3. QueueInv(queue[r], status) /\ BlockedRightly(queue[r])
      BY DEF LockInv, NoMissedGrant
    <2>4. QueueInv(queue[r], status')
      BY <1>3, <2>2, <2>3, QueueInvOfStatus
    <2> QED
      BY <2>1, <2>2, <2>3, <2>4
  <1>6. \A u \in woken : u \in Tran \ {t} /\ wait[u] \in Resource /\ in(wait[u])
    <2> SUFFICES ASSUME NEW u \in woken
                 PROVE  u \in Tran \ {t} /\ wait[u] \in Resource /\ in(wait[u])
      OBVIOUS
    <2>1. PICK r \in Resource : in(r) /\ \E i \in DOMAIN l(r) : l(r)[i].tran = u /\ Woken(l(r), i)
      BY DEF WokenBy
    <2>2. wait[u] = r
      BY <2>1, WokenWaits
    <2> QED
      BY <2>1, <2>2 DEF WokenBy
  <1>7. \A r \in Resource : in(r) => \A i \in DOMAIN l(r) :
           /\ l(r)[i].tran \in Tran \ {t}
           /\ l(r)[i].status # "GRANTED" <=> wait[l(r)[i].tran] = r
           /\ Woken(l(r), i) => l(r)[i].tran \in woken
           /\ l(r)[i].tran \in woken /\ wait[l(r)[i].tran] = r => Woken(l(r), i)
    <2> SUFFICES ASSUME NEW r \in Resource, in(r), NEW i \in DOMAIN l(r)
                 PROVE  /\ l(r)[i].tran \in Tran \ {t}
                        /\ l(r)[i].status # "GRANTED" <=> wait[l(r)[i].tran] = r
                        /\ Woken(l(r), i) => l(r)[i].tran \in woken
                        /\ l(r)[i].tran \in woken /\ wait[l(r)[i].tran] = r => Woken(l(r), i)
      OBVIOUS
    <2>0. LeftOf(l(r), r, t)
      BY LeftQueue
    <2>1. /\ l(r)[i].tran \in Tran \ {t}
          /\ l(r)[i].status # "GRANTED" <=> wait[l(r)[i].tran] = r
          /\ QueueInv(l(r), status)
      BY <2>0 DEF LeftOf
    <2>2. Woken(l(r), i) => l(r)[i].tran \in woken
      BY <2>1 DEF WokenBy
    <2>3. ASSUME l(r)[i].tran \in woken, wait[l(r)[i].tran] = r
          PROVE  Woken(l(r), i)
      <3>1. PICK s \in Resource : in(s) /\ \E k \in DOMAIN l(s) :
                                    l(s)[k].tran = l(r)[i].tran /\ Woken(l(s), k)
        BY <2>3 DEF WokenBy
      <3>2. s = r
        BY <3>1, <2>3, WokenWaits
      <3> QED
        BY <3>1, <3>2, <2>1 DEF QueueInv, Distinct
    <2> QED
      BY <2>1, <2>2, <2>3
  <1> HIDE DEF in, l, woken
  <1>8. TypeOK'
    <2>1. queue' \in [Resource -> Seq(Request)]
      BY <1>2, <1>4, <1>5
    <2>2. granted_mode' \in [Resource -> LockMode] /\ waiting' \in [Resource -> BOOLEAN]
      BY <1>1, <1>2, <1>4, <1>5
    <2>3. /\ wait' \in [Tran -> Resource \cup {NoResource}]
          /\ status' \in [Tran -> {"NORMAL_PROCESSING", "ROLLING_BACK_AFTER_DEADLOCK"}]
          /\ xsem' \in [Tran -> Nat]
          /\ client' \in [Tran -> {"running", "blocked", "ending", "stopping", "stopped"}]
      BY <1>1, <1>2
    <2> QED
      BY <2>1, <2>2, <2>3 DEF TypeOK
  <1>9. \A r \in Resource : QueueInv(queue'[r], status') /\ BlockedRightly(queue'[r])
    BY <1>4, <1>5
  <1>10. GrantedModeExact'
    BY <1>4, <1>5 DEF LockInv, GrantedModeExact
  <1>11. WaitingFlag'
    BY <1>4, <1>5 DEF LockInv, WaitingFlag
  <1>12. ASSUME NEW r \in Resource, NEW i \in DOMAIN queue'[r]
         PROVE  queue'[r][i].status # "GRANTED" <=> wait'[queue'[r][i].tran] = r
    <2> DEFINE u == queue'[r][i].tran
    <2>0. /\ r # NoResource
          /\ \A v \in Tran \ {t} : wait'[v] = IF v \in woken THEN NoResource ELSE wait[v]
      BY <1>2, ResourceAssumption
    <2>1. CASE in(r)
      <3>1. i \in DOMAIN l(r) /\ u = l(r)[i].tran /\ u \in Tran \ {t}
        BY <1>4, <1>7, <2>1, SMTT(30)
      <3>2. CASE Woken(l(r), i)
        BY <1>4, <1>7, <2>0, <2>1, <3>1, <3>2
      <3>3. CASE ~Woken(l(r), i)
        <4>1. queue'[r][i] = l(r)[i] /\ (l(r)[i].status # "GRANTED" <=> wait[u] = r)
          BY <1>4, <1>7, <2>1, <3>1, <3>3
        <4>2. ~(u \in woken /\ wait[u] = r)
          BY <1>7, <2>1, <3>1, <3>3
        <4> QED
          BY <2>0, <3>1, <4>1, <4>2
      <3> QED
        BY <3>2, <3>3
    <2>2. CASE ~in(r)
      <3>1. queue'[r] = queue[r] /\ u \in Tran \ {t} /\ i \in DOMAIN queue[r]
        BY <1>5, <2>2
      <3>2. queue[r][i].status # "GRANTED" <=> wait[u] = r
        BY <3>1 DEF LockInv, WaitPointer
      <3>3. ~(u \in woken /\ wait[u] = r)
        BY <1>6, <2>2
      <3> QED
        BY <2>0, <3>1, <3>2, <3>3
    <2> QED
      BY <2>1, <2>2
  <1>13. ASSUME NEW u \in Tran, wait'[u] # NoResource
         PROVE  InQueue(queue'[wait'[u]], u)
    <2>1. u # t /\ wait'[u] = wait[u] /\ wait[u] \in Resource
      BY <1>1, <1>2, <1>13
    <2>2. InQueue(queue[wait[u]], u)
      BY <1>13, <2>1 DEF LockInv, WaitPointer
    <2> QED
      BY <1>4, <1>5, <2>1, <2>2
  <1>14. WaitPointer'
    BY <1>12, <1>13 DEF WaitPointer
  <1>15. /\ client'[t] = c /\ wait'[t] = NoResource /\ Active(status', t)
         /\ t \notin woken /\ xsem'[t] = xsem[t]
         /\ \A u \in Tran : u # t => client'[u] = client[u] /\ status'[u] = status[u]
    BY <1>1, <1>2, <1>6 DEF Active
  <1>16. ClientState'
    <2> SUFFICES ASSUME NEW u \in Tran
                 PROVE  /\ client'[u] \in {"running", "stopped"} => wait'[u] = NoResource
                        /\ Active(status', u) <=> client'[u] # "ending"
      BY DEF ClientState
    <2>1. CASE u = t
      BY <2>1, <1>15
    <2>2. CASE u # t
      BY <2>2, <1>2, <1>15, SMTT(30) DEF LockInv, ClientState, Active
    <2> QED
      BY <2>1, <2>2
  <1>17. WokenIffGranted'
    <2> SUFFICES ASSUME NEW u \in Tran
                 PROVE  /\ client'[u] = "blocked" =>
                              xsem'[u] = IF wait'[u] = NoResource THEN 1 ELSE 0
                        /\ client'[u] \in {"running", "ending"} => xsem'[u] = 0
      BY DEF WokenIffGranted
    <2>0. /\ client[u] = "blocked" => xsem[u] = IF wait[u] = NoResource THEN 1 ELSE 0
          /\ client[u] \in {"running", "ending"} => xsem[u] = 0
          /\ client[u] \in {"running", "stopped"} => wait[u] = NoResource
          /\ Active(status, u) <=> client[u] # "ending"
      BY DEF LockInv, WokenIffGranted, ClientState
    <2>1. CASE u = t
      BY <2>0, <2>1, <1>15
    <2>2. CASE u # t /\ u \notin woken
      BY <2>0, <2>2, <1>2, <1>15
    <2>3. CASE u # t /\ u \in woken
      <3>1. wait[u] # NoResource
        BY <2>3, <1>6, ResourceAssumption
      <3>2. wait'[u] = NoResource /\ client'[u] = client[u]
        BY <2>3, <1>2, <1>15
      <3>3. CASE client[u] = "ending"
        BY <2>0, <2>3, <3>2, <3>3, <1>2, SMTT(30) DEF Active
      <3>4. CASE client[u] # "ending"
        <4>1. xsem'[u] = xsem[u] + 1
          BY <2>0, <2>3, <3>4, <1>2 DEF Active
        <4> QED
          BY <2>0, <3>1, <3>2, <3>4, <4>1
      <3> QED
        BY <3>3, <3>4
    <2> QED
      BY <2>1, <2>2, <2>3
  <1> QED
    BY <1>8, <1>9, <1>10, <1>11, <1>14, <1>16, <1>17 DEF LockInv, NoMissedGrant

\* The steps that touch only the semaphore and the state of one transaction process.
LEMMA ClientStep ==
    ASSUME LockInv, NEW t \in Tran, Unblocked(t) \/ Stopped(t) \/ NewSession(t)
    PROVE  LockInv'
  <1>0. UNCHANGED <<queue, granted_mode, waiting, wait, status>>
    BY DEF Unblocked, Stopped, NewSession
  <1>1. /\ xsem \in [Tran -> Nat]
        /\ client \in [Tran -> {"running", "blocked", "ending", "stopping", "stopped"}]
    BY DEF LockInv, TypeOK
  <1>2. /\ xsem' \in [Tran -> Nat]
        /\ client' \in [Tran -> {"running", "blocked", "ending", "stopping", "stopped"}]
        /\ \A u \in Tran : u # t => client'[u] = client[u] /\ xsem'[u] = xsem[u]
    BY <1>1 DEF Unblocked, Stopped, NewSession
  <1>3. TypeOK'
    BY <1>0, <1>2 DEF LockInv, TypeOK
  <1>4. /\ (\A r \in Resource : QueueInv(queue[r], status))'
        /\ NoMissedGrant' /\ GrantedModeExact' /\ WaitPointer' /\ WaitingFlag'
    BY <1>0 DEF LockInv, NoMissedGrant, GrantedModeExact, WaitPointer, WaitingFlag
  <1>5. /\ client[t] = "blocked" => xsem[t] = IF wait[t] = NoResource THEN 1 ELSE 0
        /\ client[t] \in {"running", "stopped"} => wait[t] = NoResource
        /\ Active(status, t) <=> client[t] # "ending"
    BY DEF LockInv, WokenIffGranted, ClientState
  <1>6. /\ client'[t] \in {"running", "stopped"} => wait[t] = NoResource
        /\ client'[t] # "blocked" /\ client'[t] # "ending" /\ client[t] # "ending"
        /\ client'[t] = "running" => xsem'[t] = 0
    <2>1. CASE Unblocked(t)
      BY <2>1, <1>1, <1>5 DEF Unblocked
    <2>2. CASE Stopped(t)
      BY <2>2, <1>1, <1>5 DEF Stopped
    <2>3. CASE NewSession(t)
      BY <2>3, <1>1, <1>5 DEF NewSession
    <2> QED
      BY <2>1, <2>2, <2>3
  <1>7. ClientState'
    BY <1>0, <1>2, <1>5, <1>6 DEF LockInv, ClientState
  <1>8. WokenIffGranted'
    BY <1>0, <1>2, <1>6 DEF LockInv, WokenIffGranted
  <1> QED
    BY <1>3, <1>4, <1>7, <1>8 DEF LockInv

\* Empty queues satisfy everything.
LEMMA InitInv == Init => LockInv
  <1> SUFFICES ASSUME Init PROVE LockInv
    OBVIOUS
  <1>1. \A r \in Resource : queue[r] = <<>> /\ DOMAIN queue[r] = {}
    BY DEF Init
  <1>2. TypeOK
    BY SMTT(30) DEF Init, TypeOK, LockMode
  <1>3. \A r \in Resource : QueueInv(queue[r], status) /\ BlockedRightly(queue[r])
    BY <1>1 DEF QueueInv, BlockedRightly, Distinct, HoldersFirst, WantsMore, ConvertAhead,
                CompatibleIn, ActiveHolders
  <1>4. GrantedModeExact
    <2>1. LockMaxOf({}) = "NULL"
      BY DEF LockMaxOf
    <2>2. \A r \in Resource : {queue[r][i].mode : i \in DOMAIN queue[r]} = {}
      BY <1>1
    <2> QED
      BY <2>1, <2>2, <1>1, Zenon DEF Init, GrantedModeExact, ModeExact
  <1>5. WaitPointer /\ WaitingFlag
    BY <1>1, ResourceAssumption DEF Init, WaitPointer, WaitingFlag
  <1>6. ClientState /\ WokenIffGranted
    BY DEF Init, ClientState, WokenIffGranted, Active
  <1> QED
    BY <1>2, <1>3, <1>4, <1>5, <1>6 DEF LockInv, NoMissedGrant

\* Every step keeps the invariant.
LEMMA NextInv == LockInv /\ [Next]_vars => LockInv'
  <1> SUFFICES ASSUME LockInv, [Next]_vars PROVE LockInv'
    BY SMTT(30)
  <1>1. CASE UNCHANGED vars
    BY <1>1 DEF vars, LockInv, TypeOK, NoMissedGrant, GrantedModeExact, WaitPointer,
                WaitingFlag, ClientState, WokenIffGranted
  <1>2. ASSUME NEW t \in Tran, NEW r \in Resource, NEW m \in Requested, Obtain(t, r, m)
        PROVE  LockInv'
    BY <1>2, LockNewStep, LockConvertStep DEF Obtain
  <1>3. ASSUME NEW t \in Tran, Unblocked(t) \/ Stopped(t) \/ NewSession(t)
        PROVE  LockInv'
    BY <1>3, ClientStep
  <1>4. ASSUME NEW t \in Tran, Release(t)
        PROVE  LockInv'
    BY <1>4, ReleaseStep, Zenon DEF Release
  <1>5. ASSUME NEW t \in Tran, ReleaseStopped(t)
        PROVE  LockInv'
    BY <1>5, ReleaseStep, Zenon DEF ReleaseStopped
  <1> QED
    BY <1>1, <1>2, <1>3, <1>4, <1>5 DEF Next

-----------------------------------------------------------------------------
(* The theorems *)

\* The inductive invariant of the lock table holds in every reachable state.
THEOREM LockInvariant == Spec => []LockInv
  BY InitInv, NextInv, PTL DEF Spec

\* The lock heads, requests and transaction control blocks keep their types.
THEOREM TypeCorrect == Spec => []TypeOK
  <1>1. LockInv => TypeOK
    BY DEF LockInv
  <1> QED
    BY <1>1, LockInvariant, PTL

\* lock() and unlock() never let two transactions that are not being rolled back as
\* deadlock victims hold incompatible modes of one resource.
THEOREM MutualExclusion == Spec => []HoldersCompatible
  <1>1. LockInv => HoldersCompatible
    BY DEF LockInv, QueueInv, HoldersCompatible
  <1> QED
    BY <1>1, LockInvariant, PTL

\* The granted mode lock() compares a new request with is the maximum of what is held.
THEOREM GrantedModeIsMaximum == Spec => []GrantedModeExact
  <1>1. LockInv => GrantedModeExact
    BY DEF LockInv
  <1> QED
    BY <1>1, LockInvariant, PTL

\* unlock() grants the first request that does not have to wait any longer.
THEOREM GrantsAreNotMissed == Spec => []NoMissedGrant
  <1>1. LockInv => NoMissedGrant
    BY DEF LockInv
  <1> QED
    BY <1>1, LockInvariant, PTL

\* The session semaphore counts the grant a blocked transaction has not seen yet.
THEOREM WakeUpsMatchGrants == Spec => []WokenIffGranted
  <1>1. LockInv => WokenIffGranted
    BY DEF LockInv
  <1> QED
    BY <1>1, LockInvariant, PTL
=============================================================================
