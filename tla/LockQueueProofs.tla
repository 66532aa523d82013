-------------------------- MODULE LockQueueProofs ---------------------------
(*****************************************************************************)
(* Lemmas about the lock modes and about the queue of one resource: what the *)
(* traversal of unlock() grants, what lock() makes of a queue (a request or  *)
(* a conversion, granted or waiting), and that the queue keeps its invariant. *)
(*****************************************************************************)
EXTENDS LockTable, SequenceTheorems, TLAPS

-----------------------------------------------------------------------------
(* Lock modes *)

\* The compatibility matrix of lock_compat is symmetric.
LEMMA CompatSymmetric ==
    ASSUME NEW m1, NEW m2, lock_compat(m1, m2)
    PROVE  lock_compat(m2, m1)
  BY DEF lock_compat, Compatible

\* A mode fits the maximum of some modes iff it fits each of them, which is why lock()
\* and unlock() may compare a request with the accumulated granted mode only.
LEMMA CompatWithMax ==
    ASSUME NEW m \in LockMode, NEW S \in SUBSET LockMode
    PROVE  lock_compat(m, LockMaxOf(S)) <=> \A x \in S : lock_compat(m, x)
  BY DEF lock_compat, LockMaxOf, Compatible, LockMode, HeldMode, Requested

\* lock_max stays within the modes.
LEMMA MaxType ==
    /\ \A S \in SUBSET LockMode : LockMaxOf(S) \in LockMode
    /\ \A m1 \in HeldMode, m2 \in LockMode : lock_max(m1, m2) \in HeldMode
  BY DEF lock_max, LockMaxOf, LockMode, HeldMode, Requested

\* A mode that covers another conflicts with whatever the other conflicts with.
LEMMA CoverConflicts ==
    ASSUME NEW m \in LockMode, NEW m1 \in LockMode, NEW m2 \in LockMode,
           lock_compat(m, lock_max(m1, m2))
    PROVE  lock_compat(m, m1) /\ lock_compat(m, m2)
  BY CompatWithMax DEF lock_max

\* lock_max is idempotent on what it has covered.
LEMMA MaxCovers ==
    \A m1, m2 \in LockMode : lock_max(m1, lock_max(m1, m2)) = lock_max(m1, m2)
  BY DEF lock_max, LockMaxOf, LockMode, HeldMode, Requested
-----------------------------------------------------------------------------
(* Queues *)

\* What removing position p does to a sequence.
LEMMA WithoutProperties ==
    ASSUME NEW R, NEW q \in Seq(R), NEW p \in 1..Len(q)
    PROVE  /\ Without(q, p) \in Seq(R)
           /\ Len(Without(q, p)) = Len(q) - 1
           /\ \A i \in 1..(Len(q) - 1) :
                 Without(q, p)[i] = q[IF i < p THEN i ELSE i + 1]
  <1> DEFINE a == SubSeq(q, 1, p - 1)
             b == SubSeq(q, p + 1, Len(q))
  <1>1. /\ a \in Seq(R) /\ Len(a) = p - 1
        /\ \A i \in 1..(p - 1) : a[i] = q[i]
    OBVIOUS
  <1>2. /\ b \in Seq(R) /\ Len(b) = Len(q) - p
        /\ \A i \in 1..(Len(q) - p) : b[i] = q[p + i]
    OBVIOUS
  <1>3. Without(q, p) = a \o b
    BY DEF Without
  <1> HIDE DEF a, b
  <1>c. /\ a \o b \in Seq(R) /\ Len(a \o b) = Len(a) + Len(b)
        /\ \A i \in 1..(Len(a) + Len(b)) :
              (a \o b)[i] = IF i <= Len(a) THEN a[i] ELSE b[i - Len(a)]
    BY <1>1, <1>2, ConcatProperties, Zenon
  <1>4. /\ a \o b \in Seq(R) /\ Len(a \o b) = Len(q) - 1
        /\ \A i \in 1..(p - 1) : (a \o b)[i] = a[i]
        /\ \A i \in p..(Len(q) - 1) : (a \o b)[i] = b[i - (p - 1)]
    BY <1>1, <1>2, <1>c, SMTT(30)
  <1>5. \A i \in p..(Len(q) - 1) : b[i - (p - 1)] = q[i + 1]
    BY <1>2
  <1>6. ASSUME NEW i \in 1..(Len(q) - 1)
        PROVE  (a \o b)[i] = q[IF i < p THEN i ELSE i + 1]
    <2>1. CASE i < p
      BY <2>1, <1>1, <1>4
    <2>2. CASE ~(i < p)
      BY <2>2, <1>4, <1>5
    <2> QED
      BY <2>1, <2>2, Zenon
  <1> QED
    BY <1>3, <1>4, <1>6

\* Position finds a request of the transaction.
LEMMA PositionProperties ==
    ASSUME NEW q, NEW t, InQueue(q, t)
    PROVE  Position(q, t) \in DOMAIN q /\ q[Position(q, t)].tran = t
  BY DEF InQueue, Position

\* What a request leaves behind is the rest of the queue in the same order.
LEMMA LeftProperties ==
    ASSUME NEW q \in Seq(Request), NEW t, InQueue(q, t), Distinct(q)
    PROVE  /\ Left(q, t) \in Seq(Request)
           /\ Len(Left(q, t)) = Len(q) - 1
           /\ Position(q, t) \in 1..Len(q)
           /\ \A i \in DOMAIN Left(q, t) :
                 Left(q, t)[i] = q[IF i < Position(q, t) THEN i ELSE i + 1]
           /\ \A i \in DOMAIN q : q[i].tran = t <=> i = Position(q, t)
  <1> DEFINE p == Position(q, t)
  <1>1. p \in DOMAIN q /\ q[p].tran = t
    BY PositionProperties
  <1>2. p \in 1..Len(q)
    BY <1>1
  <1>3. \A i \in DOMAIN q : q[i].tran = t <=> i = p
    BY <1>1 DEF Distinct
  <1>4. Left(q, t) = Without(q, p)
    BY DEF Left
  <1> HIDE DEF p
  <1>5. /\ Without(q, p) \in Seq(Request)
        /\ Len(Without(q, p)) = Len(q) - 1
        /\ \A i \in 1..(Len(q) - 1) :
              Without(q, p)[i] = q[IF i < p THEN i ELSE i + 1]
    BY <1>2, WithoutProperties
  <1>6. DOMAIN Without(q, p) = 1..(Len(q) - 1)
    BY <1>5
  <1> QED
    BY <1>2, <1>3, <1>4, <1>5, <1>6 DEF p

\* The same queue under another status function that agrees on its transactions.
LEMMA QueueInvOfStatus ==
    ASSUME NEW q, NEW st, NEW st2, QueueInv(q, st),
           \A i \in DOMAIN q : Active(st2, q[i].tran) => Active(st, q[i].tran)
    PROVE  QueueInv(q, st2)
  <1>1. ActiveHolders(q, st2) \subseteq ActiveHolders(q, st)
    BY DEF ActiveHolders
  <1> QED
    BY <1>1 DEF QueueInv, ConvertAhead, CompatibleIn

\* A request that leaves the queue disturbs nothing of what is said of the others.
LEMMA LeftKeepsInv ==
    ASSUME NEW q \in Seq(Request), NEW st, NEW t, InQueue(q, t), QueueInv(q, st)
    PROVE  /\ QueueInv(Left(q, t), st)
           /\ \A i \in DOMAIN Left(q, t) : Left(q, t)[i].tran # t
  <1> DEFINE p == Position(q, t)
             l == Left(q, t)
             f(i) == IF i < p THEN i ELSE i + 1
  <1>1. /\ l \in Seq(Request) /\ Len(l) = Len(q) - 1 /\ p \in 1..Len(q)
        /\ \A i \in DOMAIN l : l[i] = q[f(i)]
        /\ \A i \in DOMAIN q : q[i].tran = t <=> i = p
    BY LeftProperties DEF QueueInv
  <1>2. \A i \in DOMAIN l : f(i) \in DOMAIN q /\ f(i) # p
    BY <1>1
  <1>3. \A i, j \in DOMAIN l : (i # j => f(i) # f(j)) /\ (i < j => f(i) < f(j))
    BY <1>1
  <1>4. \A i \in ActiveHolders(l, st) : f(i) \in ActiveHolders(q, st) /\ i \in DOMAIN l
    BY <1>1, <1>2 DEF ActiveHolders
  <1> HIDE DEF l, p, f
  <1>5. Distinct(l)
    BY <1>1, <1>2, <1>3 DEF QueueInv, Distinct
  <1>6. HoldersFirst(l)
    BY <1>1, <1>2, <1>3 DEF QueueInv, HoldersFirst
  <1>7. WantsMore(l)
    BY <1>1, <1>2 DEF QueueInv, WantsMore
  <1>8. ConvertAhead(l, st)
    BY <1>1, <1>3, <1>4 DEF QueueInv, ConvertAhead
  <1>9. CompatibleIn(l, ActiveHolders(l, st))
    BY <1>1, <1>3, <1>4 DEF QueueInv, CompatibleIn
  <1>10. \A i \in DOMAIN l : l[i].tran # t
    BY <1>1, <1>2, SMTT(30)
  <1> QED
    BY <1>5, <1>6, <1>7, <1>8, <1>9, <1>10 DEF QueueInv, l

-----------------------------------------------------------------------------
(* The traversal *)

\* What unlock() does to the i-th request it comes across.
LEMMA TraversedProperties ==
    ASSUME NEW q \in Seq(Request), WantsMore(q)
    PROVE  /\ Traversed(q) \in Seq(Request)
           /\ DOMAIN Traversed(q) = DOMAIN q
           /\ \A i \in DOMAIN q :
                 /\ Traversed(q)[i].tran = q[i].tran
                 /\ Woken(q, i) => /\ Traversed(q)[i].status = "GRANTED"
                                   /\ Traversed(q)[i].mode = ModeAfter(q, i)
                 /\ ~Woken(q, i) => Traversed(q)[i] = q[i]
  <1> DEFINE T == Traversed(q)
  <1>1. \A i \in DOMAIN q : q[i] \in Request
    OBVIOUS
  <1>2. \A i \in DOMAIN q : ModeAfter(q, i) \in HeldMode
    BY <1>1 DEF ModeAfter, ConvertGranted, WantsMore, Request
  <1>3. \A i \in DOMAIN q :
            T[i] = IF Woken(q, i)
                   THEN [q[i] EXCEPT !.status = "GRANTED",
                                     !.mode = ModeAfter(q, i), !.convert_mode = "NULL"]
                   ELSE q[i]
    BY SMTT(30) DEF Traversed
  <1>4. \A i \in DOMAIN q : T[i] \in Request
    BY <1>1, <1>2, <1>3, ZenonT(40) DEF Request, LockStatus, LockMode
  <1>5. DOMAIN T = DOMAIN q /\ T = [i \in DOMAIN q |-> T[i]]
    BY DEF Traversed
  <1>6. T \in [1..Len(q) -> Request] /\ Len(q) \in Nat
    BY <1>4, <1>5
  <1>7. T \in Seq(Request)
    BY <1>6, SeqDef
  <1> QED
    BY <1>1, <1>3, <1>5, <1>7, Zenon DEF Request

\* A request that unlock() grants fits whatever another active transaction holds after
\* the traversal.
LEMMA WokenFits ==
    ASSUME NEW q \in Seq(Request), NEW st, QueueInv(q, st),
           NEW i \in DOMAIN q, NEW j \in DOMAIN q, i # j,
           Woken(q, i), Woken(q, j) \/ Holds(q[j]),
           Active(st, q[i].tran), Active(st, q[j].tran)
    PROVE  lock_compat(ModeAfter(q, i), ModeAfter(q, j))
  <1>b. q[i] \in Request /\ q[j] \in Request
    OBVIOUS
  <1>0. q[i].status \in LockStatus /\ q[j].status \in LockStatus
    BY <1>b DEF Request
  <1>a. i \in Nat /\ j \in Nat /\ i >= 1 /\ j >= 1
    OBVIOUS
  <1>1. CASE ConvertGranted(q, i)
    <2>1. ConvertCompatible(q, i) /\ ModeAfter(q, i) = q[i].convert_mode
      BY <1>1, <1>a DEF ConvertGranted, ModeAfter
    <2>2. CASE q[j].status = "GRANTED"
      BY <2>1, <2>2, CompatSymmetric DEF ConvertCompatible, ModeAfter, ConvertGranted
    <2>3. CASE q[j].status = "CONVERTING" /\ ConvertGranted(q, j)
      <3>1. ConvertCompatible(q, j) /\ ModeAfter(q, j) = q[j].convert_mode
        BY <2>3, <1>a DEF ConvertGranted, ModeAfter
      <3>2. CASE j < i
        BY <2>1, <2>3, <3>1, <3>2 DEF ConvertCompatible
      <3>3. CASE i < j
        <4>1. q[i].status = "CONVERTING"
          BY <1>1 DEF ConvertGranted
        <4>2. lock_compat(q[j].convert_mode, q[i].convert_mode)
          BY <3>1, <3>3, <4>1 DEF ConvertCompatible
        <4> QED
          BY <2>1, <3>1, <4>2, CompatSymmetric
      <3> QED
        BY <3>2, <3>3, <1>a
    <2>4. CASE q[j].status = "CONVERTING" /\ ~ConvertGranted(q, j)
      <3>1. i < j
        BY <1>1, <2>4, <1>a DEF ConvertGranted
      <3>2. i \in ActiveHolders(q, st) /\ j \in ActiveHolders(q, st)
        BY <1>1, <2>4 DEF ActiveHolders, Holds, ConvertGranted
      <3>3. lock_compat(q[i].convert_mode, q[j].mode)
        BY <3>1, <3>2, <1>1, <2>4 DEF QueueInv, ConvertAhead, ConvertGranted
      <3> QED
        BY <2>1, <2>4, <3>3 DEF ModeAfter
    <2>5. CASE q[j].status = "WAITING"
      <3>1. WaiterGranted(q, j) /\ ModeAfter(q, j) = q[j].mode
        BY <2>5 DEF Woken, Holds, ConvertGranted, ModeAfter
      <3>2. i < j
        BY <1>1, <2>5, <1>a DEF QueueInv, HoldersFirst, Holds, ConvertGranted
      <3>3. lock_compat(q[j].mode, ModeAfter(q, i))
        BY <3>1, <3>2, <2>5, <1>a DEF WaiterGranted
      <3> QED
        BY <3>1, <3>3, CompatSymmetric
    <2> QED
      BY <1>0, <2>2, <2>3, <2>4, <2>5 DEF LockStatus
  <1>2. CASE WaiterGranted(q, i)
    <2>1. q[i].status = "WAITING" /\ ModeAfter(q, i) = q[i].mode
      BY <1>2 DEF WaiterGranted, ModeAfter, ConvertGranted
    <2>2. CASE j < i
      BY <1>2, <2>1, <2>2, <1>a DEF WaiterGranted
    <2>3. CASE i < j
      <3>1. ~Holds(q[j])
        BY <2>1, <2>3 DEF QueueInv, HoldersFirst, Holds
      <3>2. WaiterGranted(q, j) /\ ModeAfter(q, j) = q[j].mode
        BY <3>1 DEF Woken, Holds, ConvertGranted, ModeAfter
      <3>3. lock_compat(q[j].mode, ModeAfter(q, i))
        BY <3>2, <2>3, <1>a DEF WaiterGranted
      <3> QED
        BY <3>2, <3>3, CompatSymmetric
    <2> QED
      BY <2>2, <2>3, <1>a
  <1> QED
    BY <1>1, <1>2 DEF Woken

\* The fields of the requests of a queue.
LEMMA RequestFields ==
    ASSUME NEW q \in Seq(Request)
    PROVE  \A i \in DOMAIN q : /\ i \in Nat \ {0} /\ q[i] \in Request
                               /\ q[i].tran \in Tran /\ q[i].mode \in HeldMode
                               /\ q[i].status \in LockStatus /\ q[i].convert_mode \in LockMode
  <1> SUFFICES ASSUME NEW i \in DOMAIN q
               PROVE  /\ i \in Nat \ {0} /\ q[i] \in Request
                      /\ q[i].tran \in Tran /\ q[i].mode \in HeldMode
                      /\ q[i].status \in LockStatus /\ q[i].convert_mode \in LockMode
    OBVIOUS
  <1>1. i \in Nat \ {0} /\ q[i] \in Request
    OBVIOUS
  <1> QED
    BY <1>1 DEF Request

\* The traversal keeps everything QueueInv says.
LEMMA TraversedKeepsInv ==
    ASSUME NEW q \in Seq(Request), NEW st, QueueInv(q, st)
    PROVE  QueueInv(Traversed(q), st)
  <1> DEFINE T == Traversed(q)
  <1>0. \A i \in DOMAIN q : q[i].status \in LockStatus
    BY RequestFields
  <1>1. /\ T \in Seq(Request) /\ DOMAIN T = DOMAIN q
        /\ \A i \in DOMAIN q :
              /\ T[i].tran = q[i].tran
              /\ Woken(q, i) => T[i].status = "GRANTED" /\ T[i].mode = ModeAfter(q, i)
              /\ ~Woken(q, i) => T[i] = q[i]
    BY TraversedProperties DEF QueueInv
  <1> HIDE DEF T
  <1>2. Distinct(T)
    BY <1>1 DEF QueueInv, Distinct
  <1>3. HoldersFirst(T)
    <2> SUFFICES ASSUME NEW i \in DOMAIN q, NEW j \in DOMAIN q, i < j, Holds(T[j])
                 PROVE  Holds(T[i])
      BY <1>1 DEF HoldersFirst
    <2>1. CASE Holds(q[i])
      BY <1>1, <2>1 DEF Holds
    <2>2. CASE ~Holds(q[i])
      <3>1. q[i].status = "WAITING" /\ ~Holds(q[j])
        BY <2>2, <1>0 DEF Holds, LockStatus, QueueInv, HoldersFirst
      <3>2. WaiterGranted(q, j)
        BY <3>1, <1>1 DEF Woken, ConvertGranted, Holds
      <3>3. WaiterGranted(q, i)
        <4>1. 1..i \subseteq 1..j
          OBVIOUS
        <4> QED
          BY <3>1, <3>2, <4>1 DEF WaiterGranted
      <3> QED
        BY <3>3, <1>1 DEF Woken, Holds
    <2> QED
      BY <2>1, <2>2
  <1>4. WantsMore(T)
    BY <1>1 DEF QueueInv, WantsMore
  <1>5. \A i \in ActiveHolders(T, st) :
            i \in DOMAIN q /\ Active(st, q[i].tran) /\ (Woken(q, i) \/ Holds(q[i]))
    BY <1>1 DEF ActiveHolders
  <1>6. \A i \in DOMAIN q : ~Woken(q, i) => T[i] = q[i] /\ ModeAfter(q, i) = q[i].mode
    BY <1>1 DEF Woken, ModeAfter
  <1>7. ConvertAhead(T, st)
    <2> SUFFICES ASSUME NEW i \in ActiveHolders(T, st), NEW j \in ActiveHolders(T, st), i < j,
                        T[i].status = "CONVERTING", T[j].status = "CONVERTING"
                 PROVE  lock_compat(T[i].convert_mode, T[j].mode)
      BY DEF ConvertAhead
    <2>1. T[i] = q[i] /\ T[j] = q[j]
      BY <1>1, <1>5
    <2>2. i \in ActiveHolders(q, st) /\ j \in ActiveHolders(q, st)
      BY <2>1, <1>5 DEF ActiveHolders, Holds
    <2> QED
      BY <2>1, <2>2 DEF QueueInv, ConvertAhead
  <1>8. CompatibleIn(T, ActiveHolders(T, st))
    <2> SUFFICES ASSUME NEW i \in ActiveHolders(T, st), NEW j \in ActiveHolders(T, st), i # j
                 PROVE  lock_compat(T[i].mode, T[j].mode)
      BY DEF CompatibleIn
    <2>0. T[i].mode = ModeAfter(q, i) /\ T[j].mode = ModeAfter(q, j)
      BY <1>1, <1>5, <1>6
    <2>1. CASE Woken(q, i)
      BY <2>0, <2>1, <1>5, WokenFits
    <2>2. CASE Woken(q, j)
      BY <2>0, <2>2, <1>5, WokenFits, CompatSymmetric
    <2>3. CASE ~Woken(q, i) /\ ~Woken(q, j)
      <3>1. i \in ActiveHolders(q, st) /\ j \in ActiveHolders(q, st)
        BY <2>3, <1>5 DEF ActiveHolders
      <3> QED
        BY <2>0, <2>3, <3>1, <1>5, <1>6 DEF QueueInv, CompatibleIn
    <2> QED
      BY <2>1, <2>2, <2>3
  <1> QED
    BY <1>2, <1>3, <1>4, <1>7, <1>8 DEF QueueInv, T

\* The first request the traversal does not grant has a reason to wait.
LEMMA TraversedBlocksRightly ==
    ASSUME NEW q \in Seq(Request), NEW st, QueueInv(q, st)
    PROVE  BlockedRightly(Traversed(q))
  <1> DEFINE T == Traversed(q)
  <1>0. \A i \in DOMAIN q : q[i].status \in LockStatus /\ i \in Nat \ {0}
    BY RequestFields
  <1>1. /\ T \in Seq(Request) /\ DOMAIN T = DOMAIN q
        /\ \A i \in DOMAIN q :
              /\ Woken(q, i) => T[i].status = "GRANTED" /\ T[i].mode = ModeAfter(q, i)
              /\ ~Woken(q, i) => T[i] = q[i]
    BY TraversedProperties DEF QueueInv
  <1> HIDE DEF T
  <1> SUFFICES ASSUME NEW i \in DOMAIN q, FirstNotGranted(T, i)
               PROVE  Blockers(T, i) # {}
    BY <1>1 DEF BlockedRightly, T
  <1>a. \A k \in DOMAIN q : ~Woken(q, k) => ModeAfter(q, k) = q[k].mode
    BY DEF Woken, ModeAfter
  <1>2. ~Woken(q, i) /\ T[i] = q[i] /\ q[i].status # "GRANTED"
    BY <1>1 DEF FirstNotGranted
  <1>3. \A j \in 1..(i - 1) : j \in DOMAIN q /\ T[j].status = "GRANTED"
    BY <1>0 DEF FirstNotGranted
  <1>4. \A j \in 1..(i - 1) : q[j].status # "GRANTED" => Woken(q, j)
    BY <1>1, <1>3
  <1>5. \A j \in 1..(i - 1) : T[j].mode = ModeAfter(q, j)
    BY <1>1, <1>3, <1>a
  <1>6. CASE q[i].status = "CONVERTING"
    <2>1. \A j \in 1..(i - 1) : q[j].status = "CONVERTING" => ConvertGranted(q, j)
      BY <1>4 DEF Woken, WaiterGranted
    <2>2. \A j \in 1..(i - 1) : q[j].status = "CONVERTING" => ConvertCompatible(q, j)
      BY <2>1, <1>0 DEF ConvertGranted
    <2>3. ~ConvertCompatible(q, i)
      <3>1. ~ConvertGranted(q, i)
        BY <1>2 DEF Woken
      <3>2. PICK j \in 1..i : q[j].status = "CONVERTING" /\ ~ConvertCompatible(q, j)
        BY <3>1, <1>6 DEF ConvertGranted
      <3> QED
        BY <3>2, <2>2, <1>0
    <2>4. PICK k \in DOMAIN q \ {i} :
             \/ q[k].status = "GRANTED" /\ ~lock_compat(q[i].convert_mode, q[k].mode)
             \/ /\ q[k].status = "CONVERTING" /\ k < i
                /\ ~lock_compat(q[i].convert_mode, q[k].convert_mode)
      BY <2>3 DEF ConvertCompatible
    <2>5. CASE q[k].status = "GRANTED" /\ ~lock_compat(q[i].convert_mode, q[k].mode)
      <3>1. ~Woken(q, k) /\ T[k] = q[k]
        BY <2>5, <1>1 DEF Woken, ConvertGranted, WaiterGranted
      <3> QED
        BY <2>5, <3>1, <1>1, <1>2, <1>6 DEF Blockers, Holds
    <2>6. CASE /\ q[k].status = "CONVERTING" /\ k < i
               /\ ~lock_compat(q[i].convert_mode, q[k].convert_mode)
      <3>1. k \in 1..(i - 1)
        BY <2>6, <1>0
      <3>2. T[k].mode = q[k].convert_mode /\ T[k].status = "GRANTED"
        BY <2>1, <2>6, <3>1, <1>3, <1>5 DEF ModeAfter
      <3> QED
        BY <2>6, <3>2, <1>1, <1>2, <1>6 DEF Blockers, Holds
    <2> QED
      BY <2>4, <2>5, <2>6
  <1>7. CASE q[i].status = "WAITING"
    <2>1. \A j \in DOMAIN q : q[j].status = "CONVERTING" => j \in 1..(i - 1)
      BY <1>7, <1>0 DEF QueueInv, HoldersFirst, Holds
    <2>2. ~convert_request_waiting(q)
      BY <2>1, <1>4 DEF convert_request_waiting, Woken, WaiterGranted
    <2>3. ~WaiterGranted(q, i)
      BY <1>2 DEF Woken
    <2>4. PICK j \in 1..i : /\ q[j].status = "WAITING"
                            /\ \E k \in 1..(j - 1) : ~lock_compat(q[j].mode, ModeAfter(q, k))
      BY <2>2, <2>3, <1>7 DEF WaiterGranted
    <2>5. j = i
      <3>1. SUFFICES ASSUME j \in 1..(i - 1) PROVE FALSE
        BY <1>0
      <3>2. WaiterGranted(q, j)
        BY <3>1, <2>4, <1>4 DEF Woken, ConvertGranted
      <3> QED
        BY <3>2, <2>4, <1>0 DEF WaiterGranted
    <2>6. PICK k \in 1..(i - 1) : ~lock_compat(q[i].mode, ModeAfter(q, k))
      BY <2>4, <2>5
    <2> QED
      BY <2>6, <1>2, <1>5, <1>7 DEF Blockers
  <1> QED
    BY <1>0, <1>2, <1>6, <1>7 DEF LockStatus

\* When the traversal leaves nobody waiting, the granted mode it computes is the maximum
\* of all modes held.
LEMMA TraversedModeExact ==
    ASSUME NEW q \in Seq(Request), WantsMore(q), ~TraversedWaiting(q)
    PROVE  ModeExact(Traversed(q), TraversedMode(q))
  <1> DEFINE T == Traversed(q)
  <1>1. /\ DOMAIN T = DOMAIN q
        /\ \A i \in DOMAIN q :
              /\ Woken(q, i) => T[i].status = "GRANTED" /\ T[i].mode = ModeAfter(q, i)
              /\ ~Woken(q, i) => T[i] = q[i]
    BY TraversedProperties
  <1> HIDE DEF T
  <1>2. \A i \in DOMAIN q : Woken(q, i) \/ q[i].status = "GRANTED"
    BY DEF TraversedWaiting
  <1>3. \A i \in DOMAIN q : T[i].status = "GRANTED" /\ T[i].mode = ModeAfter(q, i)
    BY <1>1, <1>2 DEF Woken, ModeAfter
  <1>4. \A i \in DOMAIN q : ~FirstBlocked(q, i)
    BY <1>2 DEF FirstBlocked, Woken, WaiterGranted
  <1>5. {k \in DOMAIN q : Holds(T[k]) /\ ~FirstBlocked(q, k)} = DOMAIN q
    BY <1>3, <1>4, Zenon DEF Holds
  <1>6. {ModeAfter(q, i) : i \in DOMAIN q} = {T[i].mode : i \in DOMAIN q}
    BY <1>3
  <1> QED
    BY <1>1, <1>3, <1>5, <1>6, Zenon DEF ModeExact, TraversedMode, T

-----------------------------------------------------------------------------
(* The queues that lock() makes *)

\* lock_max folds a new mode into the maximum of the others.
LEMMA MaxOfMore ==
    /\ \A S \in SUBSET HeldMode, m \in HeldMode :
          LockMaxOf(S \cup {m}) = lock_max(m, LockMaxOf(S))
    /\ \A S \in SUBSET HeldMode, m, n \in HeldMode :
          lock_max(m, n) = n
          => LockMaxOf(S \cup {n}) = lock_max(n, LockMaxOf(S \cup {m}))
  BY DEF lock_max, LockMaxOf, HeldMode, Requested

\* What appending a request does to a queue.
LEMMA AppendedQueue ==
    ASSUME NEW q \in Seq(Request), NEW req \in Request
    PROVE  /\ Append(q, req) \in Seq(Request)
           /\ Len(Append(q, req)) = Len(q) + 1
           /\ DOMAIN Append(q, req) = 1..(Len(q) + 1)
           /\ DOMAIN q = 1..Len(q)
           /\ \A i \in DOMAIN q : i \in DOMAIN Append(q, req) /\ Append(q, req)[i] = q[i]
           /\ Append(q, req)[Len(q) + 1] = req
           /\ \A i \in DOMAIN Append(q, req) : i # Len(q) + 1 => i \in DOMAIN q
  OBVIOUS

\* What replacing one request does to a queue.
LEMMA ReplacedQueue ==
    ASSUME NEW q \in Seq(Request), NEW p \in DOMAIN q, NEW req \in Request
    PROVE  /\ [q EXCEPT ![p] = req] \in Seq(Request)
           /\ DOMAIN [q EXCEPT ![p] = req] = DOMAIN q
           /\ \A i \in DOMAIN q : i # p => [q EXCEPT ![p] = req][i] = q[i]
           /\ [q EXCEPT ![p] = req][p] = req
  OBVIOUS

\* A new request that fits the maximum of a fully granted queue keeps the queue
\* invariant, and the maximum becomes lock_max of the two.
LEMMA AppendGrantedInv ==
    ASSUME NEW q \in Seq(Request), NEW st, NEW t \in Tran, NEW m \in HeldMode,
           QueueInv(q, st), ~InQueue(q, t), NEW g, ModeExact(q, g), lock_compat(m, g),
           NEW n, n = Append(q, lock_request(t, m, "GRANTED"))
    PROVE  /\ n \in Seq(Request)
           /\ QueueInv(n, st) /\ BlockedRightly(n)
           /\ ModeExact(n, lock_max(m, g))
  <1> DEFINE req == lock_request(t, m, "GRANTED")
             e == Len(q) + 1
             S == {q[i].mode : i \in DOMAIN q}
  <1>1. /\ req \in Request /\ req.tran = t /\ req.mode = m /\ req.status = "GRANTED"
    BY DEF lock_request, Request, LockStatus, LockMode
  <1>n. n = Append(q, req)
    OBVIOUS
  <1> HIDE DEF req
  <1>2. /\ n \in Seq(Request) /\ DOMAIN n = 1..e /\ DOMAIN q = 1..Len(q)
        /\ \A i \in DOMAIN q : i \in DOMAIN n /\ n[i] = q[i]
        /\ n[e] = req /\ e \in DOMAIN n
        /\ \A i \in DOMAIN n : i # e => i \in DOMAIN q
    BY <1>1, <1>n, AppendedQueue
  <1>3. e \notin DOMAIN q
    BY <1>2
  <1> HIDE DEF e
  <1>4. /\ \A i \in DOMAIN q : q[i].status = "GRANTED"
        /\ \A i \in DOMAIN n : n[i].status = "GRANTED"
        /\ g = LockMaxOf(S)
    BY <1>1, <1>2 DEF ModeExact
  <1>5. S \in SUBSET HeldMode
    BY RequestFields
  <1>6. {n[i].mode : i \in DOMAIN n} = S \cup {m}
    BY <1>1, <1>2
  <1>7. LockMaxOf({n[i].mode : i \in DOMAIN n}) = lock_max(m, LockMaxOf(S))
    BY <1>5, <1>6, MaxOfMore, Zenon
  <1>8. \A i \in DOMAIN q : lock_compat(m, q[i].mode) /\ lock_compat(q[i].mode, m)
    <2>1. \A x \in S : lock_compat(m, x)
      BY <1>4, <1>5, CompatWithMax DEF LockMode
    <2> QED
      BY <2>1, CompatSymmetric
  <1>9. Distinct(n)
    BY <1>1, <1>2 DEF Distinct, InQueue, QueueInv
  <1>10. HoldersFirst(n) /\ WantsMore(n) /\ ConvertAhead(n, st)
    BY <1>4 DEF HoldersFirst, WantsMore, ConvertAhead, Holds, ActiveHolders
  <1>11. CompatibleIn(n, ActiveHolders(n, st))
    <2> SUFFICES ASSUME NEW i \in ActiveHolders(n, st), NEW j \in ActiveHolders(n, st), i # j
                 PROVE  lock_compat(n[i].mode, n[j].mode)
      BY Zenon DEF CompatibleIn
    <2>0. i \in DOMAIN n /\ j \in DOMAIN n /\ Active(st, n[i].tran) /\ Active(st, n[j].tran)
      BY DEF ActiveHolders
    <2>1. CASE i # e /\ j # e
      <3>1. i \in ActiveHolders(q, st) /\ j \in ActiveHolders(q, st)
        BY <2>0, <2>1, <1>2, <1>4 DEF ActiveHolders, Holds
      <3> QED
        BY <3>1, <2>0, <2>1, <1>2 DEF QueueInv, CompatibleIn
    <2>2. CASE i = e \/ j = e
      BY <2>0, <2>2, <1>1, <1>2, <1>8
    <2> QED
      BY <2>1, <2>2, Zenon
  <1>12. BlockedRightly(n)
    BY <1>4 DEF BlockedRightly, FirstNotGranted
  <1> QED
    BY <1>2, <1>4, <1>7, <1>9, <1>10, <1>11, <1>12, Zenon DEF QueueInv, ModeExact

\* A new request that is made to wait keeps the queue invariant and has a reason to.
LEMMA AppendWaitingInv ==
    ASSUME NEW q \in Seq(Request), NEW st, NEW t \in Tran, NEW m \in HeldMode,
           QueueInv(q, st), BlockedRightly(q), ~InQueue(q, t),
           NEW g, \/ \E i \in DOMAIN q : q[i].status # "GRANTED"
                  \/ ModeExact(q, g) /\ ~lock_compat(m, g),
           NEW n, n = Append(q, lock_request(t, m, "WAITING"))
    PROVE  /\ n \in Seq(Request)
           /\ QueueInv(n, st) /\ BlockedRightly(n)
  <1> DEFINE req == lock_request(t, m, "WAITING")
             e == Len(q) + 1
             S == {q[i].mode : i \in DOMAIN q}
  <1>1. /\ req \in Request /\ req.tran = t /\ req.mode = m /\ req.status = "WAITING"
    BY DEF lock_request, Request, LockStatus, LockMode
  <1>n. n = Append(q, req)
    OBVIOUS
  <1> HIDE DEF req
  <1>2. /\ n \in Seq(Request) /\ DOMAIN n = 1..e /\ DOMAIN q = 1..Len(q)
        /\ \A i \in DOMAIN q : i \in DOMAIN n /\ n[i] = q[i] /\ i < e
        /\ n[e] = req /\ e \in DOMAIN n /\ 1..(e - 1) = DOMAIN q
        /\ \A i \in DOMAIN n : i # e => i \in DOMAIN q
        /\ \A i \in DOMAIN q : 1..(i - 1) \subseteq DOMAIN q /\ ~(e < i)
    BY <1>1, <1>n, AppendedQueue
  <1> HIDE DEF e
  <1>3. Distinct(n)
    BY <1>1, <1>2 DEF Distinct, InQueue, QueueInv
  <1>4. HoldersFirst(n)
    BY <1>1, <1>2 DEF HoldersFirst, QueueInv, Holds
  <1>5. WantsMore(n)
    BY <1>1, <1>2 DEF WantsMore, QueueInv
  <1>6. ActiveHolders(n, st) = ActiveHolders(q, st)
    BY <1>1, <1>2 DEF ActiveHolders, Holds
  <1>7. \A i \in ActiveHolders(q, st) : n[i] = q[i]
    BY <1>2 DEF ActiveHolders
  <1>8. ConvertAhead(n, st) /\ CompatibleIn(n, ActiveHolders(n, st))
    <2>1. ConvertAhead(n, st)
      BY <1>6, <1>7, ZenonT(40) DEF QueueInv, ConvertAhead
    <2>2. CompatibleIn(n, ActiveHolders(n, st))
      BY <1>6, <1>7, ZenonT(40) DEF QueueInv, CompatibleIn
    <2> QED
      BY <2>1, <2>2
  <1>9. BlockedRightly(n)
    <2> SUFFICES ASSUME NEW i \in DOMAIN n, FirstNotGranted(n, i)
                 PROVE  Blockers(n, i) # {}
      BY DEF BlockedRightly
    <2>1. CASE i # e
      <3>1. i \in DOMAIN q /\ FirstNotGranted(q, i)
        BY <2>1, <1>2 DEF FirstNotGranted
      <3>2. PICK k : k \in Blockers(q, i)
        BY <3>1 DEF BlockedRightly
      <3>3. k \in DOMAIN q
        BY <3>1, <3>2, <1>2 DEF Blockers
      <3>4. k \in Blockers(n, i)
        BY <3>1, <3>2, <3>3, <1>2 DEF Blockers
      <3> QED
        BY <3>4
    <2>2. CASE i = e
      <3>1. \A k \in DOMAIN q : q[k].status = "GRANTED"
        BY <2>2, <1>2 DEF FirstNotGranted
      <3>2. S \in SUBSET LockMode
        BY RequestFields DEF LockMode
      <3>3. PICK k \in DOMAIN q : ~lock_compat(m, q[k].mode)
        BY <3>1, <3>2, CompatWithMax DEF LockMode, ModeExact
      <3>4. k \in Blockers(n, i)
        BY <3>3, <2>2, <1>1, <1>2 DEF Blockers
      <3> QED
        BY <3>4
    <2> QED
      BY <2>1, <2>2
  <1> QED
    BY <1>1, <1>2, <1>3, <1>4, <1>5, <1>8, <1>9 DEF QueueInv, InQueue

\* The queue of a conversion that is granted at once.
LEMMA ConvertedInv ==
    ASSUME NEW q \in Seq(Request), NEW st, NEW p \in DOMAIN q, NEW m \in HeldMode,
           QueueInv(q, st), BlockedRightly(q), q[p].status = "GRANTED",
           lock_max(q[p].mode, m) = m,
           \A k \in DOMAIN q : k # p /\ Holds(q[k]) => lock_compat(q[k].mode, m),
           NEW n, n = Converted(q, p, m), NEW g
    PROVE  /\ n \in Seq(Request)
           /\ QueueInv(n, st) /\ BlockedRightly(n)
           /\ DOMAIN n = DOMAIN q
           /\ \A i \in DOMAIN n : n[i].tran = q[i].tran /\ n[i].status = q[i].status
           /\ ModeExact(q, g) => ModeExact(n, lock_max(m, g))
  <1> DEFINE req == [q[p] EXCEPT !.mode = m, !.status = "GRANTED", !.convert_mode = "NULL"]
  <1>0. \A i \in DOMAIN q : /\ i \in Nat \ {0} /\ q[i] \in Request /\ q[i].mode \in HeldMode
                            /\ q[i].convert_mode \in LockMode
                            /\ 1..(i - 1) \subseteq DOMAIN q
    BY RequestFields
  <1>a. /\ req \in Request /\ req.tran = q[p].tran /\ req.mode = m /\ req.status = "GRANTED"
    <2>1. q[p] \in [tran : Tran, mode : HeldMode, status : LockStatus, convert_mode : LockMode]
      BY <1>0 DEF Request
    <2>2. "GRANTED" \in LockStatus /\ "NULL" \in LockMode
      BY DEF LockStatus, LockMode
    <2> QED
      BY <2>1, <2>2, Zenon DEF Request
  <1>n. n = [q EXCEPT ![p] = req]
    BY DEF Converted
  <1> HIDE DEF req
  <1>1. /\ DOMAIN n = DOMAIN q /\ \A i \in DOMAIN q : i # p => n[i] = q[i]
        /\ n[p].tran = q[p].tran /\ n[p].mode = m /\ n[p].status = "GRANTED"
        /\ n \in Seq(Request)
    BY <1>a, <1>n, ReplacedQueue
  <1>3. \A i \in DOMAIN q : n[i].tran = q[i].tran /\ n[i].status = q[i].status
    BY <1>1
  <1>4. Distinct(n) /\ HoldersFirst(n) /\ WantsMore(n)
    <2>1. Distinct(n)
      BY <1>1, <1>3 DEF QueueInv, Distinct
    <2>2. HoldersFirst(n)
      BY <1>1, <1>3 DEF QueueInv, HoldersFirst, Holds
    <2>3. WantsMore(n)
      BY <1>1, <1>3 DEF QueueInv, WantsMore
    <2> QED
      BY <2>1, <2>2, <2>3
  <1>5. ActiveHolders(n, st) = ActiveHolders(q, st)
    BY <1>1, <1>3 DEF ActiveHolders, Holds
  <1>6. ConvertAhead(n, st)
    BY <1>1, <1>5 DEF QueueInv, ConvertAhead, ActiveHolders
  <1>7. CompatibleIn(n, ActiveHolders(n, st))
    <2> SUFFICES ASSUME NEW i \in ActiveHolders(q, st), NEW j \in ActiveHolders(q, st), i # j
                 PROVE  lock_compat(n[i].mode, n[j].mode)
      BY <1>5 DEF CompatibleIn
    <2>0. i \in DOMAIN q /\ j \in DOMAIN q /\ Holds(q[i]) /\ Holds(q[j])
      BY DEF ActiveHolders
    <2>1. CASE i # p /\ j # p
      BY <2>0, <2>1, <1>1 DEF QueueInv, CompatibleIn
    <2>2. CASE j = p
      BY <2>0, <2>2, <1>1
    <2>3. CASE i = p
      BY <2>0, <2>3, <1>1, CompatSymmetric
    <2> QED
      BY <2>1, <2>2, <2>3
  <1>8. BlockedRightly(n)
    <2> SUFFICES ASSUME NEW i \in DOMAIN q, FirstNotGranted(n, i)
                 PROVE  Blockers(n, i) # {}
      BY <1>1 DEF BlockedRightly
    <2>1. i # p /\ n[i] = q[i] /\ FirstNotGranted(q, i)
      BY <1>0, <1>1, <1>3 DEF FirstNotGranted
    <2>2. PICK k : k \in Blockers(q, i)
      BY <2>1 DEF BlockedRightly
    <2>3. k \in DOMAIN q
      BY <2>2, <1>0 DEF Blockers
    <2>4. \A x \in LockMode : ~lock_compat(x, q[k].mode) => ~lock_compat(x, n[k].mode)
      <3>1. CASE k = p
        <4>1. n[k].mode = m /\ q[k].mode \in LockMode /\ m \in LockMode
          BY <3>1, <1>0, <1>1 DEF LockMode
        <4>2. lock_max(q[k].mode, m) = m
          BY <3>1
        <4> QED
          BY <4>1, <4>2, CoverConflicts
      <3>2. CASE k # p
        BY <3>2, <2>3, <1>1
      <3> QED
        BY <3>1, <3>2
    <2>5. q[i].convert_mode \in LockMode /\ q[i].mode \in LockMode
      BY <1>0 DEF LockMode
    <2>6. k \in Blockers(n, i)
      BY <2>1, <2>2, <2>3, <2>4, <2>5, <1>1, <1>3 DEF Blockers, Holds
    <2> QED
      BY <2>6
  <1>9. LockMaxOf({n[i].mode : i \in DOMAIN n}) =
            lock_max(m, LockMaxOf({q[i].mode : i \in DOMAIN q}))
    <2> DEFINE A == {q[i].mode : i \in DOMAIN q \ {p}}
    <2>1. A \in SUBSET HeldMode /\ q[p].mode \in HeldMode
      BY <1>0
    <2>2. {n[i].mode : i \in DOMAIN n} = A \cup {m}
      BY <1>1
    <2>3. {q[i].mode : i \in DOMAIN q} = A \cup {q[p].mode}
      OBVIOUS
    <2> HIDE DEF A
    <2>4. LockMaxOf(A \cup {m}) = lock_max(m, LockMaxOf(A \cup {q[p].mode}))
      BY <2>1, MaxOfMore, Zenon
    <2> QED
      BY <2>2, <2>3, <2>4, Zenon
  <1> QED
    BY <1>1, <1>3, <1>4, <1>6, <1>7, <1>8, <1>9 DEF QueueInv, ModeExact

\* Two transactions in each other's way are a cycle that deadlock() finds.
LEMMA MutualIsDeadlock ==
    ASSUME NEW qs, NEW w, NEW t \in Tran, NEW u \in Tran,
           u \in Visited(qs, w, t), t \in Visited(qs, w, u)
    PROVE  deadlock(qs, w, t)
  BY DEF deadlock

\* The queue of a conversion that must wait.
LEMMA ConvertingInv ==
    ASSUME NEW q \in Seq(Request), NEW st, NEW p \in DOMAIN q, NEW m \in HeldMode,
           QueueInv(q, st), BlockedRightly(q), q[p].status = "GRANTED",
           lock_max(q[p].mode, m) = m,
           \E k \in DOMAIN q : k # p /\ Holds(q[k]) /\ ~lock_compat(q[k].mode, m),
           NEW n, n = Converting(q, p, m)
    PROVE  /\ n \in Seq(Request) /\ DOMAIN n = DOMAIN q
           /\ BlockedRightly(n)
           /\ Distinct(n) /\ HoldersFirst(n) /\ WantsMore(n)
           /\ CompatibleIn(n, ActiveHolders(n, st))
           /\ n[p].tran = q[p].tran /\ n[p].mode = q[p].mode
           /\ n[p].status = "CONVERTING" /\ n[p].convert_mode = m
           /\ \A i \in DOMAIN n : i # p => n[i] = q[i]
  <1> DEFINE req == [q[p] EXCEPT !.convert_mode = m, !.status = "CONVERTING"]
  <1>0. \A i \in DOMAIN q : /\ i \in Nat \ {0} /\ q[i] \in Request /\ q[i].mode \in HeldMode
                            /\ q[i].convert_mode \in LockMode
                            /\ 1..(i - 1) \subseteq DOMAIN q
    BY RequestFields
  <1>a. /\ req \in Request /\ req.tran = q[p].tran /\ req.mode = q[p].mode
        /\ req.status = "CONVERTING" /\ req.convert_mode = m
    <2>1. q[p] \in [tran : Tran, mode : HeldMode, status : LockStatus, convert_mode : LockMode]
      BY <1>0 DEF Request
    <2>2. "CONVERTING" \in LockStatus /\ m \in LockMode
      BY DEF LockStatus, LockMode
    <2> QED
      BY <2>1, <2>2, Zenon DEF Request
  <1>n. n = [q EXCEPT ![p] = req]
    BY DEF Converting
  <1> HIDE DEF req
  <1>1. /\ DOMAIN n = DOMAIN q /\ \A i \in DOMAIN q : i # p => n[i] = q[i]
        /\ n[p].tran = q[p].tran /\ n[p].mode = q[p].mode /\ n[p].status = "CONVERTING"
        /\ n[p].convert_mode = m /\ n \in Seq(Request)
    BY <1>a, <1>n, ReplacedQueue
  <1>3. \A i \in DOMAIN q : /\ n[i].tran = q[i].tran /\ n[i].mode = q[i].mode
                            /\ Holds(n[i]) <=> Holds(q[i])
    BY <1>1, SMTT(30) DEF Holds
  <1>4. Distinct(n)
    BY <1>1, <1>3 DEF QueueInv, Distinct
  <1>5. HoldersFirst(n)
    BY <1>1, <1>3 DEF QueueInv, HoldersFirst
  <1>6. WantsMore(n)
    BY <1>1 DEF QueueInv, WantsMore
  <1>7. ActiveHolders(n, st) = ActiveHolders(q, st)
    BY <1>1, <1>3 DEF ActiveHolders
  <1>8. CompatibleIn(n, ActiveHolders(n, st))
    BY <1>3, <1>7, SMTT(30) DEF QueueInv, CompatibleIn, ActiveHolders
  <1>9. BlockedRightly(n)
    <2> SUFFICES ASSUME NEW i \in DOMAIN q, FirstNotGranted(n, i)
                 PROVE  Blockers(n, i) # {}
      BY <1>1 DEF BlockedRightly
    <2>1. CASE i = p
      <3>1. PICK k \in DOMAIN q : k # p /\ Holds(q[k]) /\ ~lock_compat(q[k].mode, m)
        OBVIOUS
      <3>2. ~lock_compat(m, n[k].mode) /\ Holds(n[k])
        BY <3>1, <1>3, CompatSymmetric
      <3>3. k \in Blockers(n, i)
        BY <2>1, <3>1, <3>2, <1>1 DEF Blockers
      <3> QED
        BY <3>3
    <2>2. CASE i # p
      <3>1. n[i] = q[i] /\ ~(p \in 1..(i - 1))
        BY <2>2, <1>1 DEF FirstNotGranted
      <3>2. FirstNotGranted(q, i)
        BY <3>1, <1>0, <1>1, SMTT(30) DEF FirstNotGranted
      <3>3. PICK k : k \in Blockers(q, i)
        BY <3>2 DEF BlockedRightly
      <3>4. k \in DOMAIN q
        BY <3>3, <1>0, SMTT(30) DEF Blockers
      <3>5. k \in Blockers(n, i)
        BY <3>1, <3>3, <3>4, <1>1, <1>3 DEF Blockers
      <3> QED
        BY <3>5
    <2> QED
      BY <2>1, <2>2
  <1> QED
    BY <1>1, <1>4, <1>5, <1>6, <1>8, <1>9
=============================================================================
