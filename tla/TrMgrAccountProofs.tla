-------------------------- MODULE TrMgrAccountProofs --------------------------
(***************************************************************************)
(* Proofs about TrMgr: the account that the storage manager keeps of its   *)
(* sessions, for any number of them.                                       *)
(*                                                                         *)
(* AccountInv relates the counters to what the sessions do, exclusive_sid  *)
(* to the log-less session, and the semaphore and the list of a session    *)
(* to the wake-up that it waits for.  The invariant needs that no session  *)
(* is stopped while it waits and no client changes options inside a        *)
(* transaction: either makes the counters drift.                           *)
(***************************************************************************)
EXTENDS TrMgrProofs
-----------------------------------------------------------------------------
\* Identifiers, readers, exclusive mode and wake-ups.
IdHolders == {s \in Session : HasId(s)}
Readers == {s \in Session : HasId(s) /\ tr[s].begun = "read_only"}
Updaters == {s \in Session : Updates(s)}
Listed(s) == {i \in DOMAIN wait_list : wait_list[i] = s}

AccountTyped ==
    /\ wait_sem \in [Session -> Nat]
    /\ exclusive_sid \in Session \cup {NoSession}
    /\ wait_list \in Seq(Session)
    /\ running = TRUE

\* No option has changed inside a transaction.
Undrifted == \A s \in Session : tr[s].mode = tr[s].begun

Counts ==
    /\ ids = CHARISMA_MAX_TRNS_NUMBER - Cardinality(IdHolders)
    /\ ro_tr_count = Cardinality(Readers)

\* The exclusive session is the log-less one that has an identifier.  Once it is woken there is
\* no other updater.
Exclusive(s) ==
    /\ exclusive_sid = s <=> HasId(s) /\ tr[s].begun = "log_less"
    /\ exclusive_sid = s /\ (tr[s].pc # "wait_exclusive" \/ wait_sem[s] > 0)
          => \A t \in Session \ {s} : ~Updates(t)

\* Who waits gets one wake-up, nobody else any.
WakeUps(s) ==
    /\ tr[s].pc \notin {"blocked", "wait_exclusive"} => wait_sem[s] = 0 /\ Listed(s) = {}
    /\ tr[s].pc = "blocked" => wait_sem[s] + Cardinality(Listed(s)) = 1
    /\ tr[s].pc = "wait_exclusive" => wait_sem[s] \in {0, 1} /\ Listed(s) = {}

\* The account agrees with what the sessions do.
AccountInv ==
    /\ SessionsTyped /\ AccountTyped
    /\ Undrifted
    /\ Counts
    /\ \A s \in Session : Exclusive(s)
    /\ \A s \in Session : WakeUps(s)

\* The list is finite, and so is what it has of a session.
LEMMA ListedFinite ==
    ASSUME wait_list \in Seq(Session), NEW s
    PROVE  IsFiniteSet(Listed(s)) /\ Cardinality(Listed(s)) \in Nat
  <1>1. DOMAIN wait_list = 1..Len(wait_list) /\ Len(wait_list) \in Nat
    OBVIOUS
  <1>2. IsFiniteSet(DOMAIN wait_list)
    BY <1>1, FS_Interval
  <1>3. Listed(s) \subseteq DOMAIN wait_list
    BY DEF Listed
  <1> QED
    BY <1>2, <1>3, FS_Subset, FS_CardinalityType

\* Two kinds of sessions without a common member are counted together.
LEMMA Together ==
    ASSUME NEW A \in SUBSET Session, NEW B \in SUBSET Session, A \cap B = {}
    PROVE  Cardinality(A \cup B) = Cardinality(A) + Cardinality(B)
  <1>1. IsFiniteSet(A) /\ IsFiniteSet(B) /\ Cardinality(A) \in Nat /\ Cardinality(B) \in Nat
    BY SessionsFinite
  <1>2. Cardinality(A \cup B) = Cardinality(A) + Cardinality(B) - Cardinality(A \cap B)
    BY <1>1, FS_Union
  <1>3. Cardinality(A \cap B) = 0
    BY FS_EmptySet
  <1> QED
    BY <1>1, <1>2, <1>3

\* The invariant holds when the storage manager starts.
LEMMA AccountInvInit == Init => AccountInv
  <1> SUFFICES ASSUME Init PROVE AccountInv
    OBVIOUS
  <1>1. SessionsTyped
    BY CheckpointInvInit DEF CheckpointInv
  <1>2. \A s \in Session : tr[s].pc = "idle" /\ tr[s].mode = "update" /\ tr[s].begun = "update"
    BY DEF Init, NewSession
  <1>3. AccountTyped
    BY DEF Init, AccountTyped
  <1>4. Counts
    <2>1. IdHolders = {} /\ Readers = {}
      BY <1>2 DEF IdHolders, Readers, HasId
    <2> QED
      BY <2>1, FS_EmptySet, TrMgrAssumption DEF Init, Counts
  <1>5. \A s \in Session : Exclusive(s)
    BY <1>2, TrMgrAssumption DEF Init, Exclusive, HasId
  <1>6. \A s \in Session : WakeUps(s)
    <2>1. \A s \in Session : wait_sem[s] = 0 /\ Listed(s) = {}
      BY DEF Init, Listed
    <2> QED
      BY <1>2, <2>1 DEF WakeUps
  <1> QED
    BY <1>1, <1>2, <1>3, <1>4, <1>5, <1>6 DEF AccountInv, Undrifted

\* A session stands as before for the account of the storage manager.
SameStanding(s) ==
    /\ HasId(s)' <=> HasId(s)
    /\ HasId(s) => tr'[s].begun = tr[s].begun
    /\ tr'[s].mode = tr'[s].begun
    /\ \/ tr'[s].pc = tr[s].pc
       \/ tr[s].pc \notin {"blocked", "wait_exclusive"} /\ tr'[s].pc \notin {"blocked", "wait_exclusive"}

\* A step that leaves the account and every session's standing alone keeps the invariant.
LEMMA AccountFrame ==
    ASSUME AccountInv, SessionsTyped', UNCHANGED idVars, \A s \in Session : SameStanding(s)
    PROVE  AccountInv'
  <1>1. UNCHANGED <<wait_sem, ids, ro_tr_count, exclusive_sid, wait_list, running>>
    BY DEF idVars
  <1>2. AccountTyped'
    BY <1>1 DEF AccountInv, AccountTyped
  <1>3. Undrifted'
    BY DEF SameStanding, Undrifted
  <1>4. IdHolders' = IdHolders /\ Readers' = Readers
    BY DEF SameStanding, IdHolders, Readers
  <1>5. Counts'
    BY <1>1, <1>4 DEF AccountInv, Counts
  <1>6. \A s \in Session : Updates(s)' <=> Updates(s)
    BY DEF SameStanding, Updates
  <1>7. \A s \in Session : Exclusive(s)'
    <2> TAKE s \in Session
    <2>1. Exclusive(s) /\ SameStanding(s)
      BY DEF AccountInv
    <2>2. tr'[s].pc = "wait_exclusive" <=> tr[s].pc = "wait_exclusive"
      BY <2>1 DEF SameStanding
    <2> QED
      BY <1>1, <1>6, <2>1, <2>2 DEF Exclusive, SameStanding
  <1>8. \A s \in Session : WakeUps(s)'
    <2> TAKE s \in Session
    <2>1. WakeUps(s) /\ SameStanding(s)
      BY DEF AccountInv
    <2>2. Listed(s)' = Listed(s) /\ wait_sem' = wait_sem
      BY <1>1 DEF Listed
    <2> QED
      BY <2>1, <2>2 DEF WakeUps, SameStanding
  <1> QED
    BY <1>2, <1>3, <1>5, <1>7, <1>8 DEF AccountInv

\* A step of one session, of which the others notice nothing, and that waits neither before nor after.
LEMMA OwnStep ==
    ASSUME AccountInv, NEW s \in Session, SessionsTyped', OthersStay(s), UNCHANGED idVars, SameStanding(s)
    PROVE  AccountInv'
  <1>1. \A t \in Session : SameStanding(t)
    BY DEF AccountInv, Undrifted, OthersStay, SameStanding, HasId
  <1> QED
    BY <1>1, AccountFrame

\* Message 1 while a session is exclusive: the session joins the list.
LEMMA BlockAccount ==
    ASSUME AccountInv, NEW s \in Session, BlockSession(s)
    PROVE  AccountInv'
  <1>1. /\ tr[s].pc = "get_id" /\ Goto(s, "blocked")
        /\ wait_list' = Append(wait_list, s)
        /\ UNCHANGED <<wait_sem, ids, ro_tr_count, exclusive_sid, running>>
    BY DEF BlockSession
  <1>2. SessionsTyped' /\ OthersStay(s) /\ ModesStay(s) /\ tr'[s].pc = "blocked"
    BY <1>1, GotoChanges DEF AccountInv, SessionPc
  <1>3. AccountTyped'
    BY <1>1 DEF AccountInv, AccountTyped
  <1>4. Undrifted'
    BY <1>2 DEF AccountInv, Undrifted, OthersStay, ModesStay
  <1>5. \A t \in Session : /\ HasId(t)' <=> HasId(t)
                           /\ tr'[t].begun = tr[t].begun
                           /\ tr'[t].pc = "wait_exclusive" <=> tr[t].pc = "wait_exclusive"
    BY <1>1, <1>2 DEF HasId, OthersStay, ModesStay
  <1>6. IdHolders' = IdHolders /\ Readers' = Readers
    BY <1>5 DEF IdHolders, Readers
  <1>7. Counts'
    BY <1>1, <1>6 DEF AccountInv, Counts
  <1>8. \A t \in Session : Exclusive(t)'
    BY <1>1, <1>5 DEF AccountInv, Exclusive, Updates
  <1>9. wait_list \in Seq(Session)
    BY DEF AccountInv, AccountTyped
  <1>10. Listed(s)' = {Len(wait_list) + 1}
    <2>1. Listed(s) = {} /\ \A i \in DOMAIN wait_list : wait_list[i] # s
      BY <1>1, Zenon DEF AccountInv, WakeUps, Listed
    <2> QED
      BY <2>1, <1>1, <1>9 DEF Listed
  <1>11. \A t \in Session \ {s} : Listed(t)' = Listed(t)
    BY <1>1, <1>9 DEF Listed
  <1>12. WakeUps(s)'
    <2>1. wait_sem[s] = 0
      BY <1>1 DEF AccountInv, WakeUps
    <2>2. Cardinality(Listed(s)') = 1
      BY <1>10, FS_Singleton, Zenon
    <2> QED
      BY <2>1, <2>2, <1>1, <1>2 DEF WakeUps
  <1>13. \A t \in Session \ {s} : WakeUps(t)'
    BY <1>1, <1>2, <1>11 DEF AccountInv, WakeUps, OthersStay
  <1> QED
    BY <1>2, <1>3, <1>4, <1>7, <1>8, <1>12, <1>13 DEF AccountInv

\* A session takes the wake-up it waited for.
LEMMA UnblockAccount ==
    ASSUME AccountInv, NEW s \in Session, WaitForSmToUnblock(s)
    PROVE  AccountInv'
  <1>1. /\ tr[s].pc \in {"blocked", "wait_exclusive"} /\ wait_sem[s] > 0
        /\ wait_sem' = [wait_sem EXCEPT ![s] = wait_sem[s] - 1]
        /\ Goto(s, IF tr[s].pc = "blocked" THEN "get_id" ELSE "take_sem")
        /\ UNCHANGED <<ids, ro_tr_count, exclusive_sid, wait_list, running>>
    BY DEF WaitForSmToUnblock
  <1>2. /\ SessionsTyped' /\ OthersStay(s) /\ ModesStay(s)
        /\ \/ tr[s].pc = "blocked" /\ tr'[s].pc = "get_id"
           \/ tr[s].pc = "wait_exclusive" /\ tr'[s].pc = "take_sem"
    BY <1>1, GotoChanges DEF AccountInv, SessionPc
  <1>3. wait_sem \in [Session -> Nat] /\ wait_list \in Seq(Session)
    BY DEF AccountInv, AccountTyped
  <1>4. WakeUps(s)
    BY DEF AccountInv
  <1>5. wait_sem[s] = 1 /\ Listed(s) = {}
    <2>1. IsFiniteSet(Listed(s)) /\ Cardinality(Listed(s)) \in Nat
      BY <1>3, ListedFinite
    <2>2. wait_sem[s] \in Nat
      BY <1>3
    <2>3. CASE tr[s].pc = "blocked"
      <3>1. wait_sem[s] = 1 /\ Cardinality(Listed(s)) = 0
        BY <2>1, <2>2, <2>3, <1>1, <1>4 DEF WakeUps
      <3> QED
        BY <3>1, <2>1, FS_EmptySet
    <2>4. CASE tr[s].pc = "wait_exclusive"
      BY <2>4, <1>1, <1>4 DEF WakeUps
    <2> QED
      BY <2>3, <2>4, <1>1
  <1>6. wait_sem' \in [Session -> Nat] /\ wait_sem'[s] = 0 /\ \A t \in Session \ {s} : wait_sem'[t] = wait_sem[t]
    BY <1>1, <1>3, <1>5
  <1>7. AccountTyped'
    BY <1>1, <1>6 DEF AccountInv, AccountTyped
  <1>8. Undrifted'
    BY <1>2 DEF AccountInv, Undrifted, OthersStay, ModesStay
  <1>9. \A t \in Session : (HasId(t)' <=> HasId(t)) /\ tr'[t].begun = tr[t].begun
    BY <1>2 DEF HasId, OthersStay, ModesStay
  <1>10. IdHolders' = IdHolders /\ Readers' = Readers
    BY <1>9 DEF IdHolders, Readers
  <1>11. Counts'
    BY <1>1, <1>10 DEF AccountInv, Counts
  <1>12. \A t \in Session : Updates(t)' <=> Updates(t)
    BY <1>9 DEF Updates
  <1>13. Exclusive(s)'
    BY <1>1, <1>9, <1>12 DEF AccountInv, Exclusive
  <1>14. \A t \in Session \ {s} : Exclusive(t)'
    BY <1>1, <1>2, <1>6, <1>9, <1>12 DEF AccountInv, Exclusive, OthersStay
  <1>15. \A t \in Session : Listed(t)' = Listed(t)
    BY <1>1 DEF Listed
  <1>16. WakeUps(s)'
    BY <1>2, <1>5, <1>6, <1>15 DEF WakeUps
  <1>17. \A t \in Session \ {s} : WakeUps(t)'
    BY <1>2, <1>6, <1>15 DEF AccountInv, WakeUps, OthersStay
  <1> QED
    BY <1>2, <1>7, <1>8, <1>11, <1>13, <1>14, <1>16, <1>17 DEF AccountInv

\* Which session counts for the account, when a step changes only one.
LEMMA OneHolder ==
    ASSUME NEW s \in Session, OthersStay(s)
    PROVE  /\ IdHolders' \ {s} = IdHolders \ {s}
           /\ Readers' \ {s} = Readers \ {s}
           /\ s \in IdHolders <=> HasId(s)
           /\ s \in IdHolders' <=> HasId(s)'
           /\ s \in Readers <=> HasId(s) /\ tr[s].begun = "read_only"
           /\ s \in Readers' <=> HasId(s)' /\ tr'[s].begun = "read_only"
           /\ \A t \in Session \ {s} : /\ HasId(t)' <=> HasId(t)
                                       /\ Updates(t)' <=> Updates(t)
  <1>1. \A t \in Session \ {s} : (HasId(t)' <=> HasId(t)) /\ (Updates(t)' <=> Updates(t)) /\ tr'[t].begun = tr[t].begun
    BY DEF OthersStay, HasId, Updates
  <1> QED
    BY <1>1 DEF IdHolders, Readers

\* The updaters are those that are left when the readers are taken away.
LEMMA UpdatersCounted ==
    /\ IsFiniteSet(Updaters)
    /\ Counts => ActiveUpdaters(ids, ro_tr_count) = Cardinality(Updaters)
  <1>1. IdHolders = Readers \cup Updaters /\ Readers \cap Updaters = {}
    BY DEF IdHolders, Readers, Updaters, Updates
  <1>2. Readers \in SUBSET Session /\ Updaters \in SUBSET Session
    BY DEF Readers, Updaters
  <1>3. /\ Cardinality(Readers) \in Nat /\ Cardinality(Updaters) \in Nat
        /\ IsFiniteSet(Updaters)
    BY <1>2, SessionsFinite
  <1>4. Cardinality(IdHolders) = Cardinality(Readers) + Cardinality(Updaters)
    BY <1>1, <1>2, Together
  <1> QED
    BY <1>3, <1>4, TrMgrAssumption DEF Counts, ActiveUpdaters

\* When the account says that there is one updater, a session that updates is the only one.
OneIsAlone ==
    Counts /\ ActiveUpdaters(ids, ro_tr_count) = 1
       => \A s \in Session : Updates(s) => \A t \in Session \ {s} : ~Updates(t)

\* The account of updaters can be relied on.
LEMMA OnlyUpdater == OneIsAlone
  <1> SUFFICES ASSUME Counts, ActiveUpdaters(ids, ro_tr_count) = 1, NEW s \in Session, Updates(s)
               PROVE  \A t \in Session \ {s} : ~Updates(t)
    BY DEF OneIsAlone
  <1>1. PICK x : Updaters = {x}
    BY UpdatersCounted, FS_Singleton, Zenon
  <1> QED
    BY <1>1 DEF Updaters

\* The counts after a session has got or given back an identifier.
LEMMA CountsGet ==
    ASSUME AccountInv, NEW s \in Session, OthersStay(s), ~HasId(s), HasId(s)',
           ids' = ids - 1,
           ro_tr_count' = IF tr'[s].begun = "read_only" THEN ro_tr_count + 1 ELSE ro_tr_count
    PROVE  Counts'
  <1>1. /\ IsFiniteSet(IdHolders) /\ Cardinality(IdHolders) \in Nat
        /\ IsFiniteSet(Readers) /\ Cardinality(Readers) \in Nat
    BY SessionsFinite DEF IdHolders, Readers
  <1>2. Cardinality(IdHolders') = Cardinality(IdHolders) + 1
    BY <1>1, OneHolder, CountChanges
  <1>3. Cardinality(Readers') = IF tr'[s].begun = "read_only" THEN Cardinality(Readers) + 1 ELSE Cardinality(Readers)
    BY <1>1, OneHolder, CountChanges
  <1> QED
    BY <1>1, <1>2, <1>3, TrMgrAssumption DEF AccountInv, Counts

\* A session that gives its identifier back is counted no longer.
LEMMA CountsGive ==
    ASSUME AccountInv, NEW s \in Session, OthersStay(s), HasId(s), ~HasId(s)',
           ids' = ids + 1,
           ro_tr_count' = IF tr[s].begun = "read_only" THEN ro_tr_count - 1 ELSE ro_tr_count
    PROVE  Counts'
  <1>1. /\ IsFiniteSet(IdHolders) /\ Cardinality(IdHolders) \in Nat
        /\ IsFiniteSet(Readers) /\ Cardinality(Readers) \in Nat
    BY SessionsFinite DEF IdHolders, Readers
  <1>2. Cardinality(IdHolders') = Cardinality(IdHolders) - 1
    BY <1>1, OneHolder, CountChanges
  <1>3. Cardinality(Readers') = IF tr[s].begun = "read_only" THEN Cardinality(Readers) - 1 ELSE Cardinality(Readers)
    BY <1>1, OneHolder, CountChanges
  <1> QED
    BY <1>1, <1>2, <1>3, TrMgrAssumption DEF AccountInv, Counts

\* Message 1: a session gets an identifier, and a log-less one becomes exclusive.
LEMMA GetIdAccount ==
    ASSUME AccountInv, NEW s \in Session, GetTransactionId(s)
    PROVE  AccountInv'
  <1>1. /\ tr[s].pc = "get_id"
        /\ exclusive_sid = NoSession \/ tr[s].mode = "read_only"
        /\ ids' = ids - 1
        /\ ro_tr_count' = IF tr[s].mode = "read_only" THEN ro_tr_count + 1 ELSE ro_tr_count
        /\ wait_list' = wait_list
    BY DEF GetTransactionId
  <1>2. PICK label \in {"wait_exclusive", "register", "take_sem"} :
           /\ Goto(s, label)
           /\ label = "wait_exclusive" <=> tr[s].mode = "log_less"
    BY DEF GetTransactionId
  <1>3. SessionsTyped' /\ OthersStay(s) /\ ModesStay(s) /\ tr'[s].pc = label
    BY <1>2, GotoChanges DEF AccountInv, SessionPc
  <1>4. tr[s].mode = tr[s].begun /\ tr'[s].begun = tr[s].begun
    BY <1>3 DEF AccountInv, Undrifted, ModesStay
  <1>5. ~HasId(s) /\ HasId(s)' /\ ~Updates(s)
    BY <1>1, <1>2, <1>3 DEF HasId, Updates
  <1>6. Counts'
    BY <1>1, <1>3, <1>4, <1>5, CountsGet
  <1>7. Undrifted'
    BY <1>3 DEF AccountInv, Undrifted, OthersStay, ModesStay
  <1>8. \A t \in Session : Listed(t)' = Listed(t)
    BY <1>1 DEF Listed
  <1>9. wait_sem[s] = 0 /\ Listed(s) = {} /\ wait_sem \in [Session -> Nat]
    BY <1>1 DEF AccountInv, WakeUps, AccountTyped
  <1>10. CASE tr[s].mode = "log_less"
    <2>1. /\ exclusive_sid = NoSession /\ exclusive_sid' = s
          /\ xmTryToStartExclusive(s, ids', ro_tr_count')
      BY <1>1, <1>10 DEF GetTransactionId
    <2>2. running' = TRUE
      BY <1>1, <2>1, Zenon DEF xmTryToStartExclusive, IsOpen
    <2>3. /\ wait_sem' \in [Session -> Nat] /\ wait_sem'[s] \in {0, 1}
          /\ wait_sem'[s] > 0 => ActiveUpdaters(ids', ro_tr_count') = 1
          /\ \A t \in Session \ {s} : wait_sem'[t] = wait_sem[t]
      <3>1. \/ wait_sem' = [wait_sem EXCEPT ![s] = wait_sem[s] + 1] /\ ActiveUpdaters(ids', ro_tr_count') = 1
            \/ wait_sem' = [wait_sem EXCEPT ![s] = wait_sem[s]]
        BY <2>1, Zenon DEF xmTryToStartExclusive
      <3> QED
        BY <1>9, <3>1
    <2>4. AccountTyped'
      BY <1>1, <2>1, <2>2, <2>3 DEF AccountInv, AccountTyped
    <2>5. Updates(s)' /\ tr'[s].begun = "log_less"
      BY <1>4, <1>5, <1>10 DEF Updates
    <2>6. ActiveUpdaters(ids', ro_tr_count') = 1 => \A t \in Session \ {s} : ~Updates(t)'
      <3>1. OneIsAlone'
        BY OnlyUpdater, PTL
      <3>2. ActiveUpdaters(ids, ro_tr_count)' = ActiveUpdaters(ids', ro_tr_count')
        BY DEF ActiveUpdaters
      <3>3. Counts' /\ ActiveUpdaters(ids, ro_tr_count)' = 1
               => \A u \in Session : Updates(u)' => \A t \in Session \ {u} : ~Updates(t)'
        BY <3>1 DEF OneIsAlone
      <3> QED
        BY <1>6, <2>5, <3>2, <3>3
    <2>7. Exclusive(s)'
      BY <1>3, <1>5, <1>2, <1>10, <2>1, <2>3, <2>5, <2>6 DEF Exclusive
    <2>8. \A t \in Session \ {s} : Exclusive(t)'
      BY <1>3, <2>1, OneHolder, TrMgrAssumption, SMTT(20) DEF AccountInv, Exclusive, OthersStay
    <2>9. WakeUps(s)'
      BY <1>2, <1>3, <1>8, <1>9, <1>10, <2>3, SMTT(20) DEF WakeUps
    <2>10. \A t \in Session \ {s} : WakeUps(t)'
      BY <1>3, <1>8, <2>3 DEF AccountInv, WakeUps, OthersStay
    <2> QED
      BY <1>3, <1>6, <1>7, <2>4, <2>7, <2>8, <2>9, <2>10 DEF AccountInv
  <1>11. CASE tr[s].mode # "log_less"
    <2>1. UNCHANGED <<exclusive_sid, wait_sem, running>>
      BY <1>11 DEF GetTransactionId
    <2>2. AccountTyped'
      BY <1>1, <2>1 DEF AccountInv, AccountTyped
    <2>3. exclusive_sid # NoSession => ~Updates(s)'
      BY <1>1, <1>4 DEF Updates
    <2>4. \A t \in Session : exclusive_sid = t => \A u \in Session : Updates(u)' => Updates(u)
      BY <1>3, <2>3, OneHolder, TrMgrAssumption
    <2>5. \A t \in Session \ {s} : Exclusive(t)'
      BY <1>3, <2>1, <2>4, OneHolder DEF AccountInv, Exclusive, OthersStay
    <2>6. Exclusive(s)'
      BY <1>4, <1>5, <1>11, <2>1 DEF AccountInv, Exclusive
    <2>7. WakeUps(s)'
      BY <1>2, <1>3, <1>8, <1>9, <1>11, <2>1, SMTT(20) DEF WakeUps
    <2>8. \A t \in Session \ {s} : WakeUps(t)'
      BY <1>3, <1>8, <2>1, SMTT(20) DEF AccountInv, WakeUps, OthersStay
    <2> QED
      BY <1>3, <1>6, <1>7, <2>2, <2>5, <2>6, <2>7, <2>8 DEF AccountInv
  <1> QED
    BY <1>10, <1>11

\* Message 2 of a reader.
LEMMA GiveReaderAccount ==
    ASSUME AccountInv, NEW s \in Session, GiveReaderId(s)
    PROVE  AccountInv'
  <1>1. /\ tr[s].pc = "give_id" /\ tr[s].mode = "read_only" /\ Goto(s, "up_sem")
        /\ ids' = ids + 1 /\ ro_tr_count' = ro_tr_count - 1
        /\ UNCHANGED <<wait_sem, exclusive_sid, wait_list, running>>
    BY DEF GiveReaderId
  <1>2. SessionsTyped' /\ OthersStay(s) /\ ModesStay(s) /\ tr'[s].pc = "up_sem"
    BY <1>1, GotoChanges DEF AccountInv, SessionPc
  <1>3. tr[s].begun = "read_only" /\ HasId(s) /\ ~HasId(s)' /\ ~Updates(s) /\ ~Updates(s)'
    BY <1>1, <1>2 DEF AccountInv, Undrifted, HasId, Updates
  <1>4. Counts'
    BY <1>1, <1>2, <1>3, CountsGive
  <1>5. Undrifted'
    BY <1>2 DEF AccountInv, Undrifted, OthersStay, ModesStay
  <1>6. AccountTyped'
    BY <1>1 DEF AccountInv, AccountTyped
  <1>7. \A t \in Session : Updates(t)' <=> Updates(t)
    BY <1>2, <1>3, OneHolder
  <1>8. Exclusive(s)'
    BY <1>1, <1>3 DEF AccountInv, Exclusive
  <1>9. \A t \in Session \ {s} : Exclusive(t)'
    BY <1>1, <1>2, <1>7, OneHolder DEF AccountInv, Exclusive, OthersStay
  <1>10. \A t \in Session : WakeUps(t)'
    BY <1>1, <1>2, Zenon DEF AccountInv, WakeUps, Listed, OthersStay
  <1> QED
    BY <1>2, <1>4, <1>5, <1>6, <1>8, <1>9, <1>10 DEF AccountInv

\* Message 2 of an updater: it leaves exclusive mode, or perhaps lets the exclusive session start.
LEMMA GiveUpdaterAccount ==
    ASSUME AccountInv, NEW s \in Session, NEW need \in BOOLEAN, GiveUpdaterId(s, need)
    PROVE  AccountInv'
  <1>1. /\ tr[s].pc = "give_id" /\ tr[s].mode # "read_only" /\ Goto(s, "up_sem")
        /\ ids' = ids + 1 /\ ro_tr_count' = ro_tr_count
    BY DEF GiveUpdaterId
  <1>2. SessionsTyped' /\ OthersStay(s) /\ ModesStay(s) /\ tr'[s].pc = "up_sem"
    BY <1>1, GotoChanges DEF AccountInv, SessionPc
  <1>3. HasId(s) /\ ~HasId(s)' /\ Updates(s) /\ ~Updates(s)' /\ tr[s].begun # "read_only"
    BY <1>1, <1>2 DEF AccountInv, Undrifted, HasId, Updates
  <1>4. Counts'
    BY <1>1, <1>2, <1>3, CountsGive
  <1>5. Undrifted'
    BY <1>2 DEF AccountInv, Undrifted, OthersStay, ModesStay
  <1>6. wait_sem[s] = 0 /\ Listed(s) = {} /\ wait_sem \in [Session -> Nat] /\ wait_list \in Seq(Session)
    BY <1>1 DEF AccountInv, WakeUps, AccountTyped
  <1>7. \A t \in Session : Updates(t)' => Updates(t)
    BY <1>2, <1>3, OneHolder
  <1>8. CASE s = exclusive_sid /\ xmExitExclusiveMode
    <2>1. \A i \in DOMAIN wait_list : IsOpen(wait_list[i])
      <3> TAKE i \in DOMAIN wait_list
      <3>1. wait_list[i] \in Session /\ i \in Listed(wait_list[i])
        BY <1>6 DEF Listed
      <3>2. tr[wait_list[i]].pc = "blocked"
        BY <3>1 DEF AccountInv, WakeUps
      <3> QED
        BY <3>2 DEF IsOpen
    <2>2. /\ exclusive_sid' = NoSession /\ wait_list' = <<>> /\ running' = running
          /\ wait_sem' = [t \in Session |-> wait_sem[t] + Cardinality(Listed(t))]
      BY <1>8, <2>1 DEF xmExitExclusiveMode, Listed
    <2>3. \A t \in Session : Cardinality(Listed(t)) \in Nat
      BY <1>6, ListedFinite
    <2>4. AccountTyped'
      BY <1>6, <2>2, <2>3 DEF AccountInv, AccountTyped
    <2>5. \A t \in Session : Exclusive(t)'
      <3>1. \A t \in Session \ {s} : ~(HasId(t)' /\ tr'[t].begun = "log_less")
        BY <1>2, <1>8, OneHolder DEF AccountInv, Exclusive, OthersStay
      <3> QED
        BY <1>3, <2>2, <3>1, TrMgrAssumption, SMTT(20) DEF Exclusive
    <2>6. \A t \in Session : Listed(t)' = {} /\ Cardinality(Listed(t)') = 0
      BY <2>2, FS_EmptySet DEF Listed
    <2>7. WakeUps(s)'
      <3>1. Cardinality(Listed(s)) = 0
        BY <1>6, FS_EmptySet
      <3>2. wait_sem'[s] = wait_sem[s] + Cardinality(Listed(s))
        BY <2>2
      <3>3. wait_sem'[s] = 0
        BY <1>6, <3>1, <3>2
      <3> QED
        BY <1>2, <2>6, <3>3 DEF WakeUps
    <2>8. \A t \in Session \ {s} : WakeUps(t)'
      <3> TAKE t \in Session \ {s}
      <3>1. tr'[t] = tr[t] /\ WakeUps(t) /\ wait_sem[t] \in Nat
        BY <1>2, <1>6 DEF AccountInv, OthersStay
      <3>2. wait_sem'[t] = wait_sem[t] + Cardinality(Listed(t))
        BY <2>2
      <3>3. CASE tr[t].pc = "blocked"
        BY <3>1, <3>2, <3>3, <2>6 DEF WakeUps
      <3>4. CASE tr[t].pc # "blocked"
        <4>1. Listed(t) = {} /\ Cardinality(Listed(t)) = 0
          BY <3>1, <3>4, FS_EmptySet, Zenon DEF WakeUps
        <4>2. wait_sem'[t] = wait_sem[t]
          BY <3>1, <3>2, <4>1
        <4> QED
          BY <3>1, <3>4, <4>2, <2>6 DEF WakeUps
      <3> QED
        BY <3>3, <3>4
    <2> QED
      BY <1>2, <1>4, <1>5, <2>4, <2>5, <2>7, <2>8 DEF AccountInv
  <1>9. CASE /\ exclusive_sid \notin {s, NoSession}
             /\ xmTryToStartExclusive(exclusive_sid, ids', ro_tr_count)
             /\ UNCHANGED <<exclusive_sid, wait_list>>
    <2>1. PICK e \in Session : e = exclusive_sid /\ e # s
      BY <1>9 DEF AccountInv, AccountTyped
    <2>2. HasId(e) /\ tr[e].begun = "log_less" /\ tr[e].pc = "wait_exclusive" /\ ~(wait_sem[e] > 0)
      BY <1>3, <2>1 DEF AccountInv, Exclusive
    <2>3. wait_sem[e] = 0 /\ Listed(e) = {}
      BY <1>6, <2>2 DEF AccountInv, WakeUps
    <2>4. running' = TRUE
      BY <1>9, <2>1, <2>2, Zenon DEF xmTryToStartExclusive, IsOpen
    <2>5. /\ wait_sem' \in [Session -> Nat] /\ wait_sem'[e] \in {0, 1}
          /\ wait_sem'[e] > 0 => ActiveUpdaters(ids', ro_tr_count') = 1
          /\ \A t \in Session \ {e} : wait_sem'[t] = wait_sem[t]
      <3>1. \/ wait_sem' = [wait_sem EXCEPT ![e] = wait_sem[e] + 1] /\ ActiveUpdaters(ids', ro_tr_count') = 1
            \/ wait_sem' = [wait_sem EXCEPT ![e] = wait_sem[e]]
        BY <1>1, <1>9, <2>1, Zenon DEF xmTryToStartExclusive
      <3> QED
        BY <1>6, <2>3, <3>1
    <2>6. AccountTyped'
      BY <1>9, <2>4, <2>5 DEF AccountInv, AccountTyped
    <2>7. tr'[e] = tr[e] /\ HasId(e)' /\ Updates(e)'
      BY <1>2, <2>1, <2>2 DEF OthersStay, HasId, Updates
    <2>8. wait_sem'[e] > 0 => \A t \in Session \ {e} : ~Updates(t)'
      <3>1. OneIsAlone'
        BY OnlyUpdater, PTL
      <3>2. ActiveUpdaters(ids, ro_tr_count)' = ActiveUpdaters(ids', ro_tr_count')
        BY DEF ActiveUpdaters
      <3>3. Counts' /\ ActiveUpdaters(ids, ro_tr_count)' = 1
               => \A u \in Session : Updates(u)' => \A t \in Session \ {u} : ~Updates(t)'
        BY <3>1 DEF OneIsAlone
      <3> QED
        BY <1>4, <2>5, <2>7, <3>2, <3>3
    <2>9. Exclusive(e)'
      BY <1>9, <2>1, <2>2, <2>7, <2>8 DEF Exclusive
    <2>10. \A t \in Session \ {e} : Exclusive(t)'
      <3>1. ~(exclusive_sid' = s)
        BY <1>9
      <3>2. Exclusive(s)'
        BY <1>3, <3>1, SMTT(20) DEF Exclusive
      <3>3. \A t \in Session \ {e, s} : Exclusive(t)'
        BY <1>2, <1>9, <2>1, OneHolder DEF AccountInv, Exclusive, OthersStay
      <3> QED
        BY <3>2, <3>3
    <2>11. \A t \in Session : Listed(t)' = Listed(t)
      BY <1>9, SMTT(20) DEF Listed
    <2>12. WakeUps(e)'
      BY <2>2, <2>3, <2>5, <2>7, <2>11 DEF WakeUps
    <2>13. WakeUps(s)'
      BY <1>2, <1>6, <2>1, <2>5, <2>11 DEF WakeUps
    <2>14. \A t \in Session \ {e, s} : WakeUps(t)'
      BY <1>2, <2>5, <2>11 DEF AccountInv, WakeUps, OthersStay
    <2> QED
      BY <1>2, <1>4, <1>5, <2>6, <2>9, <2>10, <2>12, <2>13, <2>14, SMTT(20) DEF AccountInv
  <1>10. CASE exclusive_sid = NoSession /\ UNCHANGED <<wait_sem, exclusive_sid, wait_list, running>>
    <2>1. AccountTyped'
      BY <1>10, SMTT(20) DEF AccountInv, AccountTyped
    <2>2. \A t \in Session \ {s} : Exclusive(t)'
      BY <1>2, <1>10, OneHolder, TrMgrAssumption, SMTT(20) DEF AccountInv, Exclusive, OthersStay
    <2>3. Exclusive(s)'
      BY <1>3, <1>10, TrMgrAssumption DEF Exclusive
    <2>4. \A t \in Session : Listed(t)' = Listed(t)
      BY <1>10 DEF Listed
    <2>5. WakeUps(s)'
      BY <1>2, <1>6, <1>10, <2>4 DEF WakeUps
    <2>6. \A t \in Session \ {s} : WakeUps(t)'
      BY <1>2, <1>10, <2>4 DEF AccountInv, WakeUps, OthersStay
    <2> QED
      BY <1>2, <1>4, <1>5, <2>1, <2>2, <2>3, <2>5, <2>6 DEF AccountInv
  <1> QED
    BY <1>8, <1>9, <1>10 DEF GiveUpdaterId

\* A session that ends has no wake-up to lose.
LEMMA CloseAccount ==
    ASSUME AccountInv, NEW s \in Session, CloseSession(s)
    PROVE  AccountInv'
  <1>1. /\ tr[s].pc \in {"idle", "stopped"} /\ Goto(s, "closed")
        /\ wait_sem' = [wait_sem EXCEPT ![s] = 0]
        /\ UNCHANGED <<ids, ro_tr_count, exclusive_sid, wait_list, running>>
    BY DEF CloseSession
  <1>2. SessionsTyped' /\ OthersStay(s) /\ ModesStay(s) /\ tr'[s].pc = "closed"
    BY <1>1, GotoChanges DEF AccountInv, SessionPc
  <1>3. wait_sem[s] = 0 /\ wait_sem \in [Session -> Nat]
    BY <1>1 DEF AccountInv, WakeUps, AccountTyped
  <1>4. wait_sem' = wait_sem
    BY <1>1, <1>3
  <1>5. UNCHANGED idVars
    BY <1>1, <1>4 DEF idVars
  <1>6. SameStanding(s)
    BY <1>1, <1>2 DEF AccountInv, Undrifted, SameStanding, HasId, ModesStay
  <1> QED
    BY <1>2, <1>5, <1>6, OwnStep

\* Every step keeps the invariant, if no session is stopped while it waits and no client changes
\* options inside a transaction.
LEMMA AccountInvStep == Stoppable = {} /\ MaxDrift = 0 /\ AccountInv /\ [Next]_vars => AccountInv'
  <1> SUFFICES ASSUME Stoppable = {}, MaxDrift = 0, AccountInv, [Next]_vars
               PROVE  AccountInv'
    OBVIOUS
  <1>1. SessionsTyped /\ \A s \in Session : tr[s].mode = tr[s].begun
    BY DEF AccountInv, Undrifted
  <1>2. ASSUME UNCHANGED <<tr, idVars>> PROVE AccountInv'
    BY <1>1, <1>2, AccountFrame DEF SessionsTyped, SameStanding, HasId
  <1>3. ASSUME NEW s \in Session, DownTransactionBlockSems(s) PROVE AccountInv'
    <2>1. Goto(s, "register") /\ tr[s].pc = "take_sem" /\ UNCHANGED idVars
      BY <1>3 DEF DownTransactionBlockSems
    <2>2. SameStanding(s)
      BY <2>1, <1>1, GotoChanges DEF SessionPc, SameStanding, HasId, ModesStay
    <2> QED
      BY <2>1, <2>2, <1>1, GotoChanges, OwnStep DEF SessionPc
  <1>4. ASSUME NEW s \in Session, RegisterTransaction(s) PROVE AccountInv'
    <2>1. SameStanding(s)
      BY <1>4, <1>1, RegisterChanges DEF SameStanding, HasId, ModesStay
    <2> QED
      BY <1>4, <2>1, <1>1, RegisterChanges, OwnStep, ZenonT(30) DEF RegisterTransaction
  <1>5. ASSUME NEW s \in Session, NEW commit \in BOOLEAN, ReportToWu(s, commit) PROVE AccountInv'
    <2>1. SameStanding(s)
      BY <1>5, <1>1, ReportChanges, SMTT(20) DEF SameStanding, HasId, ModesStay
    <2> QED
      BY <1>5, <2>1, <1>1, ReportChanges, OwnStep, ZenonT(30) DEF ReportToWu
  <1>6. ASSUME NEW s \in Session, ReleaseSem(s) PROVE AccountInv'
    <2>1. Goto(s, "activate") /\ tr[s].pc = "release_sem" /\ UNCHANGED idVars
      BY <1>6, SMTT(20) DEF ReleaseSem
    <2>2. SameStanding(s)
      BY <2>1, <1>1, GotoChanges, SMTT(20) DEF SessionPc, SameStanding, HasId, ModesStay
    <2> QED
      BY <2>1, <2>2, <1>1, GotoChanges, OwnStep DEF SessionPc
  <1>7. ASSUME NEW s \in Session, ActivateAndWait(s) PROVE AccountInv'
    <2>1. Goto(s, "wait_checkpoint") /\ tr[s].pc = "activate" /\ UNCHANGED idVars
      BY <1>7 DEF ActivateAndWait
    <2>2. SameStanding(s)
      BY <2>1, <1>1, GotoChanges, SMTT(20) DEF SessionPc, SameStanding, HasId, ModesStay
    <2> QED
      BY <2>1, <2>2, <1>1, GotoChanges, OwnStep DEF SessionPc
  <1>8. ASSUME NEW s \in Session, llOnCheckpointWait(s) PROVE AccountInv'
    <2>1. Goto(s, "unregister") /\ tr[s].pc = "wait_checkpoint" /\ UNCHANGED idVars
      BY <1>8, SMTT(20) DEF llOnCheckpointWait
    <2>2. SameStanding(s)
      BY <2>1, <1>1, GotoChanges DEF SessionPc, SameStanding, HasId, ModesStay
    <2> QED
      BY <2>1, <2>2, <1>1, GotoChanges, OwnStep, SMTT(20) DEF SessionPc
  <1>9. ASSUME NEW s \in Session, UnregisterTransaction(s) PROVE AccountInv'
    <2>1. SameStanding(s)
      BY <1>9, <1>1, UnregisterChanges DEF SameStanding, HasId, ModesStay
    <2> QED
      BY <1>9, <2>1, <1>1, UnregisterChanges, OwnStep, ZenonT(30) DEF UnregisterTransaction
  <1>10. ASSUME NEW s \in Session, UpTransactionBlockSems(s) PROVE AccountInv'
    <2>1. SameStanding(s)
      BY <1>10, <1>1, UpChanges DEF SameStanding, HasId
    <2> QED
      BY <1>10, <2>1, <1>1, UpChanges, OwnStep, ZenonT(30) DEF UpTransactionBlockSems
  <1>11. ASSUME NEW s \in Session, NEW mode \in ModesOf(s), Begin(s, mode) PROVE AccountInv'
    <2>1. SameStanding(s)
      BY <1>11, <1>1, BeginChanges DEF SameStanding, HasId
    <2> QED
      BY <1>11, <2>1, <1>1, BeginChanges, OwnStep, ZenonT(30) DEF Begin
  <1>12. ASSUME NEW s \in Session, NEW mode \in ModesOf(s), SetSessionOptions(s, mode) PROVE AccountInv'
    BY <1>12 DEF SetSessionOptions
  <1>13. ASSUME NEW s \in Session, StopWhileWaiting(s) PROVE AccountInv'
    BY <1>13 DEF StopWhileWaiting
  <1>14. CASE AdvanceSnapshots
    <2>1. \A s \in Session : SameStanding(s)
      BY <1>14, <1>1, AdvanceChanges DEF SameStanding, HasId, ModesStay
    <2> QED
      BY <1>14, <2>1, <1>1, AdvanceChanges, AccountFrame DEF AdvanceSnapshots
  <1>15. CASE MakeCheckpoint
    <2>1. \A s \in Session : SameStanding(s)
      BY <1>15, <1>1, CheckpointChanges DEF SameStanding, HasId, ModesStay
    <2> QED
      BY <1>15, <2>1, <1>1, CheckpointChanges, AccountFrame DEF MakeCheckpoint
  <1>16. ASSUME NEW s \in Session, SessionStep(s) PROVE AccountInv'
    BY <1>16, <1>3, <1>4, <1>5, <1>6, <1>7, <1>8, <1>9, <1>10, BlockAccount, GetIdAccount, UnblockAccount,
       GiveReaderAccount, GiveUpdaterAccount DEF SessionStep
  <1>17. CASE ThreadStep
    BY <1>17, <1>2, <1>14, <1>15
    DEF ThreadStep, WaitStart, Decide, DownUnit, AdvanceFails, WaitEndOfRotr, UpUnit, llOnCheckpointFinish
  <1>18. CASE Shutdown
    BY <1>18, <1>2 DEF Shutdown
  <1>19. CASE UNCHANGED vars
    BY <1>19, <1>2 DEF vars
  <1> QED
    BY <1>11, <1>12, <1>13, <1>16, <1>17, <1>18, <1>19, CloseAccount DEF Next, Terminated

\* The invariants of checkpoints, units and accounts together.
LEMMA TrMgrInvariants ==
    ASSUME Stoppable = {}, MaxDrift = 0
    PROVE  Spec => [](CheckpointInv /\ UnitsInv /\ AccountInv)
  <1>1. UnitsInv /\ [Next]_vars => UnitsInv'
    BY UnitsInvStep
  <1>2. AccountInv /\ [Next]_vars => AccountInv'
    BY AccountInvStep
  <1> QED
    BY <1>1, <1>2, CheckpointInvInit, CheckpointInvStep, UnitsInvInit, AccountInvInit, PTL DEF Spec

\* While a log-less transaction works no other transaction updates (trmgr.cpp, xmTryToStartExclusive),
\* for any number of sessions, provided that no session is stopped while it waits and no client
\* changes options inside a transaction.
THEOREM ExclusiveIsAlone ==
    ASSUME Stoppable = {}, MaxDrift = 0
    PROVE  Spec => []ExclusiveAlone
  <1>1. AccountInv => ExclusiveAlone
    BY DEF AccountInv, Exclusive, ExclusiveAlone, Updates
  <1>2. Spec => []AccountInv
    BY TrMgrInvariants, PTL
  <1> QED
    BY <1>1, <1>2, PTL

\* The storage manager's account of its sessions (trmgr.cpp) is right, under the same provision:
\* the identifiers and readers it counts are those the sessions have, and who waits has exactly one
\* wake-up to come.
THEOREM AccountsAreRight ==
    ASSUME Stoppable = {}, MaxDrift = 0
    PROVE  Spec => []SessionsAccountedFor
  <1>1. AccountInv => IdsAreAccountedFor
    BY DEF AccountInv, Counts, IdsAreAccountedFor, IdHolders, Readers
  <1>2. AccountInv => NoStaleWakeUp
    <2> SUFFICES ASSUME AccountInv, NEW s \in Session
                 PROVE  /\ tr[s].pc \notin {"blocked", "wait_exclusive"}
                              => wait_sem[s] = 0 /\ Cardinality(Listed(s)) = 0
                        /\ tr[s].pc = "blocked" => wait_sem[s] + Cardinality(Listed(s)) = 1
      BY DEF NoStaleWakeUp, Listed
    <2> QED
      BY FS_EmptySet, Zenon DEF AccountInv, WakeUps
  <1>3. /\ CheckpointInv /\ UnitsInv /\ AccountInv
        /\ start_checkpoint_snapshot \in BOOLEAN /\ end_of_rotr_event \in BOOLEAN
        => TypeOK
    <2> SUFFICES ASSUME CheckpointInv, UnitsInv, AccountInv,
                        start_checkpoint_snapshot \in BOOLEAN, end_of_rotr_event \in BOOLEAN
                 PROVE  TypeOK
      OBVIOUS
    <2>1. Cardinality(IdHolders) \in 0..CHARISMA_MAX_TRNS_NUMBER /\ Cardinality(Readers) \in Int
      BY SessionsFinite DEF IdHolders, Readers
    <2>2. ids \in 0..CHARISMA_MAX_TRNS_NUMBER /\ ro_tr_count \in Int
      BY <2>1, TrMgrAssumption DEF AccountInv, Counts
    <2>3. thread \in [pc : ThreadPc, held : 0..CHARISMA_MAX_TRNS_NUMBER, shutdown : BOOLEAN, stopping : BOOLEAN]
      BY DEF UnitsInv, ThreadTyped, ThreadRecord, ThreadHolds
    <2>4. checkpoint_on \in BOOLEAN /\ WaitCheckpoint \in Nat
      BY DEF CheckpointInv, FlagsTyped
    <2>5. wait_sem \in [Session -> Nat] /\ exclusive_sid \in Session \cup {NoSession} /\ wait_list \in Seq(Session)
      BY DEF AccountInv, AccountTyped
    <2>6. running \in BOOLEAN
      BY DEF AccountInv, AccountTyped
    <2>7. concurrent_trns_sem \in Nat
      BY DEF UnitsInv
    <2>8. tr \in [Session -> [pc : SessionPc, mode : Mode, begun : Mode, isCommit : BOOLEAN,
                            isCompleted : BOOLEAN, snapshot : {"none", "current", "older"}, saved : BOOLEAN]]
      BY DEF UnitsInv, SessionsTyped, SessionRecord
    <2> QED
      BY <2>2, <2>3, <2>4, <2>5, <2>6, <2>7, <2>8, Zenon DEF TypeOK
  <1>4. Init => start_checkpoint_snapshot \in BOOLEAN /\ end_of_rotr_event \in BOOLEAN
    BY Zenon DEF Init
  <1>5. start_checkpoint_snapshot \in BOOLEAN /\ end_of_rotr_event \in BOOLEAN /\ [Next]_vars
           => (start_checkpoint_snapshot \in BOOLEAN /\ end_of_rotr_event \in BOOLEAN)'
    <2> DEFINE Typed == start_checkpoint_snapshot' \in BOOLEAN /\ end_of_rotr_event' \in BOOLEAN
    <2> SUFFICES ASSUME start_checkpoint_snapshot \in BOOLEAN, end_of_rotr_event \in BOOLEAN, [Next]_vars
                 PROVE  Typed
      OBVIOUS
    <2>1. ASSUME UNCHANGED <<llVars, end_of_rotr_event>> PROVE Typed
      BY <2>1 DEF llVars
    <2>2. ASSUME NEW s \in Session, SessionStep(s) PROVE Typed
      <3>1. CASE \/ BlockSession(s) \/ GetTransactionId(s) \/ WaitForSmToUnblock(s) \/ DownTransactionBlockSems(s)
                 \/ RegisterTransaction(s) \/ ReleaseSem(s) \/ UpTransactionBlockSems(s)
                 \/ \E commit \in BOOLEAN : ReportToWu(s, commit)
        BY <2>1, <3>1, Zenon DEF BlockSession, GetTransactionId, WaitForSmToUnblock, DownTransactionBlockSems,
                          RegisterTransaction, ReleaseSem, UpTransactionBlockSems, ReportToWu
      <3>2. CASE ActivateAndWait(s) \/ llOnCheckpointWait(s)
        BY <3>2, Zenon DEF ActivateAndWait, llActivateCheckpoint, llOnCheckpointWait
      <3>3. CASE UnregisterTransaction(s)
        BY <3>3 DEF UnregisterTransaction, llVars
      <3>4. CASE GiveReaderId(s)
        BY <3>4 DEF GiveReaderId, llVars
      <3>5. CASE \E need \in BOOLEAN : GiveUpdaterId(s, need)
        BY <3>5, Zenon DEF GiveUpdaterId, llActivateCheckpoint, llVars
      <3> QED
        BY <2>2, <3>1, <3>2, <3>3, <3>4, <3>5 DEF SessionStep
    <2>3. CASE ThreadStep
      BY <2>3, Zenon DEF ThreadStep, WaitStart, Decide, DownUnit, AdvanceSnapshots, AdvanceFails, WaitEndOfRotr,
                  MakeCheckpoint, UpUnit, llOnCheckpointFinish, llVars
    <2>4. CASE Shutdown \/ UNCHANGED vars
      BY <2>4, Zenon DEF Shutdown, vars, llVars
    <2>5. ASSUME NEW s \in Session, StopWhileWaiting(s) \/ CloseSession(s) PROVE Typed
      BY <2>1, <2>5 DEF StopWhileWaiting, CloseSession
    <2>6. ASSUME NEW s \in Session, NEW mode \in ModesOf(s), Begin(s, mode) \/ SetSessionOptions(s, mode)
          PROVE  Typed
      BY <2>1, <2>6 DEF Begin, SetSessionOptions
    <2> QED
      BY <2>2, <2>3, <2>4, <2>5, <2>6 DEF Next, Terminated
  <1>6. Spec => [](CheckpointInv /\ UnitsInv /\ AccountInv)
    BY TrMgrInvariants
  <1>7. TypeOK /\ IdsAreAccountedFor /\ NoStaleWakeUp => SessionsAccountedFor
    BY DEF SessionsAccountedFor
  <1> QED
    BY <1>1, <1>2, <1>3, <1>4, <1>5, <1>6, <1>7, PTL DEF Spec

=============================================================================
