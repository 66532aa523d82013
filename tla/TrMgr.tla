------------------------------- MODULE TrMgr --------------------------------
(***************************************************************************)
(* Transactions as the storage manager admits, excludes and quiesces them. *)
(* A session (tr/tr_common_funcs.cpp) gets an identifier, a unit of the    *)
(* semaphore concurrent_trns_sem and a row of the version table, works,    *)
(* reports its end and gives everything back.  The server side handles     *)
(* each message under the giant lock (sm/sm.cpp, sm/trmgr.cpp): it counts  *)
(* identifiers and lets a log-less session run as the only updater.  The   *)
(* checkpoint thread takes all the units, so that no updater runs, and     *)
(* either advances the snapshots or makes a checkpoint, which a log-less   *)
(* commit waits for (common/llcommon/llMain.cpp).                          *)
(*                                                                         *)
(* Of the snapshots only this is kept: a reader is on the current one or   *)
(* on an older one, and the snapshots cannot advance while there are       *)
(* readers of both kinds (see Snapshots, AdvanceWaitsForReadersOnly).      *)
(***************************************************************************)
EXTENDS Integers, Sequences, FiniteSets

CONSTANTS Session,
          CHARISMA_MAX_TRNS_NUMBER,  \* identifiers, and units of the semaphore
          ReadOnly,                  \* sessions that may run read-only transactions
          LogLess,                   \* sessions that may run log-less ones
          Stoppable,                 \* sessions that may be told to stop while they wait
          MaxDrift,                  \* bound on ro_tr_count where options change inside a
                                     \* transaction; 0 if no client does that
          Advances,                  \* can the criterion for advancing the snapshots hold
          NoSession

ASSUME TrMgrAssumption ==
    /\ CHARISMA_MAX_TRNS_NUMBER \in Nat \ {0}
    /\ IsFiniteSet(Session) /\ Cardinality(Session) <= CHARISMA_MAX_TRNS_NUMBER
    /\ ReadOnly \subseteq Session /\ LogLess \subseteq Session /\ Stoppable \subseteq Session
    /\ MaxDrift \in Nat /\ Advances \in BOOLEAN
    /\ NoSession \notin Session

VARIABLES tr,              \* the sessions: how far they are and what they remember
          wait_sem,        \* a session's semaphore SEDNA_TRANSACTION_LOCK
          ids,             \* the number of free identifiers
          ro_tr_count, exclusive_sid, wait_list,
          running,         \* FALSE once the storage manager has stopped with a fault
          concurrent_trns_sem,
          checkpoint_on,
          WaitCheckpoint,  \* the semaphore a log-less commit waits for
          start_checkpoint_snapshot, end_of_rotr_event,   \* events
          thread           \* the checkpoint thread

idVars == <<wait_sem, ids, ro_tr_count, exclusive_sid, wait_list, running>>
llVars == <<checkpoint_on, WaitCheckpoint, start_checkpoint_snapshot>>
vars == <<tr, idVars, concurrent_trns_sem, llVars, end_of_rotr_event, thread>>

Mode == {"update", "read_only", "log_less"}
ModesOf(s) == {"update"} \cup (IF s \in ReadOnly THEN {"read_only"} ELSE {})
                         \cup (IF s \in LogLess THEN {"log_less"} ELSE {})

\* mode: the options now (is_ro_mode, is_log_less_mode); begun: the mode the transaction
\* began with (need_sem, is_need_checkpoint_on_transaction_commit); isCompleted: the row of
\* the version table belongs to a completed transaction; saved: history, a checkpoint has
\* been made since the transaction reported its end.
NewSession == [pc |-> "idle", mode |-> "update", begun |-> "update", isCommit |-> FALSE,
               isCompleted |-> FALSE, snapshot |-> "none", saved |-> FALSE]
\* shutdown: shutdown_checkpoint_thread; stopping: shutdown_event_call; held: units taken.
NewThread == [pc |-> "wait", held |-> 0, shutdown |-> FALSE, stopping |-> FALSE]

Init ==
    /\ tr = [s \in Session |-> NewSession]
    /\ wait_sem = [s \in Session |-> 0]
    /\ ids = CHARISMA_MAX_TRNS_NUMBER
    /\ ro_tr_count = 0
    /\ exclusive_sid = NoSession
    /\ wait_list = <<>>
    /\ running = TRUE
    /\ concurrent_trns_sem = CHARISMA_MAX_TRNS_NUMBER
    /\ checkpoint_on = FALSE
    /\ WaitCheckpoint = 0
    /\ start_checkpoint_snapshot = FALSE
    /\ end_of_rotr_event = FALSE
    /\ thread = NewThread

\* The thread advances snapshots with the giant lock held, unless it makes a checkpoint.
GiantLockFree == thread.pc \notin {"advance_locked", "wait_locked"}
Goto(s, label) == tr' = [tr EXCEPT ![s].pc = label]

-----------------------------------------------------------------------------
\* The server side of identifiers and exclusive mode.
IsOpen(s) == tr[s].pc # "closed"
ActiveUpdaters(free, readers) == CHARISMA_MAX_TRNS_NUMBER - free - readers

\* Mutant: other updaters are not waited for.
xmTryToStartAtOnce(sid, free, readers) ==
    /\ wait_sem' = [wait_sem EXCEPT ![sid] = @ + 1]
    /\ running' = running

\* Mutant: the exclusive session does not count itself.
xmTryToStartTooLate(sid, free, readers) ==
    LET wake == ActiveUpdaters(free, readers) = 0
    IN /\ wait_sem' = [wait_sem EXCEPT ![sid] = IF wake /\ IsOpen(sid) THEN @ + 1 ELSE @]
       /\ running' = (wake => IsOpen(sid))

\* The exclusive session is woken when it is the only updater.
xmTryToStartExclusive(sid, free, readers) ==
    LET wake == ActiveUpdaters(free, readers) = 1
    IN /\ wait_sem' = [wait_sem EXCEPT ![sid] = IF wake /\ IsOpen(sid) THEN @ + 1 ELSE @]
       /\ running' = (wake => IsOpen(sid))

\* Mutant: the list is not cleared.
xmExitKeepingList ==
    /\ exclusive_sid' = NoSession
    /\ wait_sem' = [s \in Session |-> wait_sem[s] + Cardinality({i \in DOMAIN wait_list : wait_list[i] = s})]
    /\ UNCHANGED <<wait_list, running>>

\* Everybody who was blocked may try again; a session that is gone is a fault.
xmExitExclusiveMode ==
    IF \A i \in DOMAIN wait_list : IsOpen(wait_list[i])
    THEN /\ exclusive_sid' = NoSession
         /\ wait_list' = <<>>
         /\ wait_sem' = [s \in Session |-> wait_sem[s] + Cardinality({i \in DOMAIN wait_list : wait_list[i] = s})]
         /\ UNCHANGED running
    ELSE /\ running' = FALSE
         /\ UNCHANGED <<exclusive_sid, wait_list, wait_sem>>

\* Mutant: the token that an earlier checkpoint left is not taken.
llActivateKeepingToken ==
    /\ checkpoint_on' = TRUE
    /\ start_checkpoint_snapshot' = TRUE
    /\ UNCHANGED WaitCheckpoint

\* Asking the thread for a checkpoint; a token that an earlier one left is taken.
llActivateCheckpoint ==
    /\ checkpoint_on' = TRUE
    /\ start_checkpoint_snapshot' = TRUE
    /\ WaitCheckpoint' = IF WaitCheckpoint > 0 THEN WaitCheckpoint - 1 ELSE 0

-----------------------------------------------------------------------------
\* A session begins a transaction in the mode its options say.
Begin(s, mode) ==
    /\ tr[s].pc = "idle"
    /\ tr' = [tr EXCEPT ![s].pc = "get_id", ![s].mode = mode, ![s].begun = mode, ![s].saved = FALSE]
    /\ UNCHANGED <<idVars, concurrent_trns_sem, llVars, end_of_rotr_event, thread>>

\* Message 1 while a session is exclusive: an updater comes again later.
BlockSession(s) ==
    /\ tr[s].pc = "get_id" /\ GiantLockFree
    /\ exclusive_sid # NoSession /\ tr[s].mode # "read_only"
    /\ wait_list' = Append(wait_list, s)
    /\ Goto(s, "blocked")
    /\ UNCHANGED <<wait_sem, ids, ro_tr_count, exclusive_sid, running, concurrent_trns_sem, llVars,
                   end_of_rotr_event, thread>>

\* Message 1: an identifier.  A log-less session enters exclusive mode and waits its turn.
GetTransactionId(s) ==
    /\ tr[s].pc = "get_id" /\ GiantLockFree
    /\ exclusive_sid = NoSession \/ tr[s].mode = "read_only"
    /\ ids > 0
    /\ ids' = ids - 1
    /\ ro_tr_count' = IF tr[s].mode = "read_only" THEN ro_tr_count + 1 ELSE ro_tr_count
    /\ IF tr[s].mode = "log_less"
       THEN /\ exclusive_sid' = s
            /\ xmTryToStartExclusive(s, ids', ro_tr_count')
            /\ Goto(s, "wait_exclusive")
       ELSE /\ Goto(s, IF tr[s].begun = "read_only" THEN "register" ELSE "take_sem")
            /\ UNCHANGED <<exclusive_sid, wait_sem, running>>
    /\ UNCHANGED <<wait_list, concurrent_trns_sem, llVars, end_of_rotr_event, thread>>

WaitForSmToUnblock(s) ==
    /\ tr[s].pc \in {"blocked", "wait_exclusive"}
    /\ wait_sem[s] > 0
    /\ wait_sem' = [wait_sem EXCEPT ![s] = @ - 1]
    /\ Goto(s, IF tr[s].pc = "blocked" THEN "get_id" ELSE "take_sem")
    /\ UNCHANGED <<ids, ro_tr_count, exclusive_sid, wait_list, running, concurrent_trns_sem, llVars,
                   end_of_rotr_event, thread>>

\* The wait notices that the session is told to stop.  The transaction, which has no row of
\* the version table yet, is rolled back like any other: message 38 is a fault if the row
\* belongs to a completed transaction, and a unit is given back that was never taken.
StopWhileWaiting(s) ==
    /\ s \in Stoppable
    /\ tr[s].pc \in {"blocked", "wait_exclusive"} /\ GiantLockFree
    /\ running' = ~tr[s].isCompleted
    /\ concurrent_trns_sem' = IF tr[s].isCompleted THEN concurrent_trns_sem ELSE concurrent_trns_sem + 1
    /\ tr' = [tr EXCEPT ![s].pc = "stopped", ![s].isCompleted = TRUE]
    /\ UNCHANGED <<wait_sem, ids, ro_tr_count, exclusive_sid, wait_list, llVars, end_of_rotr_event, thread>>

\* Mutant: the unit is not taken.
DownNothing(s) ==
    /\ tr[s].pc = "take_sem"
    /\ Goto(s, "register")
    /\ UNCHANGED <<idVars, concurrent_trns_sem, llVars, end_of_rotr_event, thread>>

DownTransactionBlockSems(s) ==
    /\ tr[s].pc = "take_sem"
    /\ concurrent_trns_sem > 0
    /\ concurrent_trns_sem' = concurrent_trns_sem - 1
    /\ Goto(s, "register")
    /\ UNCHANGED <<idVars, llVars, end_of_rotr_event, thread>>

\* Message 35.
RegisterTransaction(s) ==
    /\ tr[s].pc = "register" /\ GiantLockFree
    /\ tr' = [tr EXCEPT ![s].pc = "work", ![s].isCompleted = FALSE,
                        ![s].snapshot = IF tr[s].begun = "read_only" THEN "current" ELSE "none"]
    /\ UNCHANGED <<idVars, concurrent_trns_sem, llVars, end_of_rotr_event, thread>>

\* The client changes the options inside the transaction.  A change that ends as another
\* kind of transaction than it began leaves ro_tr_count wrong, hence the bound.
SetSessionOptions(s, mode) ==
    /\ ro_tr_count \in (1 - MaxDrift)..(MaxDrift - 1)
    /\ tr[s].pc = "work" /\ tr[s].mode # mode
    /\ tr' = [tr EXCEPT ![s].mode = mode]
    /\ UNCHANGED <<idVars, concurrent_trns_sem, llVars, end_of_rotr_event, thread>>

-----------------------------------------------------------------------------
\* The end of a transaction, message 38 first.  A reader leaves its snapshot when it
\* commits; a log-less commit goes on to give back its unit and to wait for a checkpoint.
NeedCheckpoint(s) == tr[s].begun = "log_less" /\ tr[s].isCommit

ReportToWu(s, commit) ==
    /\ tr[s].pc = "work" /\ GiantLockFree
    /\ tr' = [tr EXCEPT ![s].isCommit = commit, ![s].isCompleted = TRUE,
                        ![s].snapshot = IF commit THEN "none" ELSE @,
                        ![s].pc = IF commit /\ tr[s].begun = "log_less" THEN "release_sem" ELSE "unregister"]
    /\ UNCHANGED <<idVars, concurrent_trns_sem, llVars, end_of_rotr_event, thread>>

ReleaseSem(s) ==
    /\ tr[s].pc = "release_sem"
    /\ concurrent_trns_sem' = concurrent_trns_sem + 1
    /\ Goto(s, "activate")
    /\ UNCHANGED <<idVars, llVars, end_of_rotr_event, thread>>

\* It tries again as long as a checkpoint is being made.
ActivateAndWait(s) ==
    /\ tr[s].pc = "activate"
    /\ ~checkpoint_on
    /\ llActivateCheckpoint
    /\ Goto(s, "wait_checkpoint")
    /\ UNCHANGED <<idVars, concurrent_trns_sem, end_of_rotr_event, thread>>

llOnCheckpointWait(s) ==
    /\ tr[s].pc = "wait_checkpoint"
    /\ WaitCheckpoint > 0
    /\ WaitCheckpoint' = WaitCheckpoint - 1
    /\ Goto(s, "unregister")
    /\ UNCHANGED <<idVars, concurrent_trns_sem, checkpoint_on, start_checkpoint_snapshot, end_of_rotr_event,
                   thread>>

\* Message 36.
UnregisterTransaction(s) ==
    /\ tr[s].pc = "unregister" /\ GiantLockFree
    /\ tr' = [tr EXCEPT ![s].pc = "give_id", ![s].snapshot = "none"]
    /\ UNCHANGED <<idVars, concurrent_trns_sem, llVars, end_of_rotr_event, thread>>

\* Mutant: its end is not announced.
GiveReaderIdSilently(s) ==
    /\ tr[s].pc = "give_id" /\ GiantLockFree
    /\ tr[s].mode = "read_only"
    /\ ids' = ids + 1
    /\ ro_tr_count' = ro_tr_count - 1
    /\ Goto(s, "up_sem")
    /\ UNCHANGED <<wait_sem, exclusive_sid, wait_list, running, concurrent_trns_sem, llVars, end_of_rotr_event,
                   thread>>

\* Message 2 of a reader.
GiveReaderId(s) ==
    /\ tr[s].pc = "give_id" /\ GiantLockFree
    /\ tr[s].mode = "read_only"
    /\ ids' = ids + 1
    /\ ro_tr_count' = ro_tr_count - 1
    /\ end_of_rotr_event' = TRUE
    /\ Goto(s, "up_sem")
    /\ UNCHANGED <<wait_sem, exclusive_sid, wait_list, running, concurrent_trns_sem, llVars, thread>>

\* Message 2 of an updater.  A log that has grown asks for a checkpoint, otherwise the
\* thread only looks whether to advance the snapshots.
GiveUpdaterId(s, llNeedCheckpoint) ==
    /\ tr[s].pc = "give_id" /\ GiantLockFree
    /\ tr[s].mode # "read_only"
    /\ ids' = ids + 1
    /\ \/ llNeedCheckpoint /\ ~checkpoint_on /\ llActivateCheckpoint
       \/ llNeedCheckpoint /\ checkpoint_on /\ UNCHANGED llVars
       \/ /\ ~llNeedCheckpoint
          /\ start_checkpoint_snapshot' = TRUE
          /\ UNCHANGED <<checkpoint_on, WaitCheckpoint>>
    /\ \/ s = exclusive_sid /\ xmExitExclusiveMode
       \/ /\ exclusive_sid \notin {s, NoSession}
          /\ xmTryToStartExclusive(exclusive_sid, ids', ro_tr_count)
          /\ UNCHANGED <<exclusive_sid, wait_list>>
       \/ exclusive_sid = NoSession /\ UNCHANGED <<wait_sem, exclusive_sid, wait_list, running>>
    /\ Goto(s, "up_sem")
    /\ UNCHANGED <<ro_tr_count, concurrent_trns_sem, end_of_rotr_event, thread>>

UpTransactionBlockSems(s) ==
    /\ tr[s].pc = "up_sem"
    /\ concurrent_trns_sem' = IF tr[s].begun = "read_only" \/ NeedCheckpoint(s)
                              THEN concurrent_trns_sem ELSE concurrent_trns_sem + 1
    /\ tr' = [tr EXCEPT ![s] = [NewSession EXCEPT !.isCompleted = TRUE]]
    /\ UNCHANGED <<idVars, llVars, end_of_rotr_event, thread>>

\* The session ends and removes its semaphore.
CloseSession(s) ==
    /\ tr[s].pc \in {"idle", "stopped"}
    /\ wait_sem' = [wait_sem EXCEPT ![s] = 0]
    /\ Goto(s, "closed")
    /\ UNCHANGED <<ids, ro_tr_count, exclusive_sid, wait_list, running, concurrent_trns_sem, llVars,
                   end_of_rotr_event, thread>>

-----------------------------------------------------------------------------
\* The checkpoint thread.
Shutdown ==
    /\ \A s \in Session : tr[s].pc = "closed"
    /\ ~thread.shutdown
    /\ thread' = [thread EXCEPT !.shutdown = TRUE]
    /\ start_checkpoint_snapshot' = TRUE
    /\ UNCHANGED <<tr, idVars, concurrent_trns_sem, checkpoint_on, WaitCheckpoint, end_of_rotr_event>>

WaitStart ==
    /\ thread.pc = "wait" /\ start_checkpoint_snapshot
    /\ start_checkpoint_snapshot' = FALSE
    /\ thread' = [thread EXCEPT !.pc = "woken", !.stopping = thread.shutdown]
    /\ UNCHANGED <<tr, idVars, concurrent_trns_sem, checkpoint_on, WaitCheckpoint, end_of_rotr_event>>

Decide(criterion) ==
    /\ thread.pc = "woken"
    /\ thread' = [thread EXCEPT !.pc = IF thread.stopping \/ checkpoint_on THEN "down_checkpoint"
                                       ELSE IF criterion THEN "down_advance" ELSE "wait"]
    /\ UNCHANGED <<tr, idVars, concurrent_trns_sem, llVars, end_of_rotr_event>>

DownUnit ==
    /\ thread.pc \in {"down_checkpoint", "down_advance"}
    /\ concurrent_trns_sem > 0
    /\ concurrent_trns_sem' = concurrent_trns_sem - 1
    /\ thread' = [thread EXCEPT !.held = @ + 1,
                     !.pc = IF thread.held + 1 < CHARISMA_MAX_TRNS_NUMBER THEN @
                            ELSE IF @ = "down_checkpoint" THEN "advance" ELSE "advance_locked"]
    /\ UNCHANGED <<tr, idVars, llVars, end_of_rotr_event>>

\* WuTryAdvanceSnapshots: impossible while readers are on two snapshots.
ReadersOn(snapshot) == {s \in Session : tr[s].snapshot = snapshot}
CanAdvance == ReadersOn("current") = {} \/ ReadersOn("older") = {}

AdvanceSnapshots ==
    /\ thread.pc \in {"advance", "advance_locked"}
    /\ CanAdvance
    /\ tr' = [s \in Session |-> [tr[s] EXCEPT !.snapshot = IF @ = "current" THEN "older" ELSE @]]
    /\ thread' = [thread EXCEPT !.pc = IF @ = "advance" THEN "checkpoint" ELSE "up_advance"]
    /\ UNCHANGED <<idVars, concurrent_trns_sem, llVars, end_of_rotr_event>>

AdvanceFails ==
    /\ thread.pc \in {"advance", "advance_locked"}
    /\ ~CanAdvance
    /\ thread' = [thread EXCEPT !.pc = IF @ = "advance" THEN "wait_rotr" ELSE "wait_locked"]
    /\ UNCHANGED <<tr, idVars, concurrent_trns_sem, llVars, end_of_rotr_event>>

WaitEndOfRotr ==
    /\ thread.pc \in {"wait_rotr", "wait_locked"}
    /\ end_of_rotr_event
    /\ end_of_rotr_event' = FALSE
    /\ thread' = [thread EXCEPT !.pc = IF @ = "wait_rotr" THEN "advance" ELSE "advance_locked"]
    /\ UNCHANGED <<tr, idVars, concurrent_trns_sem, llVars>>

\* The checkpoint itself, under the giant lock: whatever has been reported is on disk.
MakeCheckpoint ==
    /\ thread.pc = "checkpoint"
    /\ tr' = [s \in Session |-> [tr[s] EXCEPT !.saved =
                  @ \/ tr[s].pc \in {"release_sem", "activate", "wait_checkpoint"}]]
    /\ thread' = [thread EXCEPT !.pc = "up_checkpoint"]
    /\ UNCHANGED <<idVars, concurrent_trns_sem, llVars, end_of_rotr_event>>

UpUnit ==
    /\ thread.pc \in {"up_checkpoint", "up_advance"}
    /\ concurrent_trns_sem' = concurrent_trns_sem + 1
    /\ thread' = [thread EXCEPT !.held = @ - 1,
                     !.pc = IF thread.held > 1 THEN @ ELSE IF @ = "up_checkpoint" THEN "finish" ELSE "wait"]
    /\ UNCHANGED <<tr, idVars, llVars, end_of_rotr_event>>


llOnCheckpointFinish ==
    /\ thread.pc = "finish"
    /\ checkpoint_on' = FALSE
    /\ WaitCheckpoint' = IF checkpoint_on THEN WaitCheckpoint + 1 ELSE WaitCheckpoint
    /\ thread' = [thread EXCEPT !.pc = IF thread.stopping THEN "done" ELSE "wait"]
    /\ UNCHANGED <<tr, idVars, concurrent_trns_sem, start_checkpoint_snapshot, end_of_rotr_event>>

-----------------------------------------------------------------------------
\* What a session does without its client.
SessionStep(s) ==
    \/ BlockSession(s)
    \/ GetTransactionId(s)
    \/ WaitForSmToUnblock(s)
    \/ DownTransactionBlockSems(s)
    \/ RegisterTransaction(s)
    \/ \E commit \in BOOLEAN : ReportToWu(s, commit)
    \/ ReleaseSem(s)
    \/ ActivateAndWait(s)
    \/ llOnCheckpointWait(s)
    \/ UnregisterTransaction(s)
    \/ GiveReaderId(s)
    \/ \E need \in BOOLEAN : GiveUpdaterId(s, need)
    \/ UpTransactionBlockSems(s)

ThreadStep ==
    \/ WaitStart
    \/ \E criterion \in {FALSE, Advances} : Decide(criterion)
    \/ DownUnit
    \/ AdvanceSnapshots
    \/ AdvanceFails
    \/ WaitEndOfRotr
    \/ MakeCheckpoint
    \/ UpUnit
    \/ llOnCheckpointFinish

Terminated == (~running \/ thread.pc = "done") /\ UNCHANGED vars

Next ==
    \/ running /\ \/ \E s \in Session : \/ SessionStep(s)
                                        \/ \E mode \in ModesOf(s) : Begin(s, mode) \/ SetSessionOptions(s, mode)
                                        \/ StopWhileWaiting(s)
                                        \/ CloseSession(s)
                  \/ Shutdown
                  \/ ThreadStep
    \/ Terminated

Spec == Init /\ [][Next]_vars

-----------------------------------------------------------------------------
SessionPc == {"idle", "get_id", "blocked", "wait_exclusive", "take_sem", "register", "work", "release_sem",
              "activate", "wait_checkpoint", "unregister", "give_id", "up_sem", "stopped", "closed"}
ThreadPc == {"wait", "woken", "down_checkpoint", "down_advance", "advance", "advance_locked", "wait_rotr",
             "wait_locked", "checkpoint", "up_checkpoint", "up_advance", "finish", "done"}

TypeOK ==
    /\ tr \in [Session -> [pc : SessionPc, mode : Mode, begun : Mode, isCommit : BOOLEAN,
                           isCompleted : BOOLEAN, snapshot : {"none", "current", "older"}, saved : BOOLEAN]]
    /\ wait_sem \in [Session -> Nat]
    /\ ids \in 0..CHARISMA_MAX_TRNS_NUMBER
    /\ ro_tr_count \in Int
    /\ exclusive_sid \in Session \cup {NoSession}
    /\ wait_list \in Seq(Session)
    /\ running \in BOOLEAN
    /\ concurrent_trns_sem \in Nat
    /\ checkpoint_on \in BOOLEAN
    /\ WaitCheckpoint \in Nat
    /\ start_checkpoint_snapshot \in BOOLEAN
    /\ end_of_rotr_event \in BOOLEAN
    /\ thread \in [pc : ThreadPc, held : 0..CHARISMA_MAX_TRNS_NUMBER, shutdown : BOOLEAN, stopping : BOOLEAN]

\* The sessions that have an identifier, and those of them that work on the database.
HasId(s) == tr[s].pc \notin {"idle", "get_id", "blocked", "up_sem", "stopped", "closed"}
Updates(s) == tr[s].begun # "read_only" /\ HasId(s)
IsWorking(s) == tr[s].begun # "read_only" /\ tr[s].pc \in {"register", "work"}

\* "wake exclusive transaction only if we've got no other updaters": while a log-less
\* transaction works no other transaction updates.
ExclusiveAlone ==
    \A s, t \in Session : s # t /\ tr[s].begun = "log_less" /\ Updates(s) /\ tr[s].pc # "wait_exclusive"
                             => ~Updates(t)

\* "checkpoint cannot begin without all transactions being in finished states": while the
\* thread advances snapshots or makes a checkpoint no updater works.
CheckpointQuiescent ==
    thread.pc \in {"advance", "advance_locked", "wait_rotr", "wait_locked", "checkpoint"}
       => \A s \in Session : ~IsWorking(s)

\* A log-less commit, which cannot be redone from the log, returns only after a checkpoint
\* that was made after the transaction reported its end: no token of an earlier checkpoint
\* and no checkpoint that was already under way lets it go.
LogLessCommitIsSaved ==
    \A s \in Session : NeedCheckpoint(s) /\ tr[s].pc \in {"unregister", "give_id", "up_sem"} => tr[s].saved

\* The tables agree with the sessions: an identifier is missing for each session that has
\* one, so that message 1 never finds the table empty, and the readers are counted.
IdsAreAccountedFor ==
    /\ ids = CHARISMA_MAX_TRNS_NUMBER - Cardinality({s \in Session : HasId(s)})
    /\ ro_tr_count = Cardinality({s \in Session : HasId(s) /\ tr[s].begun = "read_only"})

\* "Transaction is rolled back, because server is stopping" (error SE4608): stopping a
\* session that waits for its identifier does no harm to the storage manager.  The code
\* does not guarantee it (README, section 4).
StoppingIsHarmless == running

\* A session that is not waiting has no wake-up left over, which its next wait would take
\* for its own, and everybody who is blocked is in the list or has been woken.
NoStaleWakeUp ==
    \A s \in Session :
       LET listed == Cardinality({i \in DOMAIN wait_list : wait_list[i] = s})
       IN /\ tr[s].pc \notin {"blocked", "wait_exclusive"} => wait_sem[s] = 0 /\ listed = 0
          /\ tr[s].pc = "blocked" => wait_sem[s] + listed = 1

\* The storage manager's account of its sessions is right after every interleaving of
\* requests, refusals and wake-ups: the identifiers and readers it counts are those the
\* sessions have, and each session that waits has one wake-up to come, no other session any.
SessionsAccountedFor == TypeOK /\ IdsAreAccountedFor /\ NoStaleWakeUp

-----------------------------------------------------------------------------
\* Processes are scheduled, and a semaphore serves the processes that wait for it.
Fairness ==
    /\ \A s \in Session : WF_vars(running /\ SessionStep(s)) /\ SF_vars(running /\ DownTransactionBlockSems(s))
    /\ WF_vars(running /\ ThreadStep) /\ SF_vars(running /\ DownUnit)

FairSpec == Spec /\ Fairness

\* A session that has entered exclusive mode gets its turn.
ExclusiveStarts == \A s \in Session : exclusive_sid = s ~> tr[s].pc # "wait_exclusive"


\* The checkpoint thread always comes back to wait for the next event, or ends.
ThreadComesBack == thread.pc = "woken" ~> thread.pc \in {"wait", "done"}
=============================================================================
