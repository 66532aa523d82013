---------------------------- MODULE TrMgrProofs -----------------------------
(***************************************************************************)
(* Proofs about TrMgr, for any number of sessions and of semaphore units.  *)
(*                                                                         *)
(* CheckpointInv: the flag, the token and the checkpoint thread; from it   *)
(* a log-less commit is saved when it returns, whatever clients change or  *)
(* stop.  UnitsInv: the units of the semaphore that are free, held by the  *)
(* thread and held by updaters add up; from it no updater works during a   *)
(* checkpoint, unless sessions are stopped while they wait.  The account   *)
(* of identifiers and wake-ups is in TrMgrAccountProofs.                   *)
(***************************************************************************)
EXTENDS TrMgr, FiniteSetTheorems, TLAPS

SessionRecord == [pc : SessionPc, mode : Mode, begun : Mode, isCommit : BOOLEAN, isCompleted : BOOLEAN,
                  snapshot : {"none", "current", "older"}, saved : BOOLEAN]
ThreadRecord == [pc : ThreadPc, held : Int, shutdown : BOOLEAN, stopping : BOOLEAN]

SessionsTyped == tr \in [Session -> SessionRecord]
ThreadTyped == thread \in ThreadRecord

-----------------------------------------------------------------------------
\* What each step does to the records of the sessions.
OthersStay(s) == \A t \in Session \ {s} : tr'[t] = tr[t]
ModesStay(s) == tr'[s].mode = tr[s].mode /\ tr'[s].begun = tr[s].begun

\* What a session may find in its record.
LEMMA RecordTyped ==
    ASSUME SessionsTyped, NEW s \in Session
    PROVE  /\ tr[s] \in SessionRecord
           /\ tr[s].pc \in SessionPc /\ tr[s].mode \in Mode /\ tr[s].begun \in Mode
           /\ tr[s].isCommit \in BOOLEAN /\ tr[s].isCompleted \in BOOLEAN /\ tr[s].saved \in BOOLEAN
           /\ tr[s].snapshot \in {"none", "current", "older"}
  BY DEF SessionsTyped, SessionRecord

\* Goto changes the label of one session and nothing else.
LEMMA GotoChanges ==
    ASSUME SessionsTyped, NEW s \in Session, NEW label \in SessionPc, Goto(s, label)
    PROVE  /\ SessionsTyped' /\ OthersStay(s) /\ ModesStay(s)
           /\ tr'[s].pc = label
           /\ tr'[s].isCommit = tr[s].isCommit /\ tr'[s].isCompleted = tr[s].isCompleted
           /\ tr'[s].snapshot = tr[s].snapshot /\ tr'[s].saved = tr[s].saved
  BY DEF SessionsTyped, SessionRecord, Goto, OthersStay, ModesStay

\* A session begins a transaction with the mode of its options.
LEMMA BeginChanges ==
    ASSUME SessionsTyped, NEW s \in Session, NEW mode \in ModesOf(s), Begin(s, mode)
    PROVE  /\ SessionsTyped' /\ OthersStay(s)
           /\ tr[s].pc = "idle" /\ tr'[s].pc = "get_id"
           /\ tr'[s].mode = mode /\ tr'[s].begun = mode
  <1>1. mode \in Mode
    BY DEF ModesOf, Mode
  <1>2. tr'[s] = [pc |-> "get_id", mode |-> mode, begun |-> mode, isCommit |-> tr[s].isCommit,
                  isCompleted |-> tr[s].isCompleted, snapshot |-> tr[s].snapshot, saved |-> FALSE]
    BY RecordTyped, ZenonT(30) DEF Begin, SessionsTyped, SessionRecord
  <1>3. tr'[s] \in SessionRecord
    BY <1>1, <1>2, RecordTyped DEF SessionRecord, SessionPc
  <1>4. OthersStay(s) /\ tr' = [t \in Session |-> tr'[t]]
    BY Zenon DEF Begin, SessionsTyped, OthersStay
  <1>5. SessionsTyped'
    BY <1>3, <1>4 DEF SessionsTyped, OthersStay
  <1>6. tr'[s].pc = "get_id" /\ tr'[s].mode = mode /\ tr'[s].begun = mode
    BY <1>2
  <1> QED
    BY <1>4, <1>5, <1>6 DEF Begin

\* Message 35 puts a transaction to work.
LEMMA RegisterChanges ==
    ASSUME SessionsTyped, NEW s \in Session, RegisterTransaction(s)
    PROVE  /\ SessionsTyped' /\ OthersStay(s) /\ ModesStay(s)
           /\ tr[s].pc = "register" /\ tr'[s].pc = "work"
  <1>1. tr'[s] = [tr[s] EXCEPT !.pc = "work", !.isCompleted = FALSE,
                               !.snapshot = IF tr[s].begun = "read_only" THEN "current" ELSE "none"]
    BY DEF RegisterTransaction, SessionsTyped
  <1>2. tr'[s] \in SessionRecord
    BY <1>1, RecordTyped, Zenon DEF SessionRecord, SessionPc
  <1>3. OthersStay(s) /\ tr' = [t \in Session |-> tr'[t]]
    BY Zenon DEF RegisterTransaction, SessionsTyped, OthersStay
  <1>4. SessionsTyped'
    BY <1>2, <1>3 DEF SessionsTyped, OthersStay
  <1>5. tr'[s].pc = "work" /\ ModesStay(s)
    BY <1>1, RecordTyped DEF SessionRecord, ModesStay
  <1> QED
    BY <1>3, <1>4, <1>5 DEF RegisterTransaction

\* An option that changes inside a transaction does not change what it began as.
LEMMA OptionsChange ==
    ASSUME SessionsTyped, NEW s \in Session, NEW mode \in ModesOf(s), SetSessionOptions(s, mode)
    PROVE  /\ SessionsTyped' /\ OthersStay(s)
           /\ tr[s].pc = "work" /\ tr'[s].pc = "work" /\ tr'[s].begun = tr[s].begun
  <1>1. mode \in Mode
    BY DEF ModesOf, Mode
  <1> QED
    BY <1>1 DEF SetSessionOptions, SessionsTyped, SessionRecord, OthersStay

\* Message 38: a log-less commit goes another way than the other ends of a transaction.
LEMMA ReportChanges ==
    ASSUME SessionsTyped, NEW s \in Session, NEW commit \in BOOLEAN, ReportToWu(s, commit)
    PROVE  /\ SessionsTyped' /\ OthersStay(s) /\ ModesStay(s)
           /\ tr[s].pc = "work" /\ tr'[s].isCommit = commit
           /\ \/ tr'[s].pc = "release_sem" /\ commit /\ tr[s].begun = "log_less"
              \/ tr'[s].pc = "unregister" /\ (~commit \/ tr[s].begun # "log_less")
  <1>1. PICK label \in {"release_sem", "unregister"} :
            label = IF commit /\ tr[s].begun = "log_less" THEN "release_sem" ELSE "unregister"
    OBVIOUS
  <1>2. PICK snapshot \in {"none", "current", "older"} : snapshot = IF commit THEN "none" ELSE tr[s].snapshot
    BY RecordTyped
  <1>3. tr'[s] = [tr[s] EXCEPT !.isCommit = commit, !.isCompleted = TRUE, !.snapshot = snapshot, !.pc = label]
    BY <1>1, <1>2 DEF ReportToWu, SessionsTyped, SessionRecord
  <1>4. tr'[s] \in SessionRecord
    BY <1>3, RecordTyped, Zenon DEF SessionRecord, SessionPc
  <1>5. OthersStay(s) /\ tr' = [t \in Session |-> tr'[t]]
    BY Zenon DEF ReportToWu, SessionsTyped, OthersStay
  <1>6. SessionsTyped'
    BY <1>4, <1>5 DEF SessionsTyped, OthersStay
  <1>7. tr'[s].pc = label /\ tr'[s].isCommit = commit /\ ModesStay(s)
    BY <1>3, RecordTyped DEF SessionRecord, ModesStay
  <1> QED
    BY <1>1, <1>5, <1>6, <1>7 DEF ReportToWu

\* Message 36.
LEMMA UnregisterChanges ==
    ASSUME SessionsTyped, NEW s \in Session, UnregisterTransaction(s)
    PROVE  /\ SessionsTyped' /\ OthersStay(s) /\ ModesStay(s)
           /\ tr[s].pc = "unregister" /\ tr'[s].pc = "give_id"
           /\ tr'[s].isCommit = tr[s].isCommit /\ tr'[s].saved = tr[s].saved
  <1>1. tr'[s] = [tr[s] EXCEPT !.pc = "give_id", !.snapshot = "none"]
    BY DEF UnregisterTransaction, SessionsTyped
  <1>2. tr'[s] \in SessionRecord
    BY <1>1, RecordTyped, Zenon DEF SessionRecord, SessionPc
  <1>3. OthersStay(s) /\ tr' = [t \in Session |-> tr'[t]]
    BY Zenon DEF UnregisterTransaction, SessionsTyped, OthersStay
  <1>4. SessionsTyped'
    BY <1>2, <1>3 DEF SessionsTyped, OthersStay
  <1>5. tr'[s].pc = "give_id" /\ ModesStay(s) /\ tr'[s].isCommit = tr[s].isCommit /\ tr'[s].saved = tr[s].saved
    BY <1>1, RecordTyped DEF SessionRecord, ModesStay
  <1> QED
    BY <1>3, <1>4, <1>5 DEF UnregisterTransaction

\* A session that has given back everything is new again.
LEMMA UpChanges ==
    ASSUME SessionsTyped, NEW s \in Session, UpTransactionBlockSems(s)
    PROVE  /\ SessionsTyped' /\ OthersStay(s)
           /\ tr[s].pc = "up_sem" /\ tr'[s].pc = "idle"
           /\ tr'[s].mode = "update" /\ tr'[s].begun = "update"
  BY Zenon DEF UpTransactionBlockSems, NewSession, SessionsTyped, SessionRecord, SessionPc, Mode, OthersStay

\* A session that is stopped while it waits.
LEMMA StopChanges ==
    ASSUME SessionsTyped, NEW s \in Session, StopWhileWaiting(s)
    PROVE  /\ SessionsTyped' /\ OthersStay(s) /\ ModesStay(s)
           /\ tr[s].pc \in {"blocked", "wait_exclusive"} /\ tr'[s].pc = "stopped"
  <1>1. tr'[s] = [tr[s] EXCEPT !.pc = "stopped", !.isCompleted = TRUE]
    BY DEF StopWhileWaiting, SessionsTyped
  <1>2. tr'[s] \in SessionRecord
    BY <1>1, RecordTyped, Zenon DEF SessionRecord, SessionPc
  <1>3. OthersStay(s) /\ tr' = [t \in Session |-> tr'[t]]
    BY Zenon DEF StopWhileWaiting, SessionsTyped, OthersStay
  <1>4. SessionsTyped'
    BY <1>2, <1>3 DEF SessionsTyped, OthersStay
  <1>5. tr'[s].pc = "stopped" /\ ModesStay(s)
    BY <1>1, RecordTyped DEF SessionRecord, ModesStay
  <1> QED
    BY <1>3, <1>4, <1>5 DEF StopWhileWaiting

\* The snapshots advance under the readers, which goes unnoticed otherwise.
LEMMA AdvanceChanges ==
    ASSUME SessionsTyped, AdvanceSnapshots
    PROVE  /\ SessionsTyped'
           /\ \A s \in Session : /\ ModesStay(s)
                                 /\ tr'[s].pc = tr[s].pc /\ tr'[s].isCommit = tr[s].isCommit
                                 /\ tr'[s].saved = tr[s].saved
  BY DEF AdvanceSnapshots, SessionsTyped, SessionRecord, ModesStay

\* A checkpoint saves what has been reported.
LEMMA CheckpointChanges ==
    ASSUME SessionsTyped, MakeCheckpoint
    PROVE  /\ SessionsTyped'
           /\ \A s \in Session : /\ ModesStay(s)
                                 /\ tr'[s].pc = tr[s].pc /\ tr'[s].isCommit = tr[s].isCommit
                                 /\ tr[s].saved \/ tr[s].pc = "wait_checkpoint" => tr'[s].saved
  BY Zenon DEF MakeCheckpoint, SessionsTyped, SessionRecord, ModesStay

-----------------------------------------------------------------------------
\* What each step does to the thread.
ShutdownStays == thread'.shutdown = thread.shutdown /\ thread'.stopping = thread.stopping

\* The thread moves on without taking or giving back a unit.
LEMMA ThreadMoves ==
    ASSUME ThreadTyped, NEW label \in ThreadPc, thread' = [thread EXCEPT !.pc = label]
    PROVE  ThreadTyped' /\ ShutdownStays /\ thread'.pc = label /\ thread'.held = thread.held
  BY DEF ThreadTyped, ThreadRecord, ShutdownStays

\* The thread is told to shut down.
LEMMA ShutdownChanges ==
    ASSUME ThreadTyped, Shutdown
    PROVE  ThreadTyped' /\ thread'.pc = thread.pc /\ thread'.held = thread.held
  BY Zenon DEF Shutdown, ThreadTyped, ThreadRecord

\* The thread wakes up and looks whether it is to stop.
LEMMA WaitStartChanges ==
    ASSUME ThreadTyped, WaitStart
    PROVE  /\ ThreadTyped' /\ thread.pc = "wait" /\ thread'.pc = "woken" /\ thread'.held = thread.held
           /\ thread'.shutdown = thread.shutdown /\ thread'.stopping = thread.shutdown
  BY Zenon DEF WaitStart, ThreadTyped, ThreadRecord, ThreadPc

\* The thread takes a unit; with the last one it goes on.
LEMMA DownUnitChanges ==
    ASSUME ThreadTyped, DownUnit
    PROVE  /\ ThreadTyped' /\ ShutdownStays
           /\ thread'.held = thread.held + 1
           /\ thread.pc \in {"down_checkpoint", "down_advance"}
           /\ \/ thread'.pc = thread.pc /\ thread'.held < CHARISMA_MAX_TRNS_NUMBER
              \/ /\ thread'.pc = IF thread.pc = "down_checkpoint" THEN "advance" ELSE "advance_locked"
                 /\ ~(thread'.held < CHARISMA_MAX_TRNS_NUMBER)
  <1>1. thread'.held = thread.held + 1 /\ thread'.held \in Int
    BY DEF DownUnit, ThreadTyped, ThreadRecord
  <1>2. thread'.pc = IF thread.held + 1 < CHARISMA_MAX_TRNS_NUMBER THEN thread.pc
                     ELSE IF thread.pc = "down_checkpoint" THEN "advance" ELSE "advance_locked"
    BY DEF DownUnit, ThreadTyped, ThreadRecord
  <1>3. thread'.pc \in ThreadPc /\ thread.pc \in {"down_checkpoint", "down_advance"}
    BY <1>2 DEF DownUnit, ThreadTyped, ThreadRecord, ThreadPc
  <1>4. ShutdownStays
    BY DEF DownUnit, ThreadTyped, ThreadRecord, ShutdownStays
  <1>5. ThreadTyped'
    BY <1>1, <1>3, Zenon DEF DownUnit, ThreadTyped, ThreadRecord
  <1> QED
    BY <1>1, <1>2, <1>3, <1>4, <1>5

\* The thread gives a unit back; with the last one it goes on.
LEMMA UpUnitChanges ==
    ASSUME ThreadTyped, UpUnit
    PROVE  /\ ThreadTyped' /\ ShutdownStays
           /\ thread'.held = thread.held - 1
           /\ thread.pc \in {"up_checkpoint", "up_advance"}
           /\ \/ thread'.pc = thread.pc /\ thread.held > 1
              \/ /\ thread'.pc = IF thread.pc = "up_checkpoint" THEN "finish" ELSE "wait"
                 /\ ~(thread.held > 1)
  <1>1. thread'.held = thread.held - 1 /\ thread'.held \in Int
    BY DEF UpUnit, ThreadTyped, ThreadRecord
  <1>2. thread'.pc = IF thread.held > 1 THEN thread.pc ELSE IF thread.pc = "up_checkpoint" THEN "finish" ELSE "wait"
    BY DEF UpUnit, ThreadTyped, ThreadRecord
  <1>3. thread'.pc \in ThreadPc /\ thread.pc \in {"up_checkpoint", "up_advance"}
    BY <1>2 DEF UpUnit, ThreadTyped, ThreadRecord, ThreadPc
  <1>4. ShutdownStays
    BY DEF UpUnit, ThreadTyped, ThreadRecord, ShutdownStays
  <1>5. ThreadTyped'
    BY <1>1, <1>3, Zenon DEF UpUnit, ThreadTyped, ThreadRecord
  <1> QED
    BY <1>1, <1>2, <1>3, <1>4, <1>5

-----------------------------------------------------------------------------
\* Checkpoints and log-less commits.
CheckpointPc == {"down_checkpoint", "advance", "wait_rotr", "checkpoint", "up_checkpoint", "finish"}

\* A session that waits for its checkpoint is saved, or the checkpoint it asked for is still to be made.
Awaits(s) ==
    tr[s].pc = "wait_checkpoint" =>
       tr[s].saved \/ (WaitCheckpoint = 0 /\ checkpoint_on /\ thread.pc \notin {"up_checkpoint", "finish"})

Saved(s) == NeedCheckpoint(s) /\ tr[s].pc \in {"unregister", "give_id", "up_sem"} => tr[s].saved

FlagsTyped == checkpoint_on \in BOOLEAN /\ WaitCheckpoint \in {0, 1}

\* The thread shuts down when all sessions are closed.
ShutdownLast == thread.shutdown \/ thread.stopping => \A s \in Session : tr[s].pc = "closed"

\* A checkpoint that is being made was asked for, or is the last one; its token is not there yet.
CheckpointAsked ==
    /\ thread.pc \in CheckpointPc => thread.stopping \/ checkpoint_on
    /\ checkpoint_on => WaitCheckpoint = 0

CheckpointInv ==
    /\ SessionsTyped /\ ThreadTyped /\ FlagsTyped
    /\ ShutdownLast
    /\ CheckpointAsked
    /\ \A s \in Session : Awaits(s)
    /\ \A s \in Session : Saved(s)

\* The invariant holds when the storage manager starts.
LEMMA CheckpointInvInit == Init => CheckpointInv
  <1> SUFFICES ASSUME Init PROVE CheckpointInv
    OBVIOUS
  <1>1. SessionsTyped
    BY DEF Init, NewSession, SessionsTyped, SessionRecord, SessionPc, Mode
  <1>2. ThreadTyped
    BY DEF Init, NewThread, ThreadTyped, ThreadRecord, ThreadPc
  <1>3. FlagsTyped
    BY Zenon DEF Init, FlagsTyped
  <1>4. ShutdownLast /\ CheckpointAsked
    BY DEF Init, NewThread, ShutdownLast, CheckpointAsked, CheckpointPc
  <1>5. \A s \in Session : Awaits(s) /\ Saved(s)
    BY DEF Init, NewSession, Awaits, Saved
  <1> QED
    BY <1>1, <1>2, <1>3, <1>4, <1>5 DEF CheckpointInv

\* A step of one session that leaves the flags, the thread and the token alone.
LEMMA QuietStep ==
    ASSUME CheckpointInv, NEW s \in Session, SessionsTyped', OthersStay(s),
           UNCHANGED <<checkpoint_on, WaitCheckpoint, thread>>,
           tr[s].pc # "closed",
           Awaits(s)', Saved(s)'
    PROVE  CheckpointInv'
  <1>1. ThreadTyped' /\ FlagsTyped' /\ CheckpointAsked'
    BY DEF CheckpointInv, ThreadTyped, FlagsTyped, CheckpointAsked
  <1>2. ShutdownLast'
    BY DEF CheckpointInv, ShutdownLast
  <1>3. \A t \in Session : Awaits(t)'
    BY DEF CheckpointInv, Awaits, OthersStay
  <1>4. \A t \in Session : Saved(t)'
    BY DEF CheckpointInv, Saved, NeedCheckpoint, OthersStay
  <1> QED
    BY <1>1, <1>2, <1>3, <1>4 DEF CheckpointInv

\* A step of one session that asks for a checkpoint while none is made: none is under way then.
LEMMA ActivateStep ==
    ASSUME CheckpointInv, NEW s \in Session, SessionsTyped', OthersStay(s),
           ~checkpoint_on, llActivateCheckpoint, thread' = thread,
           tr[s].pc # "closed",
           Saved(s)'
    PROVE  CheckpointInv'
  <1>1. checkpoint_on' = TRUE /\ WaitCheckpoint' = 0
    BY DEF llActivateCheckpoint, CheckpointInv, FlagsTyped
  <1>2. ~thread.stopping /\ ~thread.shutdown /\ thread.pc \notin CheckpointPc
    BY DEF CheckpointInv, ShutdownLast, CheckpointAsked
  <1>3. ThreadTyped' /\ FlagsTyped' /\ ShutdownLast' /\ CheckpointAsked'
    BY <1>1, <1>2 DEF CheckpointInv, ThreadTyped, FlagsTyped, ShutdownLast, CheckpointAsked
  <1>4. \A t \in Session : Awaits(t)'
    BY <1>1, <1>2 DEF Awaits, CheckpointPc
  <1>5. \A t \in Session : Saved(t)'
    BY DEF CheckpointInv, Saved, NeedCheckpoint, OthersStay
  <1> QED
    BY <1>3, <1>4, <1>5 DEF CheckpointInv

\* A step of the thread that changes no flag.
LEMMA ThreadOnlyStep ==
    ASSUME CheckpointInv, UNCHANGED <<tr, checkpoint_on, WaitCheckpoint>>, ThreadTyped', ShutdownStays,
           thread'.pc \in CheckpointPc => thread.pc \in CheckpointPc \/ thread.stopping \/ checkpoint_on,
           thread'.pc \in {"up_checkpoint", "finish"} => thread.pc = "up_checkpoint"
    PROVE  CheckpointInv'
  <1>1. SessionsTyped' /\ FlagsTyped'
    BY DEF CheckpointInv, SessionsTyped, FlagsTyped
  <1>2. ShutdownLast' /\ CheckpointAsked'
    BY DEF CheckpointInv, ShutdownLast, CheckpointAsked, ShutdownStays
  <1>3. \A t \in Session : Awaits(t)' /\ Saved(t)'
    BY DEF CheckpointInv, Awaits, Saved, NeedCheckpoint
  <1> QED
    BY <1>1, <1>2, <1>3 DEF CheckpointInv

\* Every step keeps the invariant.
LEMMA CheckpointInvStep == CheckpointInv /\ [Next]_vars => CheckpointInv'
  <1> SUFFICES ASSUME CheckpointInv, [Next]_vars
               PROVE  CheckpointInv'
    OBVIOUS
  <1>1. SessionsTyped /\ ThreadTyped
    BY DEF CheckpointInv
  <1>2. CASE UNCHANGED vars
    BY <1>2 DEF vars, llVars, CheckpointInv, SessionsTyped, ThreadTyped, FlagsTyped, ShutdownLast,
                CheckpointAsked, Awaits, Saved, NeedCheckpoint
  <1>3. ASSUME NEW s \in Session, BlockSession(s) PROVE CheckpointInv'
    <2>1. Goto(s, "blocked") /\ tr[s].pc = "get_id" /\ UNCHANGED <<checkpoint_on, WaitCheckpoint, thread>>
      BY <1>3 DEF BlockSession, llVars
    <2> QED
      BY <2>1, <1>1, GotoChanges, QuietStep DEF SessionPc, Awaits, Saved
  <1>4. ASSUME NEW s \in Session, GetTransactionId(s) PROVE CheckpointInv'
    <2>1. PICK label \in {"wait_exclusive", "register", "take_sem"} : Goto(s, label)
      BY <1>4 DEF GetTransactionId
    <2>2. tr[s].pc = "get_id" /\ UNCHANGED <<checkpoint_on, WaitCheckpoint, thread>>
      BY <1>4 DEF GetTransactionId, llVars
    <2> QED
      BY <2>1, <2>2, <1>1, GotoChanges, QuietStep DEF SessionPc, Awaits, Saved
  <1>5. ASSUME NEW s \in Session, WaitForSmToUnblock(s) PROVE CheckpointInv'
    <2>1. PICK label \in {"get_id", "take_sem"} : Goto(s, label)
      BY <1>5 DEF WaitForSmToUnblock
    <2>2. tr[s].pc # "closed" /\ UNCHANGED <<checkpoint_on, WaitCheckpoint, thread>>
      BY <1>5 DEF WaitForSmToUnblock, llVars
    <2> QED
      BY <2>1, <2>2, <1>1, GotoChanges, QuietStep DEF SessionPc, Awaits, Saved
  <1>6. ASSUME NEW s \in Session, DownTransactionBlockSems(s) PROVE CheckpointInv'
    <2>1. Goto(s, "register") /\ tr[s].pc = "take_sem" /\ UNCHANGED <<checkpoint_on, WaitCheckpoint, thread>>
      BY <1>6 DEF DownTransactionBlockSems, llVars
    <2> QED
      BY <2>1, <1>1, GotoChanges, QuietStep DEF SessionPc, Awaits, Saved
  <1>7. ASSUME NEW s \in Session, RegisterTransaction(s) PROVE CheckpointInv'
    <2>1. UNCHANGED <<checkpoint_on, WaitCheckpoint, thread>>
      BY <1>7 DEF RegisterTransaction, llVars
    <2> QED
      BY <1>7, <2>1, <1>1, RegisterChanges, QuietStep DEF Awaits, Saved
  <1>8. ASSUME NEW s \in Session, NEW commit \in BOOLEAN, ReportToWu(s, commit) PROVE CheckpointInv'
    <2>1. UNCHANGED <<checkpoint_on, WaitCheckpoint, thread>>
      BY <1>8 DEF ReportToWu, llVars
    <2>2. Awaits(s)' /\ Saved(s)'
      BY <1>8, <1>1, ReportChanges DEF Awaits, Saved, NeedCheckpoint, ModesStay
    <2> QED
      BY <1>8, <2>1, <2>2, <1>1, ReportChanges, QuietStep
  <1>9. ASSUME NEW s \in Session, ReleaseSem(s) PROVE CheckpointInv'
    <2>1. Goto(s, "activate") /\ tr[s].pc = "release_sem" /\ UNCHANGED <<checkpoint_on, WaitCheckpoint, thread>>
      BY <1>9 DEF ReleaseSem, llVars
    <2> QED
      BY <2>1, <1>1, GotoChanges, QuietStep DEF SessionPc, Awaits, Saved
  <1>10. ASSUME NEW s \in Session, ActivateAndWait(s) PROVE CheckpointInv'
    <2>1. /\ Goto(s, "wait_checkpoint") /\ tr[s].pc = "activate" /\ ~checkpoint_on
          /\ llActivateCheckpoint /\ thread' = thread
      BY <1>10 DEF ActivateAndWait
    <2> QED
      BY <2>1, <1>1, GotoChanges, ActivateStep DEF SessionPc, Saved
  <1>11. ASSUME NEW s \in Session, llOnCheckpointWait(s) PROVE CheckpointInv'
    <2>1. /\ Goto(s, "unregister") /\ tr[s].pc = "wait_checkpoint"
          /\ WaitCheckpoint = 1 /\ WaitCheckpoint' = 0 /\ UNCHANGED <<checkpoint_on, thread>>
      BY <1>11 DEF llOnCheckpointWait, CheckpointInv, FlagsTyped
    <2>2. /\ SessionsTyped' /\ OthersStay(s)
          /\ tr'[s].pc = "unregister" /\ tr'[s].saved = tr[s].saved
      BY <2>1, <1>1, GotoChanges DEF SessionPc
    <2>3. \A t \in Session : tr[t].pc = "wait_checkpoint" => tr[t].saved
      BY <2>1 DEF CheckpointInv, Awaits
    <2>4. ThreadTyped' /\ FlagsTyped' /\ ShutdownLast' /\ CheckpointAsked'
      BY <2>1, <2>2 DEF CheckpointInv, ThreadTyped, FlagsTyped, ShutdownLast, CheckpointAsked
    <2>5. \A t \in Session : Awaits(t)'
      BY <2>2, <2>3 DEF Awaits, OthersStay
    <2>6. \A t \in Session : Saved(t)'
      BY <2>1, <2>2, <2>3 DEF CheckpointInv, Saved, NeedCheckpoint, OthersStay
    <2> QED
      BY <2>2, <2>4, <2>5, <2>6 DEF CheckpointInv
  <1>12. ASSUME NEW s \in Session, UnregisterTransaction(s) PROVE CheckpointInv'
    <2>1. UNCHANGED <<checkpoint_on, WaitCheckpoint, thread>>
      BY <1>12 DEF UnregisterTransaction, llVars
    <2>2. Awaits(s)' /\ Saved(s)'
      BY <1>12, <1>1, UnregisterChanges DEF CheckpointInv, Awaits, Saved, NeedCheckpoint, ModesStay
    <2> QED
      BY <1>12, <2>1, <2>2, <1>1, UnregisterChanges, QuietStep
  <1>13. ASSUME NEW s \in Session, GiveReaderId(s) PROVE CheckpointInv'
    <2>1. Goto(s, "up_sem") /\ tr[s].pc = "give_id" /\ UNCHANGED <<checkpoint_on, WaitCheckpoint, thread>>
      BY <1>13 DEF GiveReaderId, llVars
    <2>2. Awaits(s)' /\ Saved(s)'
      BY <2>1, <1>1, GotoChanges DEF SessionPc, CheckpointInv, Awaits, Saved, NeedCheckpoint, ModesStay
    <2> QED
      BY <2>1, <2>2, <1>1, GotoChanges, QuietStep DEF SessionPc
  <1>14. ASSUME NEW s \in Session, NEW need \in BOOLEAN, GiveUpdaterId(s, need) PROVE CheckpointInv'
    <2>1. Goto(s, "up_sem") /\ tr[s].pc = "give_id" /\ thread' = thread
      BY <1>14 DEF GiveUpdaterId
    <2>2. Awaits(s)' /\ Saved(s)' /\ SessionsTyped' /\ OthersStay(s)
      BY <2>1, <1>1, GotoChanges DEF SessionPc, CheckpointInv, Awaits, Saved, NeedCheckpoint, ModesStay
    <2>3. CASE UNCHANGED <<checkpoint_on, WaitCheckpoint>>
      BY <2>1, <2>2, <2>3, QuietStep
    <2>4. CASE ~checkpoint_on /\ llActivateCheckpoint
      BY <2>1, <2>2, <2>4, ActivateStep
    <2> QED
      BY <1>14, <2>3, <2>4 DEF GiveUpdaterId, llVars
  <1>15. ASSUME NEW s \in Session, UpTransactionBlockSems(s) PROVE CheckpointInv'
    <2>1. UNCHANGED <<checkpoint_on, WaitCheckpoint, thread>>
      BY <1>15 DEF UpTransactionBlockSems, llVars
    <2> QED
      BY <1>15, <2>1, <1>1, UpChanges, QuietStep DEF Awaits, Saved
  <1>16. ASSUME NEW s \in Session, NEW mode \in ModesOf(s), Begin(s, mode) PROVE CheckpointInv'
    <2>1. UNCHANGED <<checkpoint_on, WaitCheckpoint, thread>>
      BY <1>16 DEF Begin, llVars
    <2> QED
      BY <1>16, <2>1, <1>1, BeginChanges, QuietStep DEF Awaits, Saved
  <1>17. ASSUME NEW s \in Session, NEW mode \in ModesOf(s), SetSessionOptions(s, mode) PROVE CheckpointInv'
    <2>1. UNCHANGED <<checkpoint_on, WaitCheckpoint, thread>>
      BY <1>17 DEF SetSessionOptions, llVars
    <2> QED
      BY <1>17, <2>1, <1>1, OptionsChange, QuietStep DEF Awaits, Saved
  <1>18. ASSUME NEW s \in Session, StopWhileWaiting(s) PROVE CheckpointInv'
    <2>1. UNCHANGED <<checkpoint_on, WaitCheckpoint, thread>>
      BY <1>18 DEF StopWhileWaiting, llVars
    <2> QED
      BY <1>18, <2>1, <1>1, StopChanges, QuietStep DEF Awaits, Saved
  <1>19. ASSUME NEW s \in Session, CloseSession(s) PROVE CheckpointInv'
    <2>1. Goto(s, "closed") /\ tr[s].pc # "closed" /\ UNCHANGED <<checkpoint_on, WaitCheckpoint, thread>>
      BY <1>19 DEF CloseSession, llVars
    <2> QED
      BY <2>1, <1>1, GotoChanges, QuietStep DEF SessionPc, Awaits, Saved
  <1>20. CASE Shutdown
    <2>1. UNCHANGED <<tr, checkpoint_on, WaitCheckpoint>> /\ \A s \in Session : tr[s].pc = "closed"
      BY <1>20 DEF Shutdown
    <2>2. SessionsTyped' /\ FlagsTyped' /\ ShutdownLast' /\ CheckpointAsked'
      BY <1>20, <2>1, <1>1, ShutdownChanges DEF Shutdown, ThreadTyped, ThreadRecord, CheckpointInv, SessionsTyped,
                                                FlagsTyped, ShutdownLast, CheckpointAsked
    <2>3. \A s \in Session : Awaits(s)' /\ Saved(s)'
      BY <2>1 DEF Awaits, Saved
    <2> QED
      BY <1>20, <2>2, <2>3, <1>1, ShutdownChanges DEF CheckpointInv
  <1>21. CASE WaitStart
    <2>1. UNCHANGED <<tr, checkpoint_on, WaitCheckpoint>>
      BY <1>21 DEF WaitStart
    <2>2. SessionsTyped' /\ FlagsTyped' /\ ShutdownLast' /\ CheckpointAsked'
      BY <1>21, <2>1, <1>1, WaitStartChanges DEF CheckpointInv, SessionsTyped, FlagsTyped, ShutdownLast,
                                                 CheckpointAsked, CheckpointPc
    <2>3. \A s \in Session : Awaits(s)' /\ Saved(s)'
      BY <1>21, <2>1, <1>1, WaitStartChanges DEF CheckpointInv, Awaits, Saved, NeedCheckpoint
    <2> QED
      BY <1>21, <2>2, <2>3, <1>1, WaitStartChanges DEF CheckpointInv
  <1>22. ASSUME NEW criterion \in BOOLEAN, Decide(criterion) PROVE CheckpointInv'
    <2>1. PICK label \in {"down_checkpoint", "down_advance", "wait"} :
             /\ label = IF thread.stopping \/ checkpoint_on THEN "down_checkpoint"
                        ELSE IF criterion THEN "down_advance" ELSE "wait"
             /\ thread' = [thread EXCEPT !.pc = label]
      BY <1>22 DEF Decide
    <2>2. label \in CheckpointPc => thread.stopping \/ checkpoint_on
      BY <2>1 DEF CheckpointPc
    <2>3. ThreadTyped' /\ ShutdownStays /\ thread'.pc = label
      BY <2>1, <1>1, ThreadMoves DEF ThreadPc
    <2> QED
      BY <1>22, <2>1, <2>2, <2>3, ThreadOnlyStep DEF Decide, llVars
  <1>23. CASE DownUnit
    <2>1. UNCHANGED <<tr, checkpoint_on, WaitCheckpoint>>
      BY <1>23 DEF DownUnit, llVars
    <2> QED
      BY <1>23, <2>1, <1>1, DownUnitChanges, ThreadOnlyStep DEF CheckpointPc
  <1>24. CASE AdvanceSnapshots
    <2>1. /\ UNCHANGED <<checkpoint_on, WaitCheckpoint>>
          /\ \/ thread.pc = "advance" /\ thread' = [thread EXCEPT !.pc = "checkpoint"]
             \/ thread.pc # "advance" /\ thread' = [thread EXCEPT !.pc = "up_advance"]
      BY <1>24 DEF AdvanceSnapshots, llVars
    <2>2. /\ ThreadTyped' /\ ShutdownStays
          /\ \/ thread.pc = "advance" /\ thread'.pc = "checkpoint"
             \/ thread.pc # "advance" /\ thread'.pc = "up_advance"
      BY <2>1, <1>1, ThreadMoves DEF ThreadPc
    <2>3. FlagsTyped' /\ ShutdownLast' /\ CheckpointAsked'
      BY <1>24, <2>1, <2>2, <1>1, AdvanceChanges DEF CheckpointInv, FlagsTyped, ShutdownLast, CheckpointAsked,
                                                     CheckpointPc, ShutdownStays
    <2>4. \A s \in Session : Awaits(s)' /\ Saved(s)'
      BY <1>24, <2>1, <2>2, <1>1, AdvanceChanges DEF CheckpointInv, Awaits, Saved, NeedCheckpoint, ModesStay
    <2> QED
      BY <1>24, <2>2, <2>3, <2>4, <1>1, AdvanceChanges DEF CheckpointInv
  <1>25. CASE AdvanceFails
    <2>1. /\ UNCHANGED <<tr, checkpoint_on, WaitCheckpoint>>
          /\ \/ thread.pc = "advance" /\ thread' = [thread EXCEPT !.pc = "wait_rotr"]
             \/ thread.pc # "advance" /\ thread' = [thread EXCEPT !.pc = "wait_locked"]
      BY <1>25 DEF AdvanceFails, llVars
    <2>2. /\ ThreadTyped' /\ ShutdownStays
          /\ \/ thread.pc = "advance" /\ thread'.pc = "wait_rotr"
             \/ thread.pc # "advance" /\ thread'.pc = "wait_locked"
      BY <2>1, <1>1, ThreadMoves DEF ThreadPc
    <2> QED
      BY <2>1, <2>2, ThreadOnlyStep DEF CheckpointPc
  <1>26. CASE WaitEndOfRotr
    <2>1. /\ UNCHANGED <<tr, checkpoint_on, WaitCheckpoint>>
          /\ \/ thread.pc = "wait_rotr" /\ thread' = [thread EXCEPT !.pc = "advance"]
             \/ thread.pc # "wait_rotr" /\ thread' = [thread EXCEPT !.pc = "advance_locked"]
      BY <1>26 DEF WaitEndOfRotr, llVars
    <2>2. /\ ThreadTyped' /\ ShutdownStays
          /\ \/ thread.pc = "wait_rotr" /\ thread'.pc = "advance"
             \/ thread.pc # "wait_rotr" /\ thread'.pc = "advance_locked"
      BY <2>1, <1>1, ThreadMoves DEF ThreadPc
    <2> QED
      BY <2>1, <2>2, ThreadOnlyStep DEF CheckpointPc
  <1>27. CASE MakeCheckpoint
    <2>1. /\ UNCHANGED <<checkpoint_on, WaitCheckpoint>>
          /\ thread.pc = "checkpoint" /\ thread' = [thread EXCEPT !.pc = "up_checkpoint"]
      BY <1>27 DEF MakeCheckpoint, llVars
    <2>2. ThreadTyped' /\ ShutdownStays /\ thread'.pc = "up_checkpoint"
      BY <2>1, <1>1, ThreadMoves DEF ThreadPc
    <2>3. FlagsTyped' /\ ShutdownLast' /\ CheckpointAsked'
      BY <1>27, <2>1, <2>2, <1>1, CheckpointChanges DEF CheckpointInv, FlagsTyped, ShutdownLast, CheckpointAsked,
                                                        CheckpointPc, ShutdownStays
    <2>4. \A s \in Session : Awaits(s)' /\ Saved(s)'
      BY <1>27, <1>1, CheckpointChanges DEF CheckpointInv, Awaits, Saved, NeedCheckpoint, ModesStay
    <2> QED
      BY <1>27, <2>2, <2>3, <2>4, <1>1, CheckpointChanges DEF CheckpointInv
  <1>28. CASE UpUnit
    <2>1. UNCHANGED <<tr, checkpoint_on, WaitCheckpoint>>
      BY <1>28 DEF UpUnit, llVars
    <2> QED
      BY <1>28, <2>1, <1>1, UpUnitChanges, ThreadOnlyStep DEF CheckpointPc
  <1>29. CASE llOnCheckpointFinish
    <2>1. /\ tr' = tr /\ thread.pc = "finish" /\ checkpoint_on' = FALSE
          /\ WaitCheckpoint' = IF checkpoint_on THEN WaitCheckpoint + 1 ELSE WaitCheckpoint
      BY <1>29 DEF llOnCheckpointFinish
    <2>2. PICK label \in {"done", "wait"} : thread' = [thread EXCEPT !.pc = label]
      BY <1>29 DEF llOnCheckpointFinish
    <2>3. ThreadTyped' /\ ShutdownStays /\ thread'.pc = label
      BY <2>2, <1>1, ThreadMoves DEF ThreadPc
    <2>4. FlagsTyped'
      <3>1. WaitCheckpoint \in {0, 1} /\ (checkpoint_on => WaitCheckpoint = 0)
        BY DEF CheckpointInv, FlagsTyped, CheckpointAsked
      <3>2. WaitCheckpoint' \in {0, 1}
        BY <2>1, <3>1
      <3> QED
        BY <2>1, <3>2, Zenon DEF FlagsTyped
    <2>5. SessionsTyped' /\ ShutdownLast' /\ CheckpointAsked'
      BY <2>1, <2>3 DEF CheckpointInv, SessionsTyped, ShutdownLast, CheckpointAsked, CheckpointPc, ShutdownStays
    <2>6. \A s \in Session : tr[s].pc = "wait_checkpoint" => tr[s].saved
      BY <2>1 DEF CheckpointInv, Awaits
    <2>7. \A s \in Session : Awaits(s)' /\ Saved(s)'
      BY <2>1, <2>6 DEF CheckpointInv, Awaits, Saved, NeedCheckpoint
    <2> QED
      BY <2>3, <2>4, <2>5, <2>7 DEF CheckpointInv
  <1>30. ASSUME NEW s \in Session, SessionStep(s) PROVE CheckpointInv'
    BY <1>30, <1>3, <1>4, <1>5, <1>6, <1>7, <1>8, <1>9, <1>10, <1>11, <1>12, <1>13, <1>14, <1>15 DEF SessionStep
  <1>31. CASE ThreadStep
    BY <1>31, <1>21, <1>22, <1>23, <1>24, <1>25, <1>26, <1>27, <1>28, <1>29, TrMgrAssumption, Zenon DEF ThreadStep
  <1> QED
    BY <1>2, <1>16, <1>17, <1>18, <1>19, <1>20, <1>30, <1>31 DEF Next, Terminated

\* A log-less commit returns only after a checkpoint that was made after the transaction reported
\* its end (hl_logical_log.cpp, activate_and_wait_for_end_checkpoint), for any number of sessions,
\* and also when clients change options inside transactions and sessions are stopped.
THEOREM LogLessCommitsAreSaved == Spec => []LogLessCommitIsSaved
  <1>1. CheckpointInv => LogLessCommitIsSaved
    BY DEF CheckpointInv, Saved, LogLessCommitIsSaved
  <1> QED
    BY <1>1, CheckpointInvInit, CheckpointInvStep, PTL DEF Spec

-----------------------------------------------------------------------------
\* The units of concurrent_trns_sem.  An updater holds one from DownTransactionBlockSems on;
\* a log-less commit gives it back before it waits for its checkpoint, the others at the end.
HoldsUnit(s) ==
    /\ tr[s].begun # "read_only"
    /\ \/ tr[s].pc \in {"register", "work", "release_sem"}
       \/ tr[s].pc \in {"unregister", "give_id", "up_sem"} /\ ~NeedCheckpoint(s)
UnitHolders == {s \in Session : HoldsUnit(s)}

\* How the mode that a transaction began with decides its way.
Route(s) ==
    /\ tr[s].pc \in {"get_id", "blocked", "wait_exclusive", "take_sem"} => tr[s].mode = tr[s].begun
    /\ tr[s].pc \in {"wait_exclusive", "take_sem"} => tr[s].begun # "read_only"
    /\ tr[s].pc \in {"release_sem", "activate", "wait_checkpoint"} => NeedCheckpoint(s)

\* What the thread holds at each of its labels.
ThreadHolds ==
    /\ thread.held \in 0..CHARISMA_MAX_TRNS_NUMBER
    /\ thread.pc \in {"wait", "woken", "finish", "done"} => thread.held = 0
    /\ thread.pc \in {"down_checkpoint", "down_advance"} => thread.held < CHARISMA_MAX_TRNS_NUMBER
    /\ thread.pc \in {"advance", "advance_locked", "wait_rotr", "wait_locked", "checkpoint"}
          => thread.held = CHARISMA_MAX_TRNS_NUMBER
    /\ thread.pc \in {"up_checkpoint", "up_advance"} => thread.held > 0

UnitsInv ==
    /\ SessionsTyped /\ ThreadTyped
    /\ concurrent_trns_sem \in Nat
    /\ \A s \in Session : Route(s)
    /\ ThreadHolds
    /\ concurrent_trns_sem + thread.held + Cardinality(UnitHolders) = CHARISMA_MAX_TRNS_NUMBER

\* When two finite sets differ at most in one element, so do their sizes.
LEMMA CountChanges ==
    ASSUME NEW S, NEW T, NEW x, IsFiniteSet(S), S \ {x} = T \ {x}
    PROVE  /\ IsFiniteSet(T)
           /\ Cardinality(S) \in Nat /\ Cardinality(T) \in Nat
           /\ x \in S /\ x \in T => Cardinality(T) = Cardinality(S)
           /\ x \notin S /\ x \notin T => Cardinality(T) = Cardinality(S)
           /\ x \notin S /\ x \in T => Cardinality(T) = Cardinality(S) + 1
           /\ x \in S /\ x \notin T => Cardinality(T) = Cardinality(S) - 1
  <1>1. CASE (x \in S) <=> (x \in T)
    <2>1. T = S
      BY <1>1
    <2> QED
      BY <2>1, <1>1, FS_CardinalityType
  <1>2. CASE x \notin S /\ x \in T
    <2>1. T = S \cup {x}
      BY <1>2
    <2> QED
      BY <2>1, <1>2, FS_AddElement, FS_CardinalityType
  <1>3. CASE x \in S /\ x \notin T
    <2>1. T = S \ {x}
      BY <1>3
    <2> QED
      BY <2>1, <1>3, FS_RemoveElement, FS_CardinalityType
  <1> QED
    BY <1>1, <1>2, <1>3

\* The sessions of a kind can be counted.
LEMMA SessionsFinite ==
    ASSUME NEW S \in SUBSET Session
    PROVE  IsFiniteSet(S) /\ Cardinality(S) \in Nat /\ Cardinality(S) <= CHARISMA_MAX_TRNS_NUMBER
  <1>1. IsFiniteSet(S) /\ Cardinality(S) <= Cardinality(Session)
    BY TrMgrAssumption, FS_Subset
  <1>2. Cardinality(S) \in Nat /\ Cardinality(Session) \in Nat
    BY <1>1, TrMgrAssumption, FS_CardinalityType
  <1> QED
    BY <1>1, <1>2, TrMgrAssumption

\* The invariant holds when the storage manager starts.
LEMMA UnitsInvInit == Init => UnitsInv
  <1> SUFFICES ASSUME Init PROVE UnitsInv
    OBVIOUS
  <1>1. SessionsTyped /\ ThreadTyped
    BY CheckpointInvInit DEF CheckpointInv
  <1>2. /\ concurrent_trns_sem = CHARISMA_MAX_TRNS_NUMBER /\ CHARISMA_MAX_TRNS_NUMBER \in Nat
        /\ thread.held = 0 /\ thread.pc = "wait"
    BY TrMgrAssumption DEF Init, NewThread
  <1>3. ThreadHolds
    BY <1>2 DEF ThreadHolds
  <1>4. \A s \in Session : tr[s].pc = "idle"
    BY DEF Init, NewSession
  <1>5. \A s \in Session : Route(s)
    BY <1>4 DEF Route
  <1>6. UnitHolders = {}
    BY <1>4 DEF UnitHolders, HoldsUnit
  <1>7. Cardinality(UnitHolders) = 0
    BY <1>6, FS_EmptySet
  <1> QED
    BY <1>1, <1>2, <1>3, <1>5, <1>7 DEF UnitsInv

\* A step of one session: the unit that it takes or gives back is one of the semaphore.
LEMMA UnitStep ==
    ASSUME UnitsInv, NEW s \in Session, SessionsTyped', OthersStay(s), thread' = thread, Route(s)',
           \/ concurrent_trns_sem' = concurrent_trns_sem /\ HoldsUnit(s) /\ HoldsUnit(s)'
           \/ concurrent_trns_sem' = concurrent_trns_sem /\ ~HoldsUnit(s) /\ ~HoldsUnit(s)'
           \/ concurrent_trns_sem > 0 /\ concurrent_trns_sem' = concurrent_trns_sem - 1 /\ ~HoldsUnit(s) /\ HoldsUnit(s)'
           \/ concurrent_trns_sem' = concurrent_trns_sem + 1 /\ HoldsUnit(s) /\ ~HoldsUnit(s)'
    PROVE  UnitsInv'
  <1>1. UnitHolders \ {s} = UnitHolders' \ {s}
    BY DEF UnitHolders, HoldsUnit, NeedCheckpoint, OthersStay
  <1>2. /\ s \in UnitHolders <=> HoldsUnit(s)
        /\ s \in UnitHolders' <=> HoldsUnit(s)'
    BY DEF UnitHolders
  <1>3. IsFiniteSet(UnitHolders) /\ Cardinality(UnitHolders) \in Nat
    BY SessionsFinite DEF UnitHolders
  <1>4. /\ Cardinality(UnitHolders') \in Nat
        /\ HoldsUnit(s) /\ HoldsUnit(s)' => Cardinality(UnitHolders') = Cardinality(UnitHolders)
        /\ ~HoldsUnit(s) /\ ~HoldsUnit(s)' => Cardinality(UnitHolders') = Cardinality(UnitHolders)
        /\ ~HoldsUnit(s) /\ HoldsUnit(s)' => Cardinality(UnitHolders') = Cardinality(UnitHolders) + 1
        /\ HoldsUnit(s) /\ ~HoldsUnit(s)' => Cardinality(UnitHolders') = Cardinality(UnitHolders) - 1
    BY <1>1, <1>2, <1>3, CountChanges
  <1>5. concurrent_trns_sem \in Nat /\ thread.held \in Int /\ CHARISMA_MAX_TRNS_NUMBER \in Nat
    BY TrMgrAssumption DEF UnitsInv, ThreadTyped, ThreadRecord
  <1>6. concurrent_trns_sem + thread.held + Cardinality(UnitHolders) = CHARISMA_MAX_TRNS_NUMBER
    BY DEF UnitsInv
  <1>7. /\ concurrent_trns_sem' \in Nat
        /\ concurrent_trns_sem' + thread.held + Cardinality(UnitHolders') = CHARISMA_MAX_TRNS_NUMBER
    BY <1>3, <1>4, <1>5, <1>6, SMTT(20)
  <1>8. \A t \in Session : Route(t)'
    BY DEF UnitsInv, Route, NeedCheckpoint, OthersStay
  <1> QED
    BY <1>7, <1>8, SMTT(20) DEF UnitsInv, ThreadTyped, ThreadHolds

\* A step of the thread: the units that it takes or gives back are those of the semaphore.
LEMMA ThreadUnitStep ==
    ASSUME UnitsInv, SessionsTyped', ThreadTyped', ThreadHolds', concurrent_trns_sem' \in Nat,
           \A s \in Session : ModesStay(s) /\ tr'[s].pc = tr[s].pc /\ tr'[s].isCommit = tr[s].isCommit,
           concurrent_trns_sem' + thread'.held = concurrent_trns_sem + thread.held
    PROVE  UnitsInv'
  <1>1. UnitHolders' = UnitHolders
    BY DEF UnitHolders, HoldsUnit, NeedCheckpoint, ModesStay
  <1>2. \A s \in Session : Route(s)'
    BY DEF UnitsInv, Route, NeedCheckpoint, ModesStay
  <1>3. Cardinality(UnitHolders) \in Nat
    BY SessionsFinite DEF UnitHolders
  <1> QED
    BY <1>1, <1>2, <1>3 DEF UnitsInv

\* Every step keeps the invariant, if no session is stopped while it waits: such a session gives
\* back a unit that it never took.
LEMMA UnitsInvStep == Stoppable = {} /\ UnitsInv /\ [Next]_vars => UnitsInv'
  <1> SUFFICES ASSUME Stoppable = {}, UnitsInv, [Next]_vars
               PROVE  UnitsInv'
    OBVIOUS
  <1>1. SessionsTyped /\ ThreadTyped
    BY DEF UnitsInv
  <1>a. ASSUME NEW s \in Session PROVE Route(s)
    BY DEF UnitsInv
  <1>2. CASE UNCHANGED vars
    BY <1>2 DEF vars, UnitsInv, SessionsTyped, ThreadTyped, Route, NeedCheckpoint, ThreadHolds, UnitHolders, HoldsUnit
  <1>3. ASSUME NEW s \in Session, BlockSession(s) PROVE UnitsInv'
    <2>1. /\ Goto(s, "blocked") /\ tr[s].pc = "get_id"
          /\ thread' = thread /\ concurrent_trns_sem' = concurrent_trns_sem
      BY <1>3 DEF BlockSession
    <2>2. Route(s)' /\ ~HoldsUnit(s) /\ ~HoldsUnit(s)'
      BY <2>1, <1>1, <1>a, GotoChanges, SMTT(20) DEF SessionPc, Route, HoldsUnit, ModesStay
    <2> QED
      BY <2>1, <2>2, <1>1, GotoChanges, UnitStep DEF SessionPc
  <1>4. ASSUME NEW s \in Session, GetTransactionId(s) PROVE UnitsInv'
    <2>1. PICK label \in {"wait_exclusive", "register", "take_sem"} :
             /\ Goto(s, label)
             /\ label = IF tr[s].mode = "log_less" THEN "wait_exclusive"
                        ELSE IF tr[s].begun = "read_only" THEN "register" ELSE "take_sem"
      BY <1>4 DEF GetTransactionId
    <2>2. tr[s].pc = "get_id" /\ thread' = thread /\ concurrent_trns_sem' = concurrent_trns_sem
      BY <1>4, SMTT(20) DEF GetTransactionId
    <2>3. Route(s)' /\ ~HoldsUnit(s) /\ ~HoldsUnit(s)'
      BY <2>1, <2>2, <1>1, <1>a, GotoChanges, SMTT(20) DEF SessionPc, Route, HoldsUnit, ModesStay
    <2> QED
      BY <2>1, <2>2, <2>3, <1>1, GotoChanges, UnitStep, SMTT(20) DEF SessionPc
  <1>5. ASSUME NEW s \in Session, WaitForSmToUnblock(s) PROVE UnitsInv'
    <2>1. PICK label \in {"get_id", "take_sem"} :
             Goto(s, label) /\ label = IF tr[s].pc = "blocked" THEN "get_id" ELSE "take_sem"
      BY <1>5 DEF WaitForSmToUnblock
    <2>2. /\ tr[s].pc \in {"blocked", "wait_exclusive"}
          /\ thread' = thread /\ concurrent_trns_sem' = concurrent_trns_sem
      BY <1>5, SMTT(20) DEF WaitForSmToUnblock
    <2>3. Route(s)' /\ ~HoldsUnit(s) /\ ~HoldsUnit(s)'
      BY <2>1, <2>2, <1>1, <1>a, GotoChanges, SMTT(20) DEF SessionPc, Route, HoldsUnit, ModesStay
    <2> QED
      BY <2>1, <2>2, <2>3, <1>1, GotoChanges, UnitStep DEF SessionPc
  <1>6. ASSUME NEW s \in Session, DownTransactionBlockSems(s) PROVE UnitsInv'
    <2>1. /\ Goto(s, "register") /\ tr[s].pc = "take_sem" /\ thread' = thread
          /\ concurrent_trns_sem > 0 /\ concurrent_trns_sem' = concurrent_trns_sem - 1
      BY <1>6 DEF DownTransactionBlockSems
    <2>2. Route(s)' /\ ~HoldsUnit(s) /\ HoldsUnit(s)'
      BY <2>1, <1>1, <1>a, GotoChanges, SMTT(20) DEF SessionPc, Route, HoldsUnit, ModesStay
    <2> QED
      BY <2>1, <2>2, <1>1, GotoChanges, UnitStep DEF SessionPc
  <1>7. ASSUME NEW s \in Session, RegisterTransaction(s) PROVE UnitsInv'
    <2>1. thread' = thread /\ concurrent_trns_sem' = concurrent_trns_sem
      BY <1>7 DEF RegisterTransaction
    <2>2. Route(s)' /\ (HoldsUnit(s) <=> HoldsUnit(s)')
      BY <1>7, <1>1, RegisterChanges DEF Route, HoldsUnit, ModesStay
    <2> QED
      BY <1>7, <2>1, <2>2, <1>1, RegisterChanges, UnitStep
  <1>8. ASSUME NEW s \in Session, NEW commit \in BOOLEAN, ReportToWu(s, commit) PROVE UnitsInv'
    <2>1. thread' = thread /\ concurrent_trns_sem' = concurrent_trns_sem
      BY <1>8 DEF ReportToWu
    <2>2. Route(s)' /\ (HoldsUnit(s) <=> HoldsUnit(s)')
      BY <1>8, <1>1, ReportChanges, SMTT(20) DEF Route, HoldsUnit, NeedCheckpoint, ModesStay
    <2> QED
      BY <1>8, <2>1, <2>2, <1>1, ReportChanges, UnitStep
  <1>9. ASSUME NEW s \in Session, ReleaseSem(s) PROVE UnitsInv'
    <2>1. /\ Goto(s, "activate") /\ tr[s].pc = "release_sem" /\ thread' = thread
          /\ concurrent_trns_sem' = concurrent_trns_sem + 1
      BY <1>9, SMTT(20) DEF ReleaseSem
    <2>2. Route(s)' /\ HoldsUnit(s) /\ ~HoldsUnit(s)'
      BY <2>1, <1>1, <1>a, GotoChanges, SMTT(20) DEF SessionPc, Route, HoldsUnit, NeedCheckpoint, ModesStay
    <2> QED
      BY <2>1, <2>2, <1>1, GotoChanges, UnitStep DEF SessionPc
  <1>10. ASSUME NEW s \in Session, ActivateAndWait(s) PROVE UnitsInv'
    <2>1. /\ Goto(s, "wait_checkpoint") /\ tr[s].pc = "activate"
          /\ thread' = thread /\ concurrent_trns_sem' = concurrent_trns_sem
      BY <1>10, SMTT(20) DEF ActivateAndWait
    <2>2. Route(s)' /\ ~HoldsUnit(s) /\ ~HoldsUnit(s)'
      BY <2>1, <1>1, <1>a, GotoChanges, SMTT(20) DEF SessionPc, Route, HoldsUnit, NeedCheckpoint, ModesStay
    <2> QED
      BY <2>1, <2>2, <1>1, GotoChanges, UnitStep DEF SessionPc
  <1>11. ASSUME NEW s \in Session, llOnCheckpointWait(s) PROVE UnitsInv'
    <2>1. /\ Goto(s, "unregister") /\ tr[s].pc = "wait_checkpoint"
          /\ thread' = thread /\ concurrent_trns_sem' = concurrent_trns_sem
      BY <1>11, SMTT(20) DEF llOnCheckpointWait
    <2>2. Route(s)' /\ ~HoldsUnit(s) /\ ~HoldsUnit(s)'
      BY <2>1, <1>1, <1>a, GotoChanges DEF SessionPc, Route, HoldsUnit, NeedCheckpoint, ModesStay
    <2> QED
      BY <2>1, <2>2, <1>1, GotoChanges, UnitStep, Zenon DEF SessionPc
  <1>12. ASSUME NEW s \in Session, UnregisterTransaction(s) PROVE UnitsInv'
    <2>1. thread' = thread /\ concurrent_trns_sem' = concurrent_trns_sem
      BY <1>12 DEF UnregisterTransaction
    <2>2. Route(s)' /\ (HoldsUnit(s) <=> HoldsUnit(s)')
      BY <1>12, <1>1, UnregisterChanges DEF Route, HoldsUnit, NeedCheckpoint, ModesStay
    <2> QED
      BY <1>12, <2>1, <2>2, <1>1, UnregisterChanges, UnitStep
  <1>13. ASSUME NEW s \in Session, GiveReaderId(s) PROVE UnitsInv'
    <2>1. /\ Goto(s, "up_sem") /\ tr[s].pc = "give_id"
          /\ thread' = thread /\ concurrent_trns_sem' = concurrent_trns_sem
      BY <1>13 DEF GiveReaderId
    <2>2. Route(s)' /\ (HoldsUnit(s) <=> HoldsUnit(s)')
      BY <2>1, <1>1, GotoChanges, SMTT(20) DEF SessionPc, Route, HoldsUnit, NeedCheckpoint, ModesStay
    <2> QED
      BY <2>1, <2>2, <1>1, GotoChanges, UnitStep DEF SessionPc
  <1>14. ASSUME NEW s \in Session, NEW need \in BOOLEAN, GiveUpdaterId(s, need) PROVE UnitsInv'
    <2>1. /\ Goto(s, "up_sem") /\ tr[s].pc = "give_id"
          /\ thread' = thread /\ concurrent_trns_sem' = concurrent_trns_sem
      BY <1>14 DEF GiveUpdaterId
    <2>2. Route(s)' /\ (HoldsUnit(s) <=> HoldsUnit(s)')
      BY <2>1, <1>1, GotoChanges, SMTT(20) DEF SessionPc, Route, HoldsUnit, NeedCheckpoint, ModesStay
    <2> QED
      BY <2>1, <2>2, <1>1, GotoChanges, UnitStep, SMTT(20) DEF SessionPc
  <1>15. ASSUME NEW s \in Session, UpTransactionBlockSems(s) PROVE UnitsInv'
    <2>1. /\ thread' = thread
          /\ \/ ~HoldsUnit(s) /\ concurrent_trns_sem' = concurrent_trns_sem
             \/ HoldsUnit(s) /\ concurrent_trns_sem' = concurrent_trns_sem + 1
      BY <1>15 DEF UpTransactionBlockSems, HoldsUnit
    <2>2. Route(s)' /\ ~HoldsUnit(s)'
      BY <1>15, <1>1, UpChanges DEF Route, HoldsUnit
    <2> QED
      BY <1>15, <2>1, <2>2, <1>1, UpChanges, UnitStep
  <1>16. ASSUME NEW s \in Session, NEW mode \in ModesOf(s), Begin(s, mode) PROVE UnitsInv'
    <2>1. thread' = thread /\ concurrent_trns_sem' = concurrent_trns_sem
      BY <1>16 DEF Begin
    <2>2. Route(s)' /\ ~HoldsUnit(s) /\ ~HoldsUnit(s)'
      BY <1>16, <1>1, BeginChanges, SMTT(20) DEF Route, HoldsUnit
    <2> QED
      BY <1>16, <2>1, <2>2, <1>1, BeginChanges, UnitStep
  <1>17. ASSUME NEW s \in Session, NEW mode \in ModesOf(s), SetSessionOptions(s, mode) PROVE UnitsInv'
    <2>1. thread' = thread /\ concurrent_trns_sem' = concurrent_trns_sem
      BY <1>17 DEF SetSessionOptions
    <2>2. Route(s)' /\ (HoldsUnit(s) <=> HoldsUnit(s)')
      BY <1>17, <1>1, OptionsChange, SMTT(20) DEF Route, HoldsUnit
    <2> QED
      BY <1>17, <2>1, <2>2, <1>1, OptionsChange, UnitStep
  <1>18. ASSUME NEW s \in Session, CloseSession(s) PROVE UnitsInv'
    <2>1. /\ Goto(s, "closed") /\ tr[s].pc \in {"idle", "stopped"}
          /\ thread' = thread /\ concurrent_trns_sem' = concurrent_trns_sem
      BY <1>18, SMTT(20) DEF CloseSession
    <2>2. Route(s)' /\ ~HoldsUnit(s) /\ ~HoldsUnit(s)'
      BY <2>1, <1>1, GotoChanges DEF SessionPc, Route, HoldsUnit
    <2> QED
      BY <2>1, <2>2, <1>1, GotoChanges, UnitStep DEF SessionPc
  <1>19. ASSUME UNCHANGED <<tr, concurrent_trns_sem>>, ThreadTyped', ThreadHolds', thread'.held = thread.held
         PROVE  UnitsInv'
    BY <1>19, <1>1, ThreadUnitStep DEF UnitsInv, SessionsTyped, ModesStay
  <1>20. CASE Shutdown
    <2>1. ThreadHolds'
      BY <1>20, <1>1, ShutdownChanges DEF UnitsInv, ThreadHolds
    <2> QED
      BY <1>20, <2>1, <1>1, <1>19, ShutdownChanges DEF Shutdown
  <1>21. CASE WaitStart
    <2>1. ThreadHolds'
      BY <1>21, <1>1, WaitStartChanges DEF UnitsInv, ThreadHolds
    <2> QED
      BY <1>21, <2>1, <1>1, <1>19, WaitStartChanges, Zenon DEF WaitStart
  <1>22. ASSUME NEW criterion \in BOOLEAN, Decide(criterion) PROVE UnitsInv'
    <2>1. PICK label \in {"down_checkpoint", "down_advance", "wait"} : thread' = [thread EXCEPT !.pc = label]
      BY <1>22 DEF Decide
    <2>2. ThreadTyped' /\ thread'.pc = label /\ thread'.held = thread.held /\ thread.pc = "woken"
      BY <1>22, <2>1, <1>1, ThreadMoves DEF ThreadPc, Decide
    <2>3. ThreadHolds'
      BY <2>1, <2>2, TrMgrAssumption DEF UnitsInv, ThreadHolds
    <2> QED
      BY <1>22, <2>2, <2>3, <1>19 DEF Decide
  <1>23. CASE DownUnit
    <2>1. concurrent_trns_sem > 0 /\ concurrent_trns_sem' = concurrent_trns_sem - 1 /\ tr' = tr
      BY <1>23 DEF DownUnit
    <2>2. thread.held \in Int /\ concurrent_trns_sem \in Nat /\ CHARISMA_MAX_TRNS_NUMBER \in Nat
      BY TrMgrAssumption DEF UnitsInv, ThreadTyped, ThreadRecord
    <2>3. ThreadHolds'
      BY <1>23, <1>1, <2>2, DownUnitChanges DEF UnitsInv, ThreadHolds
    <2>4. SessionsTyped' /\ \A s \in Session : ModesStay(s) /\ tr'[s].pc = tr[s].pc /\ tr'[s].isCommit = tr[s].isCommit
      BY <2>1, <1>1 DEF SessionsTyped, ModesStay
    <2>5. concurrent_trns_sem' \in Nat /\ concurrent_trns_sem' + thread'.held = concurrent_trns_sem + thread.held
      BY <1>23, <2>1, <2>2, <1>1, DownUnitChanges
    <2> QED
      BY <1>23, <2>3, <2>4, <2>5, <1>1, DownUnitChanges, ThreadUnitStep
  <1>24. CASE AdvanceSnapshots
    <2>1. /\ concurrent_trns_sem' = concurrent_trns_sem
          /\ \/ thread.pc = "advance" /\ thread' = [thread EXCEPT !.pc = "checkpoint"]
             \/ thread.pc = "advance_locked" /\ thread' = [thread EXCEPT !.pc = "up_advance"]
      BY <1>24 DEF AdvanceSnapshots
    <2>2. /\ ThreadTyped' /\ thread'.held = thread.held
          /\ \/ thread.pc = "advance" /\ thread'.pc = "checkpoint"
             \/ thread.pc = "advance_locked" /\ thread'.pc = "up_advance"
      BY <2>1, <1>1, ThreadMoves DEF ThreadPc
    <2>3. ThreadHolds'
      BY <2>2, TrMgrAssumption DEF UnitsInv, ThreadHolds
    <2>4. concurrent_trns_sem' \in Nat /\ concurrent_trns_sem' + thread'.held = concurrent_trns_sem + thread.held
      BY <2>1, <2>2 DEF UnitsInv
    <2> QED
      BY <1>24, <2>2, <2>3, <2>4, <1>1, AdvanceChanges, ThreadUnitStep
  <1>25. CASE AdvanceFails
    <2>1. \/ thread.pc = "advance" /\ thread' = [thread EXCEPT !.pc = "wait_rotr"]
          \/ thread.pc = "advance_locked" /\ thread' = [thread EXCEPT !.pc = "wait_locked"]
      BY <1>25 DEF AdvanceFails
    <2>2. /\ ThreadTyped' /\ thread'.held = thread.held
          /\ \/ thread.pc = "advance" /\ thread'.pc = "wait_rotr"
             \/ thread.pc = "advance_locked" /\ thread'.pc = "wait_locked"
      BY <2>1, <1>1, ThreadMoves DEF ThreadPc
    <2>3. ThreadHolds'
      BY <2>2 DEF UnitsInv, ThreadHolds
    <2> QED
      BY <1>25, <2>2, <2>3, <1>19 DEF AdvanceFails
  <1>26. CASE WaitEndOfRotr
    <2>1. \/ thread.pc = "wait_rotr" /\ thread' = [thread EXCEPT !.pc = "advance"]
          \/ thread.pc = "wait_locked" /\ thread' = [thread EXCEPT !.pc = "advance_locked"]
      BY <1>26 DEF WaitEndOfRotr
    <2>2. /\ ThreadTyped' /\ thread'.held = thread.held
          /\ \/ thread.pc = "wait_rotr" /\ thread'.pc = "advance"
             \/ thread.pc = "wait_locked" /\ thread'.pc = "advance_locked"
      BY <2>1, <1>1, ThreadMoves DEF ThreadPc
    <2>3. ThreadHolds'
      BY <2>2 DEF UnitsInv, ThreadHolds
    <2> QED
      BY <1>26, <2>2, <2>3, <1>19 DEF WaitEndOfRotr
  <1>27. CASE MakeCheckpoint
    <2>1. /\ concurrent_trns_sem' = concurrent_trns_sem
          /\ thread.pc = "checkpoint" /\ thread' = [thread EXCEPT !.pc = "up_checkpoint"]
      BY <1>27 DEF MakeCheckpoint
    <2>2. ThreadTyped' /\ thread'.held = thread.held /\ thread'.pc = "up_checkpoint"
      BY <2>1, <1>1, ThreadMoves DEF ThreadPc
    <2>3. ThreadHolds'
      BY <2>1, <2>2, TrMgrAssumption DEF UnitsInv, ThreadHolds
    <2>4. concurrent_trns_sem' \in Nat /\ concurrent_trns_sem' + thread'.held = concurrent_trns_sem + thread.held
      BY <2>1, <2>2 DEF UnitsInv
    <2> QED
      BY <1>27, <2>2, <2>3, <2>4, <1>1, CheckpointChanges, ThreadUnitStep
  <1>28. CASE UpUnit
    <2>1. concurrent_trns_sem' = concurrent_trns_sem + 1 /\ tr' = tr
      BY <1>28 DEF UpUnit
    <2>2. thread.held \in Int /\ concurrent_trns_sem \in Nat /\ CHARISMA_MAX_TRNS_NUMBER \in Nat
      BY TrMgrAssumption DEF UnitsInv, ThreadTyped, ThreadRecord
    <2>3. ThreadHolds'
      BY <1>28, <1>1, <2>2, UpUnitChanges DEF UnitsInv, ThreadHolds
    <2>4. SessionsTyped' /\ \A s \in Session : ModesStay(s) /\ tr'[s].pc = tr[s].pc /\ tr'[s].isCommit = tr[s].isCommit
      BY <2>1, <1>1 DEF SessionsTyped, ModesStay
    <2>5. concurrent_trns_sem' \in Nat /\ concurrent_trns_sem' + thread'.held = concurrent_trns_sem + thread.held
      BY <1>28, <2>1, <2>2, <1>1, UpUnitChanges
    <2> QED
      BY <1>28, <2>3, <2>4, <2>5, <1>1, UpUnitChanges, ThreadUnitStep
  <1>29. CASE llOnCheckpointFinish
    <2>1. PICK label \in {"done", "wait"} : thread' = [thread EXCEPT !.pc = label]
      BY <1>29 DEF llOnCheckpointFinish
    <2>2. ThreadTyped' /\ thread'.held = thread.held /\ thread'.pc = label /\ thread.pc = "finish"
      BY <1>29, <2>1, <1>1, ThreadMoves DEF ThreadPc, llOnCheckpointFinish
    <2>3. ThreadHolds'
      BY <2>1, <2>2 DEF UnitsInv, ThreadHolds
    <2> QED
      BY <1>29, <2>2, <2>3, <1>19 DEF llOnCheckpointFinish
  <1>30. ASSUME NEW s \in Session, SessionStep(s) PROVE UnitsInv'
    BY <1>30, <1>3, <1>4, <1>5, <1>6, <1>7, <1>8, <1>9, <1>10, <1>11, <1>12, <1>13, <1>14, <1>15, SMTT(20) DEF SessionStep
  <1>31. CASE ThreadStep
    BY <1>31, <1>21, <1>22, <1>23, <1>24, <1>25, <1>26, <1>27, <1>28, <1>29, TrMgrAssumption, Zenon DEF ThreadStep
  <1>32. ASSUME NEW s \in Session, StopWhileWaiting(s) PROVE UnitsInv'
    BY <1>32 DEF StopWhileWaiting
  <1> QED
    BY <1>2, <1>16, <1>17, <1>18, <1>20, <1>30, <1>31, <1>32 DEF Next, Terminated

\* No updater works while the thread advances the snapshots or makes a checkpoint (trmgr.cpp,
\* checkpoint_thread), for any number of sessions and units, unless a session is told to stop
\* while it waits for its identifier.
THEOREM CheckpointsAreQuiescent ==
    ASSUME Stoppable = {}
    PROVE  Spec => []CheckpointQuiescent
  <1>1. UnitsInv => CheckpointQuiescent
    <2> SUFFICES ASSUME UnitsInv, NEW s \in Session, IsWorking(s),
                        thread.held = CHARISMA_MAX_TRNS_NUMBER
                 PROVE  FALSE
      BY DEF UnitsInv, ThreadHolds, CheckpointQuiescent
    <2>1. s \in UnitHolders
      BY DEF IsWorking, UnitHolders, HoldsUnit
    <2>2. IsFiniteSet(UnitHolders) /\ Cardinality(UnitHolders) \in Nat
      BY SessionsFinite DEF UnitHolders
    <2>3. Cardinality(UnitHolders) # 0
      BY <2>1, <2>2, FS_EmptySet
    <2> QED
      BY <2>2, <2>3, TrMgrAssumption DEF UnitsInv
  <1>2. UnitsInv /\ [Next]_vars => UnitsInv'
    BY UnitsInvStep
  <1> QED
    BY <1>1, <1>2, UnitsInvInit, PTL DEF Spec

=============================================================================
