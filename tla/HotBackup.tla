----------------------------- MODULE HotBackup -----------------------------
(***************************************************************************)
(* The hot backup protocol.  Clients (the se_hb program, src/hbp) talk     *)
(* to the governor over sockets; the governor keeps one hbInfo for each    *)
(* connection and passes the requests on, as message 39, to the storage    *)
(* manager of the database.  The storage manager disables checkpoints      *)
(* while files are copied and keeps, in the header of its log, the number  *)
(* of the file at which the next increment begins.                         *)
(*                                                                         *)
(* The governor serves one message at a time and waits for the storage     *)
(* manager's answer, so that a request with its answer is one step.  What  *)
(* interleaves with these steps is the checkpoint thread, the growth of    *)
(* the log, connections that are lost and crashes of the server.           *)
(*                                                                         *)
(* The pointers status, hbDbName and hbFiles of hb_funcs.cpp are globals.  *)
(* They point into the entry of the connection served last (the variable   *)
(* served); hbProcessErrorHbp reads them without setting them first.       *)
(***************************************************************************)
EXTENDS Integers, FiniteSets, SequencesExt

CONSTANTS
    Databases,       \* databases whose storage managers run
    Clients,         \* sockets of hot backup clients
    Overlap,         \* may a connection be lost while another one is open?
    MaxFiles,        \* bound: highest log file number
    MaxConnections,  \* bound: connections accepted
    MaxCrashes       \* bound: crashes of the server

ASSUME HotBackupAssumption ==
    /\ IsFiniteSet(Databases) /\ IsFiniteSet(Clients)
    /\ Overlap \in BOOLEAN
    /\ {MaxFiles, MaxConnections} \subseteq Nat \ {0}
    /\ MaxCrashes \in Nat

VARIABLES
    hbClients,    \* the governor's map from sockets to hbInfo
    served,       \* the entry status, hbDbName and hbFiles point to
    governor,     \* does the governor run?
    sm,           \* for each database: the log's and the backup's state
    connections,  \* number of connections accepted so far
    crashes,      \* number of crashes so far
    copied,       \* history: log files of the primary copy and its increments
    spoiled,      \* history: clients that copied the data file while a
                  \* checkpoint ran
    abandoned     \* history: databases whose client was lost without
                  \* ResetHbState taking effect

vars == <<hbClients, served, governor, sm, connections, crashes, copied,
          spoiled, abandoned>>

IncrModes == {"HB_NONE_INCR", "HB_START_INCR", "HB_ADD_INCR", "HB_STOP_INCR"}

States == {"HB_START", "HB_WAIT", "HB_ARCHIVELOG", "HB_NEXTFILE", "HB_END"}

Nobody == "nobody"
NoDatabase == "no database"
LFS_INVALID_FILE == -1

(* An hbInfo, with what the client at the other end of the socket is about: *)
(* the database and the options of its command line, and the log files it   *)
(* was told to copy.                                                        *)
Closed == [open |-> FALSE]
NewInfo(d, incr, checkp) ==
    [open |-> TRUE, status |-> "HB_START", hbDbName |-> NoDatabase,
     hbFiles |-> <<>>, db |-> d, incr |-> incr, checkp |-> checkp,
     told |-> {}]

Connected == {c \in Clients : hbClients[c].open}
Named(d) == {c \in Connected : hbClients[c].hbDbName = d}

(* Between HB_CONT and HB_END: the client copies files.                     *)
Copies(c) == c \in Connected /\ hbClients[c].status
                                    \in {"HB_ARCHIVELOG", "HB_NEXTFILE", "HB_END"}
CopiesData(c) == c \in Connected /\ hbClients[c].status = "HB_ARCHIVELOG"
                                 /\ hbClients[c].incr # "HB_ADD_INCR"

NewDatabase ==
    [checkpoint_flag |-> TRUE, checkpoint_on |-> FALSE,
     hb_in_process |-> FALSE, hbStatus |-> "HB_END",
     hbIncrStatus |-> "HB_NONE_INCR", hbLastFileNum |-> LFS_INVALID_FILE,
     next_arch_file |-> 0, header |-> 0,
     FirstFileNum |-> 1, LastFileNum |-> 1, filled |-> TRUE]

Init ==
    /\ hbClients = [c \in Clients |-> Closed]
    /\ served = Nobody /\ governor = TRUE
    /\ sm = [d \in Databases |-> NewDatabase]
    /\ connections = 0 /\ crashes = 0
    /\ copied = [d \in Databases |-> {}]
    /\ spoiled = {} /\ abandoned = {}

-----------------------------------------------------------------------------
(* The logical log, for one database s = sm[d].                             *)

(* llFlushAll: the header of the last file takes next_arch_file.            *)
llFlushAll(s) == [s EXCEPT !.header = s.next_arch_file]

(* lfsTruncate: files before the checkpoint record, which the last file     *)
(* holds, are deleted unless an increment needs them.                       *)
lfsTruncate(s, hint_num) ==
    [s EXCEPT !.FirstFileNum =
        IF hint_num # 0 /\ s.LastFileNum > hint_num THEN hint_num
        ELSE s.LastFileNum]

llTruncateLog(s) == lfsTruncate(s, s.next_arch_file)

(* lfsArchiveCurrentFile: the log goes on in a new file, unless the last    *)
(* one holds no record.                                                     *)
lfsArchiveCurrentFile(s) ==
    IF s.filled THEN [s EXCEPT !.LastFileNum = @ + 1, !.filled = FALSE] ELSE s

llHbArchive(s) ==
    LET t == lfsArchiveCurrentFile(s)
    IN  [t EXCEPT !.next_arch_file =
                      IF s.hbIncrStatus \in {"HB_START_INCR", "HB_NONE_INCR"}
                      THEN 0 ELSE @,
                  !.hbLastFileNum = t.LastFileNum - 1,
                  !.hbStatus = "HB_END"]

(* llHotBackup at the start, at the end and after an error.                 *)
llHotBackupStart(s, incr) ==
    [s EXCEPT !.hbStatus = "HB_START", !.hbIncrStatus = incr]
llHotBackupEnded(s) ==
    [s EXCEPT !.hbLastFileNum = LFS_INVALID_FILE,
              !.hbIncrStatus = "HB_NONE_INCR", !.hbStatus = "HB_END"]

llHotBackupEndAtLast(s) ==                                       \* mutant
    llHotBackupEnded(llFlushAll(
        [s EXCEPT !.next_arch_file =
            IF s.hbIncrStatus \in {"HB_STOP_INCR", "HB_NONE_INCR"} THEN 0
            ELSE s.LastFileNum]))
llHotBackupEnd(s) ==
    llHotBackupEnded(llFlushAll(
        [s EXCEPT !.next_arch_file =
            IF s.hbIncrStatus \in {"HB_STOP_INCR", "HB_NONE_INCR"} THEN 0
            ELSE s.hbLastFileNum + 1]))

llHbIsNeedAddLogging(s) ==
    s.hbStatus = "HB_START" /\ s.hbIncrStatus \in {"HB_START_INCR", "HB_NONE_INCR"}

(* llHbLastArchiveFile and llHbPrevArchivedLog walk back from the last      *)
(* archived file to the one the increment begins with, or to the first file *)
(* of the log.                                                              *)
LowestArchived(s) ==
    IF s.next_arch_file > s.FirstFileNum THEN s.next_arch_file ELSE s.FirstFileNum

(* RetrieveAllFileNames: the log files to copy, last one first.             *)
RetrieveAllFileNames(s) ==
    [i \in 1 .. s.hbLastFileNum - LowestArchived(s) + 1 |-> s.hbLastFileNum - i + 1]

llActivateCheckpoint(s) ==
    [s EXCEPT !.checkpoint_on = @ \/ s.checkpoint_flag]
llEnableCheckpoints(s) == [s EXCEPT !.checkpoint_flag = TRUE]

llDisableNothing(s) == s                                         \* mutant
llDisableCheckpoints(s) == [s EXCEPT !.checkpoint_flag = FALSE]

-----------------------------------------------------------------------------
(* The storage manager's handlers of message 39 (hb_utils.cpp).             *)

ResetHbState(s) == [llEnableCheckpoints(s) EXCEPT !.hb_in_process = FALSE]

smEnd(s) == IF s.hb_in_process THEN ResetHbState(llHotBackupEnd(s)) ELSE s
smError(s) == IF s.hb_in_process THEN ResetHbState(llHotBackupEnded(s)) ELSE s

smStartAnswer(s, checkp, incr) ==
    IF checkp \/ s.checkpoint_on THEN "HB_WAIT"
    ELSE IF incr = "HB_ADD_INCR" /\ s.next_arch_file = 0 THEN "HB_ERR"
    ELSE "HB_CONT"

smStartMarkLate(s, checkp, incr) ==                              \* mutant
    CASE checkp -> llDisableCheckpoints(llActivateCheckpoint(s))
      [] ~checkp /\ s.checkpoint_on -> llDisableCheckpoints(s)
      [] OTHER -> [llHotBackupStart(llDisableCheckpoints(s), incr)
                       EXCEPT !.hb_in_process =
                           smStartAnswer(s, checkp, incr) = "HB_CONT"]
smStart(s, checkp, incr) ==
    CASE checkp -> llDisableCheckpoints(llActivateCheckpoint(s))
      [] ~checkp /\ s.checkpoint_on -> llDisableCheckpoints(s)
      [] OTHER -> [llHotBackupStart(llDisableCheckpoints(s), incr)
                       EXCEPT !.hb_in_process = TRUE]

-----------------------------------------------------------------------------
(* The governor's handlers (hb_funcs.cpp).                                  *)

(* HOTBACKUP_START: a client connects.                                      *)
hbNewClient(c, d, incr, checkp) ==
    /\ governor /\ ~hbClients[c].open /\ connections < MaxConnections
    /\ hbClients' = [hbClients EXCEPT ![c] = NewInfo(d, incr, checkp)]
    /\ connections' = connections + 1
    /\ UNCHANGED <<served, governor, sm, crashes, copied, spoiled, abandoned>>

(* hbRetrieveAndCheckDbName refuses a database that is being backed up; the *)
(* connection ends, and as its status is HB_START no storage manager is     *)
(* told.                                                                    *)
NeverDuplicate(c) == FALSE                                       \* mutant
DuplicateRequest(c) == Named(hbClients[c].db) # {}

hbRefuseStart(c) ==
    /\ governor /\ c \in Connected /\ hbClients[c].status = "HB_START"
    /\ DuplicateRequest(c)
    /\ served' = c
    /\ hbClients' = [hbClients EXCEPT ![c] = Closed]
    /\ UNCHANGED <<governor, sm, connections, crashes, copied, spoiled, abandoned>>

(* hbProcessStartRequest; the client repeats it while the answer is         *)
(* HB_WAIT.  After HB_ERR, hbProcessErrorHbp ends the backup and the        *)
(* connection.                                                              *)
hbProcessStartRequest(c) ==
    LET info == hbClients[c]
        s == sm[info.db]
        checkp == info.status = "HB_START" /\ info.checkp
        answer == smStartAnswer(s, checkp, info.incr)
        started == smStart(s, checkp, info.incr)
    IN  /\ governor /\ c \in Connected
        /\ \/ info.status = "HB_WAIT"
           \/ info.status = "HB_START" /\ ~DuplicateRequest(c)
        /\ served' = c
        /\ sm' = [sm EXCEPT ![info.db] =
                      IF answer = "HB_ERR" THEN smError(started) ELSE started]
        /\ hbClients' = [hbClients EXCEPT ![c] =
               CASE answer = "HB_ERR" -> Closed
                 [] answer = "HB_WAIT" ->
                        [info EXCEPT !.status = "HB_WAIT", !.hbDbName = info.db]
                 [] answer = "HB_CONT" ->
                        [info EXCEPT !.hbDbName = info.db,
                             !.status = IF info.incr = "HB_STOP_INCR"
                                        THEN "HB_END" ELSE "HB_ARCHIVELOG"]]
        /\ spoiled' = spoiled \ {c}
        /\ UNCHANGED <<governor, connections, crashes, copied, abandoned>>

(* hbProcessLogArchRequest and RetrieveAllFileNames: the data file is       *)
(* copied; the configuration file is the first name, the log files follow.  *)
hbProcessLogArchRequest(c) ==
    LET info == hbClients[c]
        s == llHbArchive(sm[info.db])
    IN  /\ governor /\ c \in Connected /\ info.status = "HB_ARCHIVELOG"
        /\ s.LastFileNum <= MaxFiles
        /\ served' = c
        /\ sm' = [sm EXCEPT ![info.db] = s]
        /\ hbClients' = [hbClients EXCEPT
               ![c] = [info EXCEPT !.status = "HB_NEXTFILE",
                                   !.hbFiles = RetrieveAllFileNames(s)]]
        /\ UNCHANGED <<governor, connections, crashes, copied, spoiled, abandoned>>

(* hbProcessNextFile: the next name, or the end of the list.                *)
hbProcessNextFile(c) ==
    LET info == hbClients[c]
    IN  /\ governor /\ c \in Connected /\ info.status = "HB_NEXTFILE"
        /\ served' = c
        /\ hbClients' = [hbClients EXCEPT ![c] =
               IF info.hbFiles = <<>> THEN [info EXCEPT !.status = "HB_END"]
               ELSE [info EXCEPT !.hbFiles = Tail(@),
                                 !.told = @ \union {Head(info.hbFiles)}]]
        /\ UNCHANGED <<governor, sm, connections, crashes, copied, spoiled,
                       abandoned>>

(* hbProcessEndRequest; the entry is erased.  The copy counts as a primary  *)
(* copy or an increment once the storage manager has ended the backup.      *)
hbProcessEndRequest(c) ==
    LET info == hbClients[c]
    IN  /\ governor /\ c \in Connected /\ info.status = "HB_END"
        /\ served' = c
        /\ sm' = [sm EXCEPT ![info.db] = smEnd(@)]
        /\ copied' = [copied EXCEPT ![info.db] =
               CASE info.incr = "HB_START_INCR" -> info.told
                 [] info.incr = "HB_ADD_INCR" -> @ \union info.told
                 [] OTHER -> {}]
        /\ abandoned' = abandoned \ {info.db}
        /\ hbClients' = [hbClients EXCEPT ![c] = Closed]
        /\ UNCHANGED <<governor, connections, crashes, spoiled>>

(* Whom hbProcessErrorHbp notifies: it reads *status and *hbDbName of the   *)
(* entry served last.  If that entry is erased the outcome is undefined:    *)
(* nobody, any database, or the end of the governor; with no entry served   *)
(* yet the pointers are null.                                               *)
Down == "down"
ErrorTargets ==
    IF served = Nobody THEN {Down}
    ELSE IF ~hbClients[served].open THEN Databases \union {NoDatabase, Down}
    ELSE IF hbClients[served].status = "HB_START" THEN {NoDatabase}
    ELSE {hbClients[served].hbDbName}

(* hbProcessMessage when the connection of c is lost.  The history keeps    *)
(* the database of a client the storage manager had disabled checkpoints    *)
(* for and now cannot or does not enable them: it was only waiting, or the  *)
(* error did not reach its storage manager.                                 *)
hbConnectionLost(c) ==
    /\ governor /\ c \in Connected
    /\ Overlap \/ Connected = {c}
    /\ \E target \in ErrorTargets :
         /\ governor' = (target # Down)
         /\ sm' = IF target \in Databases THEN [sm EXCEPT ![target] = smError(@)]
                  ELSE sm
         /\ abandoned' =
               IF \/ hbClients[c].status = "HB_START"
                  \/ served = c /\ hbClients[c].status # "HB_WAIT"
               THEN abandoned ELSE abandoned \union {hbClients[c].hbDbName}
    /\ hbClients' = [hbClients EXCEPT ![c] = Closed]
    /\ UNCHANGED <<served, connections, crashes, copied, spoiled>>

-----------------------------------------------------------------------------
(* The rest of the server.                                                  *)

(* Transactions write to the log; a full file is followed by another.       *)
AppendRecord(d) ==
    /\ ~sm[d].filled
    /\ sm' = [sm EXCEPT ![d].filled = TRUE]
    /\ UNCHANGED <<hbClients, served, governor, connections, crashes, copied,
                   spoiled, abandoned>>

ExtendLog(d) ==
    /\ sm[d].filled /\ sm[d].LastFileNum < MaxFiles
    /\ sm' = [sm EXCEPT ![d].LastFileNum = @ + 1]
    /\ UNCHANGED <<hbClients, served, governor, connections, crashes, copied,
                   spoiled, abandoned>>

(* A transaction or a full log asks for a checkpoint.                       *)
RequestCheckpoint(d) ==
    /\ ~sm[d].checkpoint_on /\ sm[d].checkpoint_flag
    /\ sm' = [sm EXCEPT ![d] = llActivateCheckpoint(@)]
    /\ UNCHANGED <<hbClients, served, governor, connections, crashes, copied,
                   spoiled, abandoned>>

(* The checkpoint thread writes the data file, logs and flushes the         *)
(* checkpoint record and truncates the log.                                 *)
CheckpointOf(s) == llTruncateLog(llFlushAll([s EXCEPT !.filled = TRUE]))

checkpoint_thread(d) ==
    /\ sm[d].checkpoint_on
    /\ sm' = [sm EXCEPT ![d] = [CheckpointOf(@) EXCEPT !.checkpoint_on = FALSE]]
    /\ spoiled' = spoiled \union {c \in Clients : CopiesData(c) /\ hbClients[c].db = d}
    /\ UNCHANGED <<hbClients, served, governor, connections, crashes, copied,
                   abandoned>>

(* The server crashes, or has lost its governor, and is started again.      *)
(* llInit takes next_arch_file from the header of the last log file;        *)
(* recovery makes a checkpoint of its own and the storage manager enables   *)
(* checkpoints.                                                             *)
llInit(s) ==
    CheckpointOf([NewDatabase EXCEPT
        !.next_arch_file = s.header, !.header = s.header,
        !.FirstFileNum = s.FirstFileNum, !.LastFileNum = s.LastFileNum])
Restart ==
    /\ \/ ~governor /\ crashes' = crashes
       \/ governor /\ crashes < MaxCrashes /\ crashes' = crashes + 1
    /\ governor' = TRUE
    /\ hbClients' = [c \in Clients |-> Closed]
    /\ served' = Nobody
    /\ sm' = [d \in Databases |-> llInit(sm[d])]
    /\ abandoned' = {}
    /\ UNCHANGED <<connections, copied, spoiled>>

-----------------------------------------------------------------------------
Next ==
    \/ \E c \in Clients, d \in Databases, incr \in IncrModes, checkp \in BOOLEAN :
          hbNewClient(c, d, incr, checkp)
    \/ \E c \in Clients : hbRefuseStart(c)
    \/ \E c \in Clients : hbProcessStartRequest(c)
    \/ \E c \in Clients : hbProcessLogArchRequest(c)
    \/ \E c \in Clients : hbProcessNextFile(c)
    \/ \E c \in Clients : hbProcessEndRequest(c)
    \/ \E c \in Clients : hbConnectionLost(c)
    \/ \E d \in Databases : AppendRecord(d)
    \/ \E d \in Databases : ExtendLog(d)
    \/ \E d \in Databases : RequestCheckpoint(d)
    \/ \E d \in Databases : checkpoint_thread(d)
    \/ Restart

(* The checkpoint thread ends the checkpoint it has begun (module TrMgr     *)
(* shows that it can), and a client that was told to wait sleeps and asks   *)
(* again.                                                                   *)
Fairness ==
    /\ \A d \in Databases : WF_vars(checkpoint_thread(d))
    /\ \A c \in Clients : WF_vars(hbProcessStartRequest(c))

Spec == Init /\ [][Next]_vars /\ Fairness

-----------------------------------------------------------------------------
(* Type invariant.                                                          *)
DatabaseState ==
    [checkpoint_flag : BOOLEAN, checkpoint_on : BOOLEAN, hb_in_process : BOOLEAN,
     hbStatus : {"HB_START", "HB_END"}, hbIncrStatus : IncrModes,
     hbLastFileNum : {LFS_INVALID_FILE} \union 1 .. MaxFiles,
     next_arch_file : 0 .. MaxFiles, header : 0 .. MaxFiles,
     FirstFileNum : 1 .. MaxFiles, LastFileNum : 1 .. MaxFiles, filled : BOOLEAN]

(* The state has its types; in particular the file at which an increment    *)
(* begins, in memory and in the header, is a file the log still has, which  *)
(* is what lfsTruncate asserts of its hint.                                 *)
TypeOK ==
    /\ sm \in [Databases -> DatabaseState]
    /\ \A d \in Databases : \A n \in {sm[d].next_arch_file, sm[d].header} :
          n # 0 => n \in sm[d].FirstFileNum .. sm[d].LastFileNum
    /\ \A c \in Connected :
          /\ hbClients[c].status \in States
          /\ hbClients[c].told \subseteq 1 .. MaxFiles
          /\ hbClients[c].hbDbName \in {NoDatabase, hbClients[c].db}
    /\ served \in Clients \union {Nobody}

(* From HB_CONT to HB_END no checkpoint runs or can be started, and while   *)
(* the data file is copied every block written is logged for the restore    *)
(* (hb_main.cpp: "checkpoints are disabled and sm is switched to            *)
(* hot-backup mode").                                                       *)
CopyIsProtected ==
    \A c \in Clients : Copies(c) =>
        LET s == sm[hbClients[c].db]
        IN  /\ ~s.checkpoint_on /\ ~s.checkpoint_flag /\ s.hb_in_process
            /\ CopiesData(c) => llHbIsNeedAddLogging(s)

(* A full copy that has all its files was not disturbed: no checkpoint of   *)
(* its database ran while it copied the data file (hb_main.cpp: "When we    *)
(* have been acknowledged, checkpoints are disabled", until "6. Notify sm   *)
(* of ending hot-backup procedure").  The code does not guarantee it when   *)
(* backups overlap (README, section 4).                                     *)
CompletedBackupSound ==
    \A c \in Connected :
        (/\ hbClients[c].status = "HB_END"
         /\ hbClients[c].incr \in {"HB_START_INCR", "HB_NONE_INCR"})
        => c \notin spoiled

(* The log files named to a client for a full copy are, until the end of    *)
(* the backup, all the files the log then has: none is skipped and none is  *)
(* deleted before it is copied.                                             *)
CopyHasItsLog ==
    \A c \in Connected :
        (/\ hbClients[c].status \in {"HB_NEXTFILE", "HB_END"}
         /\ hbClients[c].incr \in {"HB_START_INCR", "HB_NONE_INCR"})
        => LET s == sm[hbClients[c].db]
           IN  hbClients[c].told \union ToSet(hbClients[c].hbFiles)
                   = s.FirstFileNum .. s.hbLastFileNum

(* A backup in progress (hb_main.cpp) is sound at every step: nothing can   *)
(* checkpoint under it, what is written meanwhile is logged, and the log    *)
(* files it was promised are all there, whatever other clients ask for.     *)
CopyInProgressSound == TypeOK /\ CopyIsProtected /\ CopyHasItsLog

(* Increments leave no gap: every log file that the next increment will not *)
(* hand out, from the first file of the primary copy, was handed out by the *)
(* primary copy or an earlier increment.  It holds of next_arch_file in     *)
(* memory and of the one a restart will find, after lost clients and        *)
(* crashes as well.                                                         *)
IncrementsHaveNoGap ==
    \A d \in Databases : \A n \in {sm[d].next_arch_file, sm[d].header} :
        n # 0 => /\ copied[d] # {}
                 /\ \A f \in 1 .. n - 1 :
                       (\E g \in copied[d] : g <= f) => f \in copied[d]

(* Checkpoints are enabled again when a backup is over, however it ended    *)
(* (hb_main.cpp: "Checkpoints become enabled at this point"), unless its    *)
(* client was lost while it waited for a checkpoint or the error went to    *)
(* somebody else.                                                           *)
CheckpointsComeBack ==
    \A d \in Databases :
        Named(d) = {} /\ d \notin abandoned => sm[d].checkpoint_flag

(* A client that waits for a checkpoint is answered or lost: new            *)
(* checkpoints cannot keep it waiting for ever.                             *)
Waiting(c) == c \in Connected /\ hbClients[c].status = "HB_WAIT"
WaitingEnds == \A c \in Clients : Waiting(c) ~> ~Waiting(c)
=============================================================================
