------------------------------ MODULE Recovery ------------------------------
(***************************************************************************)
(* What a crash leaves behind and what physical recovery makes of it.  The *)
(* storage manager writes blocks to the data file whenever it needs a      *)
(* buffer.  It keeps the last checkpoint restorable with three devices:    *)
(*  - a version that belongs to the persistent snapshot is written to the  *)
(*    address it was moved to before its successor is written              *)
(*    (flushing dependencies, sm/wu/wuversions.cpp);                       *)
(*  - a node of the stack of free blocks is logged before it changes for   *)
(*    the first time after a checkpoint (sm/bufmgr/blk_mngmt.cpp);         *)
(*  - the log is flushed up to a block's lsn before the block is written   *)
(*    (sm/bufmgr/bm_core.cpp, common/llcommon/llMain.cpp).                 *)
(* After a crash the physical records are read backwards from the last one *)
(* the log header knows (sm/llsm/physrcv.cpp).                             *)
(*                                                                         *)
(* A write that was issued survives the crash: it is the crash of the      *)
(* storage manager, not of the machine.  Garbage collection is the         *)
(* abstract one of VersionGc: a replaced version is kept exactly as long   *)
(* as a live snapshot shows it.  Of a data block the creator's timestamp   *)
(* is kept.  The nodes' timestamps are only compared with those of         *)
(* snapshots, so the last timestamp given out stands for a new one.        *)
(***************************************************************************)
EXTENDS Integers, Sequences, FiniteSets, SequencesExt

CONSTANTS InitialBlocks,  \* the blocks of the database at the start, which are 1..n
          InitialSize,    \* blocks of the data file at the start
          ExtendBy,       \* data_file_extending_portion
          MaxSize,        \* bound: blocks of the data file
          NodeCapacity,   \* addresses in a node of the stack
          Reader,         \* read-only transactions
          SNAPSHOTS_COUNT,
          MaxTimestamp,   \* bound: the last timestamp given out
          MaxUpdates,     \* bound: updating transactions, those before crashes included
          MaxChanges,     \* bound: blocks that one transaction creates, changes or deletes
          MaxCrashes      \* bound

ASSUME RecoveryAssumption ==
    /\ InitialBlocks \in Nat /\ ExtendBy \in Nat \ {0} /\ NodeCapacity \in Nat \ {0}
    /\ InitialBlocks < InitialSize /\ InitialSize <= MaxSize

VARIABLES st,         \* memory, data file and physical log
          blocks,     \* the logical blocks of the database, as the last transaction left them
          old,        \* replaced versions and deleted blocks that are still kept
          tr,         \* the updater
          timestamp,  \* the next timestamp (wu.cpp)
          snapshot,   \* timestamps of the current, persistent and previous persistent snapshot
          reader,     \* the snapshot of every reader, 0 when it does not run
          phase,      \* what the checkpoint thread, or recovery, does
          scan,       \* the records that recovery has still to read
          crashes,
          updates,    \* the transactions so far
          backup,     \* the copy of the data file that a hot backup makes
          sound       \* history: the log was written ahead of the blocks at every crash since the checkpoint

vars == <<st, blocks, old, tr, timestamp, snapshot, reader, phase, scan, crashes, updates, backup, sound>>

Addr == 1..MaxSize
NoAddr == 0
INVALID_TIMESTAMP == MaxTimestamp + 1

\* What a block holds.  Every block's header has the lsn of the last record about it.
Data(l, ts, lsn) == [kind |-> "data", lxptr |-> l, ts |-> ts, lsn |-> lsn]
FreeNode(nblk, free, ts, lsn) == [kind |-> "node", nblk |-> nblk, free |-> free, ts |-> ts, lsn |-> lsn]
Junk == [kind |-> "junk", lsn |-> 0]
NoBackup == [mode |-> "none", next |-> 0, disk |-> <<>>]
AwaitedBackup == [NoBackup EXCEPT !.mode = "awaited"]
Aged(c) == [c EXCEPT !.lsn = IF @ = 0 THEN 0 ELSE 1]

-----------------------------------------------------------------------------
\* The physical log since the last checkpoint.  The lsn after record n is n + 1,
\* the lsn of anything before the checkpoint is 1, and 0 is no lsn.
LogRecord(s, rec) == [s EXCEPT !.log = Append(@, rec)]
EndLsn(s) == Len(s.log) + 1
FreeBlocksInfo(p, image) == [op |-> "free_blocks", p |-> p, image |-> image]
PersSnapshotAdd(l, x, ts) == [op |-> "pers_snapshot_add", lxptr |-> l, xptr |-> x, ts |-> ts]
HbBlock(p, image) == [op |-> "hbblock", p |-> p, image |-> image]
Decrease(size) == [op |-> "decrease", size |-> size]

llFlushAll(s) == [s EXCEPT !.flushed = Len(s.log), !.header.last = Len(s.log)]
FlushUpTo(s, lsn) == [s EXCEPT !.flushed = IF @ >= lsn - 1 THEN @ ELSE lsn - 1, !.header.last = Len(s.log)]

\* The header names the last physical record, so when that is not covered all is flushed.
llFlushLsn(s, lsn) ==
    IF lsn = 0 THEN s ELSE IF Len(s.log) >= lsn THEN llFlushAll(s) ELSE FlushUpTo(s, lsn)

-----------------------------------------------------------------------------
\* The stack of free blocks: a list of nodes that are free blocks themselves.
Put(s, p, content) == [s EXCEPT !.mem[p] = content, !.dirty = @ \cup {p}]

\* Mutant: a node is logged only before the first change ever made to it.
LogHeadOnce(s) ==
    IF s.mem[s.hd].ts = 0
    THEN [LogRecord(s, FreeBlocksInfo(s.hd, s.mem[s.hd])) EXCEPT !.mem[s.hd].lsn = EndLsn(s) + 1]
    ELSE s

\* A node that has not changed since the persistent snapshot is logged before it does.
LogHead(s) ==
    IF s.mem[s.hd].ts < s.header.checkpoint.ts
    THEN [LogRecord(s, FreeBlocksInfo(s.hd, s.mem[s.hd])) EXCEPT !.mem[s.hd].lsn = EndLsn(s) + 1]
    ELSE s

NeedsNode(s) == s.hd = NoAddr \/ Len(s.mem[s.hd].free) >= NodeCapacity

\* The freed block becomes the head.  Whatever its buffer holds is logged first.
PushNode(s, p, stamp) ==
    LET logged == LogRecord(s, FreeBlocksInfo(p, Junk))
    IN [Put(logged, p, FreeNode(s.hd, <<>>, stamp, EndLsn(logged))) EXCEPT !.hd = p]

PushEntry(s, p, stamp) ==
    LET logged == LogHead(s)
    IN Put(logged, s.hd, [logged.mem[s.hd] EXCEPT !.free = Append(@, p), !.ts = stamp])

Push(s, p, stamp) == IF NeedsNode(s) THEN PushNode(s, p, stamp) ELSE PushEntry(s, p, stamp)

\* add_file_span_to_pfb_stack, on an empty stack: the first blocks of the span become nodes,
\* the others are pushed from the last one on, and nodes that are left over are pushed at last.
AddFileSpan(s, first, last, stamp) ==
    LET count == last - first + 1
        nodes == (count + NodeCapacity) \div (NodeCapacity + 1)
        add[k \in 0..(count - nodes)] ==
          IF k = 0 THEN [s |-> s, node |-> first]
          ELSE LET prev == add[k - 1]
                   p == last - k + 1
               IN IF NeedsNode(prev.s)
                  THEN [s |-> PushEntry(PushNode(prev.s, prev.node, stamp), p, stamp), node |-> prev.node + 1]
                  ELSE [s |-> PushEntry(prev.s, p, stamp), node |-> prev.node]
        added == add[count - nodes]
        rest[p \in (added.node - 1)..(first + nodes - 1)] ==
          IF p < added.node THEN added.s ELSE Push(rest[p - 1], p, stamp)
    IN rest[first + nodes - 1]

\* The record is flushed before the file grows.
ExtendDataFile(s, stamp) ==
    LET size == s.size + ExtendBy
        logged == llFlushAll(LogRecord(s, Decrease(s.size)))
    IN AddFileSpan([logged EXCEPT !.size = size, !.fileSize = size], s.size + 1, size, stamp)

CanAllocate(s) == s.hd # NoAddr \/ s.size + ExtendBy <= MaxSize

\* pop_from_persistent_free_blocks_stack: an empty node is the block popped.
Pop(s, stamp) ==
    LET logged == LogHead(s)
        node == logged.mem[s.hd]
    IN IF node.free = <<>>
       THEN [p |-> s.hd, s |-> [logged EXCEPT !.hd = node.nblk]]
       ELSE [p |-> Last(node.free), s |-> Put(logged, s.hd, [node EXCEPT !.free = Front(@), !.ts = stamp])]

\* bm_allocate_data_block: the header of the block's buffer is initialised.
AllocateDataBlock(s, stamp) ==
    LET popped == Pop(IF s.hd = NoAddr THEN ExtendDataFile(s, stamp) ELSE s, stamp)
    IN [p |-> popped.p, s |-> Put(popped.s, popped.p, Junk)]

\* delete_data_block: the buffer is given up as it is.
DeleteDataBlock(s, p, stamp) == Push([s EXCEPT !.mem[p] = s.disk[p], !.dirty = @ \ {p}], p, stamp)

DeleteDataBlocks(s, P, stamp) ==
    LET upTo[k \in 0..MaxSize] ==
          IF k = 0 THEN s ELSE IF k \in P THEN DeleteDataBlock(upTo[k - 1], k, stamp) ELSE upTo[k - 1]
    IN upTo[MaxSize]

-----------------------------------------------------------------------------
\* Mutant: versions of the persistent snapshot are written without a record.
WriteBlockUnlogged(s, p) ==
    IF p \in s.dirty THEN [llFlushLsn(s, s.mem[p].lsn) EXCEPT !.disk[p] = s.mem[p], !.dirty = @ \ {p}] ELSE s

\* flush_buffer without the dependency.  A version of the persistent snapshot is logged as
\* a whole, for hot backups.  Recovery after a crash skips these records, so they are left
\* out when there is no backup.
WriteBlock(s, p) ==
    LET block == s.mem[p]
        flushed == llFlushLsn(s, block.lsn)
        logged == IF backup # NoBackup /\ block.kind = "data" /\ block.ts < snapshot.persistent
                  THEN LogRecord(flushed, HbBlock(p, block)) ELSE flushed
    IN IF p \in s.dirty THEN [logged EXCEPT !.disk[p] = block, !.dirty = @ \ {p}] ELSE s

\* Mutant: the dependency is forgotten and its target is not written.
FlushBufferAlone(s, p) == WriteBlock([s EXCEPT !.dep[p] = NoAddr], p)

\* flush_buffer with OnFlushBuffer: the version that must be on disk first is written first.
FlushBuffer(s, p) ==
    LET target == s.dep[p]
        undone == [s EXCEPT !.dep[p] = NoAddr]
    IN WriteBlock(IF target = NoAddr THEN undone ELSE WriteBlock(undone, target), p)

FlushDataBuffers(s) ==
    LET upTo[k \in 0..MaxSize] ==
          IF k = 0 THEN s
          ELSE IF k \in upTo[k - 1].dirty THEN FlushBuffer(upTo[k - 1], k) ELSE upTo[k - 1]
    IN upTo[MaxSize]

-----------------------------------------------------------------------------
\* Snapshots and garbage.  A snapshot shows the versions of the transactions before it.
Live(sn, rd) == {sn.current, sn.persistent, sn.previous} \cup {rd[r] : r \in Reader}
Shown(v, s) == v.from < s /\ s < v.until
Garbage(V, S) == {v \in V : \A s \in S : ~Shown(v, s)}

\* The timestamp of a node that changes now.
Stamp == timestamp - 1

\* The versions of V that no snapshot of S shows are given back.
Purify(s, V, S) ==
    /\ st' = DeleteDataBlocks(s, {v.xptr : v \in Garbage(V, S)}, Stamp)
    /\ old' = V \ Garbage(V, S)

NoTransaction == [ts |-> 0, ops |-> <<>>]
NoReader == [r \in Reader |-> 0]
Running == phase \in {"serve", "advanced", "begun"}
Deleted(t) == {t.ops[i].lxptr : i \in {j \in DOMAIN t.ops : t.ops[j].type = "free"}}

InitialStore ==
    LET empty == [mem |-> [p \in Addr |-> IF p <= InitialBlocks THEN Data(p, 0, 0) ELSE Junk],
                  disk |-> [p \in Addr |-> Junk], dirty |-> {}, dep |-> [p \in Addr |-> NoAddr],
                  hd |-> NoAddr, size |-> InitialSize, fileSize |-> InitialSize,
                  log |-> <<>>, flushed |-> 0, header |-> [last |-> 0, checkpoint |-> [ts |-> 0]]]
        full == AddFileSpan(empty, InitialBlocks + 1, InitialSize, 0)
        mem == [p \in Addr |-> Aged(full.mem[p])]
    IN [full EXCEPT !.mem = mem, !.disk = mem, !.dirty = {}, !.log = <<>>,
          !.header.checkpoint = [ts |-> 1, hd |-> full.hd, size |-> InitialSize, garbage |-> {}, versions |-> {},
                                 image |-> [l \in 1..InitialBlocks |-> 0], stamped |-> TRUE]]

Init ==
    /\ st = InitialStore
    /\ blocks = 1..InitialBlocks
    /\ old = {}
    /\ tr = NoTransaction
    /\ timestamp = 2
    /\ snapshot = [current |-> 1, persistent |-> 1, previous |-> 0]
    /\ reader = NoReader
    /\ phase = "serve"
    /\ scan = 0
    /\ crashes = 0 /\ updates = 0
    /\ backup \in {NoBackup, AwaitedBackup}
    /\ sound = TRUE

-----------------------------------------------------------------------------
\* The updater.  Checkpoints and new snapshots wait until it has ended.
BeginUpdate ==
    /\ phase = "serve" /\ tr = NoTransaction
    /\ timestamp <= MaxTimestamp /\ updates < MaxUpdates
    /\ updates' = updates + 1
    /\ tr' = [NoTransaction EXCEPT !.ts = timestamp]
    /\ timestamp' = timestamp + 1
    /\ UNCHANGED <<st, blocks, old, snapshot, reader, phase, scan, crashes, backup, sound>>

MayChange == tr # NoTransaction /\ Len(tr.ops) < MaxChanges

Change(type, l, x, ts) ==
    /\ tr' = [tr EXCEPT !.ops = Append(@, [type |-> type, lxptr |-> l, xptr |-> x, ts |-> ts])]
    /\ UNCHANGED <<old, timestamp, snapshot, reader, phase, scan, crashes, updates, backup, sound>>

\* VeAllocateBlock.
AllocateBlock ==
    /\ MayChange /\ CanAllocate(st)
    /\ LET a == AllocateDataBlock(st, Stamp)
       IN /\ st' = Put(a.s, a.p, Data(a.p, tr.ts, 0))
          /\ blocks' = blocks \cup {a.p}
          /\ Change("allocate", a.p, a.p, tr.ts)

\* VeCreateBlockVersion: the old version moves to the new block, header and lsn included.
\* When it belongs to the persistent snapshot the move is logged.
CreateBlockVersion(l) ==
    /\ MayChange /\ CanAllocate(st)
    /\ l \notin Deleted(tr) /\ st.mem[l].ts # tr.ts
    /\ LET was == st.mem[l]
           a == AllocateDataBlock(st, Stamp)
           moved == Put(Put(a.s, l, [was EXCEPT !.ts = tr.ts]), a.p, was)
           logged == LogRecord(moved, PersSnapshotAdd(l, a.p, was.ts))
           persistent == was.ts < snapshot.persistent
       IN /\ st' = IF persistent
                   THEN [logged EXCEPT !.mem[a.p].lsn = EndLsn(logged), !.dep[l] = a.p]
                   ELSE moved
          /\ Change(IF persistent THEN "version_pers" ELSE "version", l, a.p, was.ts)
    /\ UNCHANGED blocks

\* VeFreeBlock.  The oldest version is only known while the block is in a buffer.
FreeBlock(l) ==
    /\ MayChange
    /\ l \notin Deleted(tr)
    /\ LET kept == {v \in old : v.lxptr = l}
           mine == {i \in DOMAIN tr.ops : tr.ops[i].lxptr = l}
           oldest == Min({st.mem[l].ts} \cup {v.from : v \in kept} \cup {tr.ops[i].ts : i \in mine})
       IN \E from \in {0, oldest} : Change("free", l, l, from)
    /\ UNCHANGED <<st, blocks>>

Commit ==
    /\ tr # NoTransaction
    /\ LET replacing == {i \in DOMAIN tr.ops : tr.ops[i].type # "allocate"}
           V == old \cup {[lxptr |-> tr.ops[i].lxptr, xptr |-> tr.ops[i].xptr,
                           from |-> tr.ops[i].ts, until |-> tr.ts] : i \in replacing}
       IN Purify(st, V, Live(snapshot, reader))
    /\ blocks' = blocks \ Deleted(tr)
    /\ tr' = NoTransaction
    /\ UNCHANGED <<timestamp, snapshot, reader, phase, scan, crashes, updates, backup, sound>>

\* The old version goes back to its place, in the buffer it is in.
MoveBack(s, op) ==
    [s EXCEPT !.mem[op.lxptr] = s.mem[op.xptr],
              !.dirty = (@ \ {op.lxptr, op.xptr}) \cup (IF op.xptr \in @ THEN {op.lxptr} ELSE {})]
MarkDirty(s, p) == [s EXCEPT !.dirty = @ \cup {p}]

\* One entry of the function list, in OnTransactionRollback.
Undo(s, op) ==
    CASE op.type = "allocate" -> DeleteDataBlock(s, op.xptr, Stamp)
      [] op.type = "version" -> DeleteDataBlock(MarkDirty(MoveBack(s, op), op.lxptr), op.xptr, Stamp)
      [] op.type = "version_pers" ->
           LET back == IF s.dep[op.lxptr] # NoAddr
                       THEN [MoveBack(s, op) EXCEPT !.dep[op.lxptr] = NoAddr]
                       ELSE WriteBlock(MarkDirty(MoveBack(s, op), op.lxptr), op.lxptr)
           IN DeleteDataBlock(back, op.xptr, Stamp)
      [] OTHER -> s

Rollback ==
    /\ tr # NoTransaction
    /\ LET n == Len(tr.ops)
           undone[k \in 0..n] == IF k = 0 THEN st ELSE Undo(undone[k - 1], tr.ops[n - k + 1])
       IN st' = undone[n]
    /\ blocks' = blocks \ {tr.ops[i].xptr : i \in {j \in DOMAIN tr.ops : tr.ops[j].type = "allocate"}}
    /\ tr' = NoTransaction
    /\ UNCHANGED <<old, timestamp, snapshot, reader, phase, scan, crashes, updates, backup, sound>>

-----------------------------------------------------------------------------
\* A read-only transaction takes the current snapshot, and at its end snapshots may go.
BeginReader(r) ==
    /\ Running /\ reader[r] = 0
    /\ reader' = [reader EXCEPT ![r] = snapshot.current]
    /\ UNCHANGED <<st, blocks, old, tr, timestamp, snapshot, phase, scan, crashes, updates, backup, sound>>

EndReader(r) ==
    /\ Running /\ reader[r] # 0
    /\ reader' = [reader EXCEPT ![r] = 0]
    /\ Purify(st, old, Live(snapshot, reader'))
    /\ UNCHANGED <<blocks, tr, timestamp, snapshot, phase, scan, crashes, updates, backup, sound>>

\* A buffer is needed for something else.
Evict(p) ==
    /\ Running
    /\ p \in st.dirty
    /\ st' = FlushBuffer(st, p)
    /\ UNCHANGED <<blocks, old, tr, timestamp, snapshot, reader, phase, scan, crashes, updates, backup, sound>>

-----------------------------------------------------------------------------
\* SnTryAdvanceSnapshots: the current snapshot goes, unless it is used, then the new one is made.
TryAdvanceSnapshots ==
    LET kept == Live([snapshot EXCEPT !.current = 0], reader)
    IN /\ phase = "serve" /\ tr = NoTransaction
       /\ timestamp <= MaxTimestamp
       /\ Cardinality(kept \ {0}) < SNAPSHOTS_COUNT
       /\ Purify(st, old, kept)
       /\ snapshot' = [snapshot EXCEPT !.current = timestamp]
       /\ timestamp' = timestamp + 1
       /\ UNCHANGED <<blocks, tr, reader, scan, crashes, updates, backup, sound>>

AdvanceSnapshots == TryAdvanceSnapshots /\ UNCHANGED phase

\* checkpoint_thread.  Readers begin and end while it does not hold the giant lock.
\* There is no checkpoint while a hot backup copies the data file (hbProcessStartRequest).
CheckpointAdvance ==
    /\ backup.mode # "copying"
    /\ TryAdvanceSnapshots
    /\ phase' = "advanced"

OnBeginCheckpoint ==
    /\ phase = "advanced"
    /\ snapshot' = [snapshot EXCEPT !.previous = snapshot.persistent, !.persistent = snapshot.current]
    /\ phase' = "begun"
    /\ UNCHANGED <<st, blocks, old, tr, timestamp, reader, scan, crashes, updates, backup, sound>>

CheckpointFlush ==
    /\ phase = "begun"
    /\ st' = FlushDataBuffers(st)
    /\ phase' = "flushed"
    /\ UNCHANGED <<blocks, old, tr, timestamp, snapshot, reader, scan, crashes, updates, backup, sound>>

\* The nodes of the stack, from the head, as far as they are nodes.
Walk(s) ==
    LET at[k \in 0..MaxSize] ==
          IF k = 0 THEN s.hd
          ELSE LET p == at[k - 1]
               IN IF p # NoAddr /\ s.mem[p].kind = "node" THEN s.mem[p].nblk ELSE NoAddr
    IN at
Nodes(s) == {Walk(s)[k] : k \in 0..MaxSize} \ {NoAddr}

\* llLogCheckpoint and llFlushAll.  The new header is written when all records are.
\* History: what the snapshot holds, and whether every node is older than it.
LogCheckpoint ==
    /\ phase = "flushed"
    /\ LET checkpoint == [ts |-> snapshot.persistent, hd |-> st.hd, size |-> st.size,
                          garbage |-> {v.xptr : v \in {w \in old : ~Shown(w, snapshot.persistent)}},
                          versions |-> {<<v.lxptr, v.xptr>> : v \in {w \in old : Shown(w, snapshot.persistent)}},
                          image |-> [l \in blocks |-> st.mem[l].ts],
                          stamped |-> \A p \in Nodes(st) : st.mem[p].ts < snapshot.persistent]
       IN st' = [st EXCEPT !.log = <<>>, !.flushed = 0, !.header = [last |-> 0, checkpoint |-> checkpoint],
                           !.mem = [p \in Addr |-> Aged(@[p])], !.disk = [p \in Addr |-> Aged(@[p])]]
    /\ phase' = "logged"
    /\ sound' = TRUE
    /\ UNCHANGED <<blocks, old, tr, timestamp, snapshot, reader, scan, crashes, updates, backup>>

OnCompleteCheckpoint ==
    /\ phase = "logged"
    /\ snapshot' = [snapshot EXCEPT !.previous = 0]
    /\ Purify(st, old, Live(snapshot', reader))
    /\ phase' = "serve"
    /\ UNCHANGED <<blocks, tr, timestamp, reader, scan, crashes, updates, backup, sound>>

-----------------------------------------------------------------------------
\* Free blocks are those of the stack, each once.
FreeExactly(s, F) ==
    LET N == Nodes(s)
        entries(p) == Len(s.mem[p].free)
    IN /\ \A p \in N : s.mem[p].kind = "node"
       /\ Walk(s)[MaxSize] = NoAddr
       /\ N \cup UNION {Range(s.mem[p].free) : p \in N} = F
       /\ Cardinality(N) + MapThenSumSet(entries, N) = Cardinality(F)

Holds(block, l, ts) == block.kind = "data" /\ block.lxptr = l /\ block.ts = ts

\* The data file is as the checkpoint saw it: its blocks are in their places and the others are free.
Restored(s) ==
    LET checkpoint == s.header.checkpoint
    IN /\ s.size = checkpoint.size /\ s.fileSize = checkpoint.size
       /\ \A l \in DOMAIN checkpoint.image : Holds(s.mem[l], l, checkpoint.image[l])
       /\ FreeExactly(s, (1..s.size) \ DOMAIN checkpoint.image)

\* A node whose image is not yet reachable in the log is on disk as it was.
WriteAhead ==
    \A i \in (st.header.last + 1)..Len(st.log) :
        LET rec == st.log[i]
        IN rec.op = "free_blocks" /\ rec.image # Junk => st.disk[rec.p] = rec.image

\* The process is gone.  The data file and the first n records of the log stay.
Lose(file, size, n) ==
    /\ phase' = "down"
    /\ st' = [st EXCEPT !.mem = file, !.disk = file, !.fileSize = size, !.dirty = {},
                        !.dep = [p \in Addr |-> NoAddr], !.hd = NoAddr, !.size = 0,
                        !.log = SubSeq(@, 1, n), !.flushed = n, !.header.last = n]
    /\ blocks' = {} /\ old' = {} /\ tr' = NoTransaction /\ reader' = NoReader
    /\ timestamp' = 0 /\ scan' = 0
    /\ snapshot' = [current |-> 0, persistent |-> 0, previous |-> 0]

Crash ==
    /\ crashes < MaxCrashes
    /\ backup = NoBackup /\ phase # "down"
    /\ crashes' = crashes + 1
    /\ Lose(st.disk, st.fileSize, st.header.last)
    /\ sound' = (sound /\ WriteAhead)
    /\ UNCHANGED <<updates, backup>>

-----------------------------------------------------------------------------
\* A hot backup: the blocks of the data file are copied one after the other while the
\* database is in use, then the log is archived.
StartBackup ==
    /\ phase = "serve" /\ backup = AwaitedBackup
    /\ backup' = [mode |-> "copying", next |-> 1, disk |-> [p \in Addr |-> Junk]]
    /\ UNCHANGED <<st, blocks, old, tr, timestamp, snapshot, reader, phase, scan, crashes, updates, sound>>

CopyBlock ==
    /\ phase = "serve" /\ backup.next \in 1..st.fileSize
    /\ backup' = [backup EXCEPT !.next = @ + 1, !.disk[backup.next] = st.disk[backup.next]]
    /\ UNCHANGED <<st, blocks, old, tr, timestamp, snapshot, reader, phase, scan, crashes, updates, sound>>

\* The copy, with the archived log, takes the place of the database.
RestoreBackup ==
    /\ phase = "serve" /\ backup.next > st.fileSize
    /\ crashes' = MaxCrashes
    /\ Lose(backup.disk, backup.next - 1, Len(st.log))
    /\ UNCHANGED <<updates, backup, sound>>

\* llRecoverPhysicalState: the master block is the one of the checkpoint, and the records
\* are read from the last one the header names.
Restart ==
    /\ phase = "down"
    /\ phase' = "recover"
    /\ scan' = st.header.last
    /\ st' = [st EXCEPT !.hd = st.header.checkpoint.hd, !.size = st.header.checkpoint.size]
    /\ UNCHANGED <<blocks, old, tr, timestamp, snapshot, reader, crashes, updates, backup, sound>>

WriteDirectly(s, p, content) == [s EXCEPT !.disk[p] = content, !.mem[p] = content]

RecoverRecord ==
    /\ phase = "recover" /\ scan > 0
    /\ LET rec == st.log[scan]
       IN \/ /\ rec.op = "free_blocks"
             /\ st' = WriteDirectly(st, rec.p, rec.image)
          \/ /\ rec.op = "pers_snapshot_add"
             /\ st' = IF Holds(st.disk[rec.lxptr], rec.lxptr, rec.ts) THEN st
                      ELSE WriteDirectly(st, rec.lxptr, st.disk[rec.xptr])
          \/ /\ rec.op = "hbblock"
             /\ st' = IF backup = NoBackup THEN st ELSE WriteDirectly(st, rec.p, rec.image)
          \/ /\ rec.op = "decrease"
             /\ st' = [st EXCEPT !.fileSize = rec.size]
    /\ scan' = scan - 1
    /\ UNCHANGED <<blocks, old, tr, timestamp, snapshot, reader, phase, crashes, updates, backup, sound>>

\* llRcvCheckpoint: versions are copied to their places, and they and the garbage become
\* free blocks.  No timestamp is available yet.  What pushing on something that is not a node
\* does is not modelled: the data file is wrong already.
RecoverCheckpoint ==
    /\ phase = "recover" /\ scan = 0
    /\ LET checkpoint == st.header.checkpoint
           moved == {v[2] : v \in checkpoint.versions}
           copied == [p \in Addr |-> IF \E v \in checkpoint.versions : v[1] = p
                                     THEN st.disk[(CHOOSE v \in checkpoint.versions : v[1] = p)[2]]
                                     ELSE st.disk[p]]
       IN st' = IF st.hd # NoAddr /\ copied[st.hd].kind # "node" THEN st
                ELSE DeleteDataBlocks([st EXCEPT !.mem = copied, !.disk = copied],
                                      checkpoint.garbage \cup moved, INVALID_TIMESTAMP)
    /\ phase' = "restored"
    /\ UNCHANGED <<blocks, old, tr, timestamp, snapshot, reader, scan, crashes, updates, backup, sound>>

\* WuSetTimestamp and WuInit.  What a wrong data file leads to is not modelled.
\* Bound: after the last crash nothing is left to see.
Resume ==
    /\ phase = "restored"
    /\ crashes < MaxCrashes
    /\ Restored(st)
    /\ LET checkpoint == st.header.checkpoint
       IN /\ blocks' = DOMAIN checkpoint.image
          /\ timestamp' = checkpoint.ts + 1
          /\ snapshot' = [current |-> checkpoint.ts, persistent |-> checkpoint.ts, previous |-> 0]
    /\ phase' = "serve"
    /\ UNCHANGED <<st, old, tr, reader, scan, crashes, updates, backup, sound>>

Next ==
    \/ BeginUpdate \/ AllocateBlock \/ Commit \/ Rollback
    \/ \E l \in blocks : CreateBlockVersion(l) \/ FreeBlock(l)
    \/ \E r \in Reader : BeginReader(r) \/ EndReader(r)
    \/ \E p \in Addr : Evict(p)
    \/ AdvanceSnapshots
    \/ CheckpointAdvance \/ OnBeginCheckpoint \/ CheckpointFlush \/ LogCheckpoint \/ OnCompleteCheckpoint
    \/ StartBackup \/ CopyBlock \/ RestoreBackup
    \/ Crash \/ Restart \/ RecoverRecord \/ RecoverCheckpoint \/ Resume

Spec == Init /\ [][Next]_vars

-----------------------------------------------------------------------------
\* The state is well formed, and a clean block is on disk as it is in memory.
TypeOK ==
    /\ phase \in {"serve", "advanced", "begun", "flushed", "logged", "down", "recover", "restored"}
    /\ st.dirty \subseteq Addr
    /\ \A p \in Addr \ st.dirty : [st.mem[p] EXCEPT !.lsn = 0] = [st.disk[p] EXCEPT !.lsn = 0]
    /\ blocks \subseteq 1..st.size
    /\ timestamp \in 0..(MaxTimestamp + 1)
    /\ crashes \in 0..MaxCrashes

\* While the storage manager serves clients the stack of free blocks (blk_mngmt.cpp) holds
\* every block that no version occupies, once, whatever was rolled back or recovered.
FreeStackExact ==
    Running => FreeExactly(st, (1..st.size) \ (blocks \cup {v.xptr : v \in old}
                                                     \cup {tr.ops[i].xptr : i \in DOMAIN tr.ops}))

\* The chain pointer in the log header on disk (llFlushLsn, _llFlushHeader) never names a record
\* that was not written to the log file: recovery can always read what the header leads to.
HeaderNamesFlushedRecord == st.header.last <= st.flushed

\* Whenever the process dies, and while recovery itself runs, every block of the last checkpoint is on
\* disk: in its place, or where a record that recovery will read says it was moved (OnFlushBuffer,
\* OnTransactionRollback, llRcvPersSnpAdd).
SnapshotOnDisk ==
    LET image == st.header.checkpoint.image
    IN backup.mode # "copying" => \A l \in DOMAIN image :
         \/ Holds(st.disk[l], l, image[l])
         \/ \E i \in 1..st.header.last :
              /\ st.log[i].op = "pers_snapshot_add" /\ st.log[i].lxptr = l /\ st.log[i].ts = image[l]
              /\ Holds(st.disk[st.log[i].xptr], l, image[l])

\* A dependency (UpdateFlushingDependency) belongs to a changed block whose old version it keeps: it leads
\* from a dirty buffer to a block that has no dependency itself, so flushing never chains.
DependenciesOneDeep ==
    \A p \in Addr : st.dep[p] # NoAddr => p \in st.dirty /\ st.dep[st.dep[p]] = NoAddr

\* The data file, the buffers and the log always fit together (blk_mngmt.cpp, bm_core.cpp,
\* physlog.cpp): whatever is evicted, rolled back or interrupted, the free blocks are exact, the
\* header names a record that is on disk and every block of the last checkpoint can be found.
StoreConsistent ==
    TypeOK /\ FreeStackExact /\ HeaderNamesFlushedRecord /\ SnapshotOnDisk /\ DependenciesOneDeep

\* When the log was written ahead of the nodes and all nodes were older than the snapshot, recovery
\* (llRecoverPhysicalState) brings back the blocks and the free blocks of the last checkpoint, also after
\* crashes in the middle of recovery.
RecoveryRestores ==
    phase = "restored" /\ backup = NoBackup /\ sound /\ st.header.checkpoint.stamped => Restored(st)

\* A data file that was copied block by block while transactions changed, evicted and rolled back blocks
\* is brought to the state of the last checkpoint by the archived log (llRcvBlock, llLogRecordBlock).
BackupRestores ==
    phase = "restored" /\ backup # NoBackup /\ st.header.checkpoint.stamped => Restored(st)

\* Recovery "restores persistent snapshot and free blocks information" (physrcv.cpp): unless a node was
\* written before its image was logged, the data file is the one of the last checkpoint after every crash.
\* The code does not guarantee it (README, section 4).
RecoveryRestoresFreeBlocks == phase = "restored" /\ backup = NoBackup /\ sound => Restored(st)

\* "This record will be flushed only when the block is flushed": a node is not written before its image is.
\* The code does not guarantee it (README, section 4).
NodesLoggedAhead == WriteAhead
=============================================================================
