------------------------------ MODULE Versions ------------------------------
(***************************************************************************)
(* Block versions (sm/wu/wuversions.cpp) on top of the snapshots.  A block *)
(* is known by the address of its last version; an updater that changes it *)
(* copies the old version to a new address first.  The header of the last  *)
(* version lists its predecessors, each with the timestamp of the          *)
(* transaction that created it, as far as a snapshot still shows them, and *)
(* a reader finds the version of its snapshot through this header.         *)
(*                                                                         *)
(* A block's data is what its creator wrote, so the creator's timestamp    *)
(* stands for the data.  The restrictions of the debug build are left out, *)
(* as in the release build.                                                *)
(***************************************************************************)
EXTENDS Snapshots

CONSTANTS InitialBlocks,   \* blocks of the database after the restart
          VERSIONS_COUNT   \* entries of a version header

ASSUME VersionsAssumption ==
    /\ InitialBlocks \subseteq Xptr
    /\ VERSIONS_COUNT \in Nat \ {0}

VARIABLES block,   \* the version header stored at every address, <<>> if the address is free
          fresh,   \* the blocks a running transaction has allocated
          shown    \* history: what every live snapshot has to show, recorded when it is taken

veVars == <<snVars, block, fresh, shown>>

LAST_COMMITED == MaxTimestamp + 1
BeforeRestart == 0
NoVersion == -1

-----------------------------------------------------------------------------
\* Matching a header against the snapshots, the last committed state in front of them.  A
\* working version is not listed here, IsWorking tells it.
FakeHeadSnapshot == [FutureSnapshot(1) EXCEPT !.timestamp = LAST_COMMITED, !.active = ActiveTimestamps]
IsVersionYoungerThanSnapshot(s, ts) == ts > s.timestamp \/ ts \in s.active

Matching(s, hdr) == {i \in DOMAIN hdr : ~IsVersionYoungerThanSnapshot(s, hdr[i].creatorTs)}
Match(s, hdr) == CHOOSE i \in Matching(s, hdr) : \A j \in Matching(s, hdr) : i <= j

SnExpandDfvHeader(hdr) ==
    LET live == SubSeq(snapshots, Current(snapshots), SNAPSHOTS_COUNT)
        row == <<FakeHeadSnapshot>> \o live
        found == {k \in DOMAIN row : Matching(row[k], hdr) # {}}
    IN [k \in 1..Cardinality(found) |-> [ts |-> row[k].timestamp, id |-> Match(row[k], hdr)]]

IsDamagedTs(ts) == \E i \in Slot : snapshots[i].timestamp = ts /\ snapshots[i].isDamaged

\* Mutant: the damaged snapshots are filtered out first.
AnchorTsUndamaged(hdr) ==
    LET e == SelectSeq(SnExpandDfvHeader(hdr), LAMBDA k : ~IsDamagedTs(k.ts))
        same == {k \in DOMAIN e : e[k].id = e[1].id}
    IN IF e = <<>> THEN INVALID_TIMESTAMP
       ELSE IF Cardinality(same) = 1 THEN CurrentTs(snapshots) + 1
       ELSE e[Cardinality(same)].ts

\* The oldest snapshot that shows the last committed version.
AnchorTs(hdr) ==
    LET e == SnExpandDfvHeader(hdr)
        same == {k \in DOMAIN e : e[k].id = e[1].id}
    IN IF e = <<>> THEN INVALID_TIMESTAMP
       ELSE IF Cardinality(same) = 1 THEN CurrentTs(snapshots) + 1
       ELSE e[Cardinality(same)].ts

\* The oldest snapshot that shows any version of the block.
TotalAnchorTs(hdr) ==
    LET e == SnExpandDfvHeader(hdr)
    IN IF Len(e) <= 1 THEN AnchorTs(hdr) ELSE e[Len(e)].ts

\* Entries of damaged snapshots are removed; the loop does not look at the entry that
\* takes the place of a removed one.
SnFilterOutDamaged(e) ==
    LET removed[k \in 0..Len(e)] == k > 0 /\ IsDamagedTs(e[k].ts) /\ ~removed[k - 1]
        kept == {k \in DOMAIN e : ~removed[k]}
        nth(n) == CHOOSE k \in kept : Cardinality({j \in kept : j < k}) = n - 1
    IN [n \in 1..Cardinality(kept) |-> e[nth(n)]]

\* The entries with a version of their own; they must fit in the header.
UniqueEntries(e) ==
    LET firsts == {k \in DOMAIN e : k = 1 \/ e[k].id # e[k - 1].id}
        nth(n) == CHOOSE k \in firsts : Cardinality({j \in firsts : j < k}) = n - 1
    IN [n \in 1..Cardinality(firsts) |-> e[nth(n)]]

\* The header of a new version at lxptr whose predecessor moves to address x.
ComposeHeader(hdr, lxptr, x, ts) ==
    LET u == UniqueEntries(SnFilterOutDamaged(SnExpandDfvHeader(hdr)))
    IN <<[creatorTs |-> ts, xptr |-> lxptr]>> \o
       [n \in 1..Len(u) |-> [creatorTs |-> hdr[u[n].id].creatorTs,
                             xptr |-> IF n = 1 THEN x ELSE hdr[u[n].id].xptr]]

-----------------------------------------------------------------------------
Running(c) == client[c].status = "updater" /\ ~client[c].isCompleted
Pending == UNION {functionList[c] : c \in Client}

\* Deleted blocks stay at their address as long as a snapshot needs them.
IsDead(l) == \/ \E r \in Pending : r.xptr = l /\ r.bogus
             \/ \E n \in Node : [xptr |-> l, bogus |-> TRUE] \in EntriesOf(n)

\* The logical blocks: the address of the last version is the first entry of its header.
Lxptr == {x \in Xptr : block[x] # <<>> /\ block[x][1].xptr = x}
IsWorking(l) == block[l][1].creatorTs \in ActiveTimestamps

NothingShown == [x \in Xptr |-> NoVersion]
LastCommitted == [x \in Xptr |-> IF x \in Lxptr /\ ~IsDead(x) THEN block[x][1].creatorTs ELSE NoVersion]
LiveTimestamps == {snapshots[i].timestamp : i \in {k \in Slot : snapshots[k].type # "future"}}

VeInit ==
    /\ Init
    /\ block = [x \in Xptr |-> IF x \in InitialBlocks
                               THEN <<[creatorTs |-> BeforeRestart, xptr |-> x]>> ELSE <<>>]
    /\ fresh = [c \in Client |-> {}]
    /\ shown = [ts \in Timestamp |-> IF ts \in LiveTimestamps THEN LastCommitted ELSE NothingShown]

\* The blocks that the garbage collector gives back become free addresses.
FreeBlocks ==
    /\ block' = [x \in Xptr |-> IF x \in allocated \ allocated' THEN <<>> ELSE block[x]]
    /\ shown' = [ts \in Timestamp |-> IF ts \in LiveTimestamps' \ LiveTimestamps THEN LastCommitted
                                      ELSE IF ts \in LiveTimestamps' THEN shown[ts] ELSE NothingShown]

VeAllocateBlock(c, l) ==
    /\ Running(c)
    /\ block[l] = <<>>
    /\ block' = [block EXCEPT ![l] = <<[creatorTs |-> client[c].timestamp, xptr |-> l]>>]
    /\ fresh' = [fresh EXCEPT ![c] = @ \cup {l}]
    /\ UNCHANGED <<snVars, shown>>

\* The old version moves to x, the new one takes its address.  Another transaction's
\* working version, or a second version by the same transaction, is refused.
VeCreateBlockVersion(c, l, x) ==
    /\ Running(c)
    /\ block[x] = <<>>
    /\ l \in Lxptr /\ ~IsDead(l)
    /\ ~IsWorking(l)
    /\ block' = [block EXCEPT ![l] = ComposeHeader(block[l], l, x, client[c].timestamp), ![x] = block[l]]
    /\ functionList' = [functionList EXCEPT ![c] =
                          @ \cup {[xptr |-> x, bogus |-> FALSE, anchorTs |-> AnchorTs(block[l])]}]
    /\ allocated' = allocated \cup {x}
    /\ UNCHANGED <<snapshots, client, timestamp, checkpoint, fresh, shown>>

\* A deleted block is only remembered.  If it is in the buffers the header tells which
\* snapshots still need it, otherwise all of them are assumed to.
VeFreeBlock(c, l, inBuffers) ==
    /\ Running(c)
    /\ l \in Lxptr /\ ~IsDead(l)
    /\ IsWorking(l) => block[l][1].creatorTs = client[c].timestamp
    /\ functionList' = [functionList EXCEPT ![c] =
          @ \cup {[xptr |-> l, bogus |-> TRUE,
                   anchorTs |-> IF inBuffers THEN TotalAnchorTs(block[l]) ELSE 0]}]
    /\ allocated' = allocated \cup {l}
    /\ UNCHANGED <<snapshots, client, timestamp, checkpoint, block, fresh, shown>>

VeCommit(c) ==
    /\ Commit(c)
    /\ FreeBlocks
    /\ fresh' = [fresh EXCEPT ![c] = {}]

\* Mutant: the addresses the old versions were moved to are not freed.
VeRollbackLeaking(c) ==
    /\ Rollback(c)
    /\ LET moved == {r.xptr : r \in {q \in functionList[c] : ~q.bogus}}
           origin(x) == block[x][1].xptr
           restored == {origin(x) : x \in moved}
           at(l) == CHOOSE x \in moved : origin(x) = l
       IN block' = [x \in Xptr |-> IF x \in fresh[c] THEN <<>>
                                   ELSE IF x \in restored THEN block[at(x)] ELSE block[x]]
    /\ fresh' = [fresh EXCEPT ![c] = {}]
    /\ UNCHANGED shown

\* Old versions return to their blocks' addresses, new blocks are freed, deleted ones stay.
VeRollback(c) ==
    /\ Rollback(c)
    /\ LET moved == {r.xptr : r \in {q \in functionList[c] : ~q.bogus}}
           origin(x) == block[x][1].xptr
           restored == {origin(x) : x \in moved}
           at(l) == CHOOSE x \in moved : origin(x) = l
       IN block' = [x \in Xptr |-> IF x \in moved \cup fresh[c] THEN <<>>
                                   ELSE IF x \in restored THEN block[at(x)] ELSE block[x]]
    /\ fresh' = [fresh EXCEPT ![c] = {}]
    /\ UNCHANGED shown

VeUnregister(c) == Unregister(c) /\ FreeBlocks /\ UNCHANGED fresh

VeNext ==
    \/ \E c \in Client :
          \/ (RegisterUpdater(c) \/ RegisterReadOnly(c)) /\ UNCHANGED <<block, fresh, shown>>
          \/ \E l \in Xptr : \/ VeAllocateBlock(c, l)
                             \/ \E x \in Xptr : VeCreateBlockVersion(c, l, x)
                             \/ \E b \in BOOLEAN : VeFreeBlock(c, l, b)
          \/ VeCommit(c)
          \/ VeRollback(c)
          \/ VeUnregister(c)
    \/ \E purpose \in {"advancing", "checkpointing"} : Quiesce(purpose) /\ UNCHANGED <<block, fresh, shown>>
    \/ (AdvanceFailed \/ AdvanceSnapshots) /\ FreeBlocks /\ UNCHANGED fresh
    \/ OnBeginCheckpoint /\ UNCHANGED <<block, fresh, shown>>
    \/ OnCompleteCheckpoint /\ FreeBlocks /\ UNCHANGED fresh

VeSpec == VeInit /\ [][VeNext]_veVars

-----------------------------------------------------------------------------
\* The query branch of PutBlockVersionToBuffer: the address a transaction on the snapshot
\* of this timestamp is led to, and what it finds there.
VersionAt(l, ts) ==
    LET e == SnExpandDfvHeader(block[l])
        hits == {k \in DOMAIN e : e[k].ts = ts}
    IN IF hits = {} THEN NoVersion
       ELSE LET x == block[l][e[CHOOSE k \in hits : TRUE].id].xptr
            IN IF block[x] = <<>> \/ block[x][1].xptr # l THEN NoVersion ELSE block[x][1].creatorTs

\* Snapshot isolation: whatever updaters commit, roll back, delete and reuse, a reader
\* finds for every block that existed when its snapshot was taken the version of that time.
SnapshotIsolation ==
    \A i \in Slot : snapshots[i].type # "future" /\ ~snapshots[i].isDamaged =>
        LET ts == snapshots[i].timestamp IN
        \A l \in Xptr : shown[ts][l] # NoVersion =>
            l \in Lxptr /\ VersionAt(l, ts) = shown[ts][l]

\* A restart needs the persistent snapshot.  Every block of it still has its version of
\* that time, at the block's own address or at one address that is pending in a running
\* transaction or listed for this snapshot.
PersistentVersionKept ==
    LET p == ByType(snapshots, "persistent")
        ts == snapshots[p].timestamp
        listed == {x \in Xptr : ts \in Owners(x)} \cup {r.xptr : r \in Pending}
    IN checkpoint \in {"idle", "advancing", "checkpointing", "advanced"} =>
       \A l \in Xptr : shown[ts][l] # NoVersion =>
          \/ block[l] # <<>> /\ block[l][1] = [creatorTs |-> shown[ts][l], xptr |-> l]
          \/ \E x \in listed : block[x] # <<>> /\ block[x][1] = [creatorTs |-> shown[ts][l], xptr |-> l]

\* Every snapshot keeps its versions (wuversions.cpp): those that queries can use for
\* their readers, and the persistent one for a restart.
VersionsOfSnapshots == SnapshotIsolation /\ PersistentVersionKept

\* No address is lost: it is free, or holds a block, or a version that is pending or listed.
NoLeak ==
    /\ \A x \in Xptr : block[x] # <<>> => x \in Lxptr \/ x \in allocated
    /\ \A x \in allocated : block[x] # <<>>
=============================================================================
