----------------------------- MODULE Snapshots ------------------------------
(***************************************************************************)
(* The snapshots of the storage manager (sm/wu/wusnapshots.cpp): a list of *)
(* SNAPSHOTS_COUNT slots, unused ("future") ones in front, then the        *)
(* snapshots from the youngest to the oldest.  The slot at position i has  *)
(* a chain of i garbage nodes; node j holds the replaced versions that     *)
(* belong to this snapshot and to the j - 1 snapshots in front of it.      *)
(* Discarding a snapshot merges nodes and moves its slot to the front.     *)
(*                                                                         *)
(* The callers are modelled as far as they change the list: transactions   *)
(* that register, commit, roll back and unregister (wu.cpp), and the       *)
(* checkpoint thread, which advances the snapshots and makes one of them   *)
(* persistent while no updater runs (sm/trmgr.cpp).  The blocks that an    *)
(* updater replaces, and the oldest snapshot that shows each of them, are  *)
(* inputs here.                                                            *)
(***************************************************************************)
EXTENDS Integers, Sequences, FiniteSets

CONSTANTS Client,           \* rows of the table of transactions
          Xptr,             \* blocks that hold replaced versions
          SNAPSHOTS_COUNT,  \* slots of the list
          MaxTimestamp      \* bound: the last timestamp handed out

ASSUME SnapshotsAssumption ==
    /\ SNAPSHOTS_COUNT \in Nat \ {0}
    /\ MaxTimestamp \in Nat \ {0}

VARIABLES snapshots,     \* the list, position 1 is leadingSnapshot
          client,        \* SnClientState of every row, and VeClientState.isCompleted
          timestamp,     \* the next timestamp (wu.cpp)
          functionList,  \* the versions a transaction has replaced so far
          allocated,     \* the blocks of replaced versions not given back yet
          checkpoint     \* how far the checkpoint thread is

snVars == <<snapshots, client, timestamp, functionList, allocated, checkpoint>>

Slot == 1..SNAPSHOTS_COUNT
Timestamp == 1..MaxTimestamp
INVALID_TIMESTAMP == MaxTimestamp + 3
SnapshotType == {"regular", "persistent", "prev_persistent", "future"}
Entry == [xptr : Xptr, bogus : BOOLEAN]
Request == [xptr : Xptr, bogus : BOOLEAN, anchorTs : 0..INVALID_TIMESTAMP]

EmptyNode == [entries |-> {}, garbageCount |-> 0]
EmptyChain(n) == [j \in 1..n |-> EmptyNode]
FutureSnapshot(n) ==
    [timestamp |-> INVALID_TIMESTAMP, active |-> {}, type |-> "future", occupancy |-> 0,
     isDamaged |-> FALSE, gcChain |-> EmptyChain(n)]

-----------------------------------------------------------------------------
\* Looking up slots.  The position after the last one stands for "none".
None == SNAPSHOTS_COUNT + 1
First(I) == IF I = {} THEN None ELSE CHOOSE i \in I : \A j \in I : i <= j
ByType(sn, type) == First({i \in Slot : sn[i].type = type})
ByTimestamp(sn, ts) == First({i \in Slot : sn[i].timestamp = ts})
Current(sn) == First({i \in Slot : sn[i].type # "future"})
CurrentTs(sn) == IF Current(sn) = None THEN INVALID_TIMESTAMP ELSE sn[Current(sn)].timestamp

\* The blocks of all the versions in the chains.
Node == {n \in Slot \X Slot : n[2] <= n[1]}
Collected(sn) == UNION {{e.xptr : e \in sn[n[1]].gcChain[n[2]].entries} : n \in Node}

-----------------------------------------------------------------------------
\* Garbage chains.
Merge(dest, src) == [entries |-> dest.entries \cup src.entries,
                     garbageCount |-> dest.garbageCount + src.garbageCount]

\* Mutant: the second node is dropped instead of merged.
RotateGcChainLate(chain, k) ==
    [j \in DOMAIN chain |-> IF j <= k THEN chain[j]
                            ELSE IF j < Len(chain) THEN chain[j + 1] ELSE EmptyNode]

RotateGcChain(chain, k) ==
    [j \in DOMAIN chain |-> IF j < k THEN chain[j]
                            ELSE IF j = k THEN Merge(chain[k], chain[k + 1])
                            ELSE IF j < Len(chain) THEN chain[j + 1] ELSE EmptyNode]

\* The slot at position v becomes the leading one.  Its first node is purged, the others
\* go to the slot in front of it; the older slots merge the two nodes that it separated.
DiscardSnapshot(sn, v) ==
    LET inherited(i) == [j \in 1..i |-> IF i = v - 1 THEN Merge(sn[i].gcChain[j], sn[v].gcChain[j + 1])
                                                     ELSE sn[i].gcChain[j]]
    IN [i \in Slot |->
          IF i = 1 THEN FutureSnapshot(1)
          ELSE IF i <= v THEN [sn[i - 1] EXCEPT !.gcChain = Append(inherited(i - 1), EmptyNode)]
          ELSE [sn[i] EXCEPT !.gcChain = RotateGcChain(@, i - v)]]

CreateSnapshot(sn, ts, type, active) ==
    [sn EXCEPT ![Current(sn) - 1] = [@ EXCEPT !.timestamp = ts, !.active = active, !.type = type,
                                              !.occupancy = 0, !.isDamaged = FALSE]]

\* Snapshots that nobody uses are discarded, or marked damaged when they must be kept.
FirstToPurify(sn, keepCurrent) == Current(sn) + (IF keepCurrent THEN 1 ELSE 0)

\* Mutant: readers are not looked at.
DiscardableInUse(s) == s.type = "regular"

Discardable(s) == s.type = "regular" /\ s.occupancy = 0

\* Mutant: unused snapshots that stay are not marked.
NoAutoDamage(sn, keepCurrent) == sn

AutoDamageSnapshots(sn, keepCurrent) ==
    LET first == FirstToPurify(sn, keepCurrent)
    IN [i \in Slot |-> [sn[i] EXCEPT !.isDamaged = @ \/ (i >= first /\ sn[i].occupancy = 0)]]

PurifySnapshots(sn, keepCurrent) ==
    LET first == FirstToPurify(sn, keepCurrent)
        upTo[k \in 0..SNAPSHOTS_COUNT] ==
          IF k = 0 THEN sn
          ELSE IF k >= first /\ Discardable(sn[k])
               THEN DiscardSnapshot(upTo[k - 1], k)
               ELSE upTo[k - 1]
    IN AutoDamageSnapshots(upTo[SNAPSHOTS_COUNT], keepCurrent)

\* What purifying gives back to the free-block list.
Purged(sn, keepCurrent) == Collected(sn) \ Collected(PurifySnapshots(sn, keepCurrent))

\* Mutant: one snapshot too many is let through.
CanAdvanceOneMore(sn) ==
    /\ Cardinality({i \in Slot : i >= Current(sn) /\ ~sn[i].isDamaged}) <= SNAPSHOTS_COUNT - 1
    /\ sn[1].type = "future"

EnsureCanAdvanceSnapshots(sn) ==
    /\ Cardinality({i \in Slot : i >= Current(sn) /\ ~sn[i].isDamaged}) < SNAPSHOTS_COUNT - 1
    /\ sn[1].type = "future"

\* The version of a request goes to the oldest snapshot it belongs to; the node tells
\* how many younger ones share it.  Without such a snapshot its block is freed.
Dependants(sn, req) == {i \in Slot : i >= Current(sn) /\ sn[i].timestamp >= req.anchorTs}

Home(sn, req) ==
    LET D == Dependants(sn, req)
        last == CHOOSE i \in D : \A j \in D : j <= i
    IN IF D = {} THEN <<>> ELSE <<last, last - Current(sn) + 1>>

SubmitRequestsForGc(sn, requests) ==
    LET home == [r \in requests |-> Home(sn, r)]
        at(i, j) == {r \in requests : home[r] = <<i, j>>}
        extended(i, j) ==
          [entries |-> sn[i].gcChain[j].entries \cup {[xptr |-> r.xptr, bogus |-> r.bogus] : r \in at(i, j)},
           garbageCount |-> sn[i].gcChain[j].garbageCount + Cardinality({r \in at(i, j) : r.bogus})]
    IN [i \in Slot |-> [sn[i] EXCEPT !.gcChain = [j \in 1..i |-> extended(i, j)]]]

Discarded(sn, requests) == {r.xptr : r \in {q \in requests : Home(sn, q) = <<>>}}

\* Mutant: off by one, the node in front is taken too.
BelongsToOneMore(i, j, pos) == i >= pos /\ j >= i - pos

\* What the checkpoint record is told: versions of the persistent snapshot, and garbage.
BelongsTo(i, j, pos) == i >= pos /\ j > i - pos
Reported(sn, garbage) ==
    LET pos == ByType(sn, "persistent")
    IN UNION {{e \in sn[n[1]].gcChain[n[2]].entries :
                 (~BelongsTo(n[1], n[2], pos) \/ e.bogus) = garbage} : n \in Node}

\* Shutting down: the last snapshot goes too, which succeeds when no version needs it.
SnShutdown(sn) ==
    LET pos == ByType(sn, "persistent")
        retired == [i \in Slot |-> [sn[i] EXCEPT !.type = IF i = pos THEN "regular" ELSE @]]
    IN /\ \A n \in Node : BelongsTo(n[1], n[2], pos) => sn[n[1]].gcChain[n[2]].entries = {}
       /\ Current(PurifySnapshots(retired, FALSE)) = None

-----------------------------------------------------------------------------
ActiveTimestamps == {client[c].timestamp : c \in {d \in Client : client[d].status = "updater"}}
NoClient == [status |-> "none", timestamp |-> INVALID_TIMESTAMP, isCompleted |-> FALSE]

\* SnStartup after a recovery: the snapshot the last checkpoint made persistent.
Init ==
    /\ snapshots = CreateSnapshot([i \in Slot |-> FutureSnapshot(i)], 1, "persistent", {})
    /\ client = [c \in Client |-> NoClient]
    /\ timestamp = 2
    /\ functionList = [c \in Client |-> {}]
    /\ allocated = {}
    /\ checkpoint = "idle"

RegisterUpdater(c) ==
    /\ checkpoint = "idle"
    /\ client[c].status = "none"
    /\ timestamp <= MaxTimestamp
    /\ client' = [client EXCEPT ![c] = [status |-> "updater", timestamp |-> timestamp,
                                        isCompleted |-> FALSE]]
    /\ timestamp' = timestamp + 1
    /\ UNCHANGED <<snapshots, functionList, allocated, checkpoint>>

CanUseCurrentSnapshot == Current(snapshots) # None /\ ~snapshots[Current(snapshots)].isDamaged

RegisterReadOnly(c) ==
    /\ client[c].status = "none"
    /\ CanUseCurrentSnapshot
    /\ client' = [client EXCEPT ![c] = [status |-> "read_only", timestamp |-> CurrentTs(snapshots),
                                        isCompleted |-> FALSE]]
    /\ snapshots' = [snapshots EXCEPT ![Current(snapshots)].occupancy = @ + 1]
    /\ UNCHANGED <<timestamp, functionList, allocated, checkpoint>>

\* The updater replaces a block (or deletes it: a bogus version).  The oldest snapshot that
\* shows the replaced version is found now and used when the transaction commits.
PushVersion(c, req) ==
    /\ client[c].status = "updater" /\ ~client[c].isCompleted
    /\ req.xptr \notin allocated
    /\ functionList' = [functionList EXCEPT ![c] = @ \cup {req}]
    /\ allocated' = allocated \cup {req.xptr}
    /\ UNCHANGED <<snapshots, client, timestamp, checkpoint>>

\* SnOnTransactionEnd: an updater leaves the active timestamps, a reader its snapshot.
Leave(sn, c) ==
    IF client[c].status = "read_only"
    THEN [sn EXCEPT ![ByTimestamp(sn, client[c].timestamp)].occupancy = @ - 1]
    ELSE sn

SnOnTransactionEnd(c) ==
    IF client[c].status = "read_only" THEN PurifySnapshots(Leave(snapshots, c), TRUE) ELSE snapshots

PurgedOnTransactionEnd(c) ==
    IF client[c].status = "read_only" THEN Purged(Leave(snapshots, c), TRUE) ELSE {}

Commit(c) ==
    /\ client[c].status \in {"updater", "read_only"} /\ ~client[c].isCompleted
    /\ LET sn == SnOnTransactionEnd(c) IN
          /\ snapshots' = SubmitRequestsForGc(sn, functionList[c])
          /\ allocated' = allocated \ (PurgedOnTransactionEnd(c) \cup Discarded(sn, functionList[c]))
    /\ client' = [client EXCEPT ![c] = [status |-> "completed", timestamp |-> INVALID_TIMESTAMP,
                                        isCompleted |-> TRUE]]
    /\ functionList' = [functionList EXCEPT ![c] = {}]
    /\ UNCHANGED <<timestamp, checkpoint>>

\* The transaction may still read blocks, so its snapshot is left on unregistering only.
\* The blocks that hold replaced versions are freed, a deleted block stays where it is.
Rollback(c) ==
    /\ client[c].status \in {"updater", "read_only"} /\ ~client[c].isCompleted
    /\ client' = [client EXCEPT ![c].isCompleted = TRUE]
    /\ allocated' = allocated \ {r.xptr : r \in functionList[c]}
    /\ functionList' = [functionList EXCEPT ![c] = {}]
    /\ UNCHANGED <<snapshots, timestamp, checkpoint>>

Unregister(c) ==
    /\ client[c].isCompleted
    /\ snapshots' = SnOnTransactionEnd(c)
    /\ allocated' = allocated \ PurgedOnTransactionEnd(c)
    /\ client' = [client EXCEPT ![c] = NoClient]
    /\ UNCHANGED <<timestamp, functionList, checkpoint>>

-----------------------------------------------------------------------------
\* The checkpoint thread.  It takes all the units of the semaphore that updaters need, so
\* no updater runs until it is done; readers come and go.
NoUpdater == \A c \in Client : client[c].status # "updater"

Quiesce(purpose) ==
    /\ checkpoint = "idle" /\ NoUpdater
    /\ checkpoint' = purpose
    /\ UNCHANGED <<snapshots, client, timestamp, functionList, allocated>>

\* One call of SnTryAdvanceSnapshots.  When it fails the thread waits for a reader to end
\* and tries again.
AdvanceFailed ==
    /\ checkpoint \in {"advancing", "checkpointing"}
    /\ ~EnsureCanAdvanceSnapshots(PurifySnapshots(snapshots, FALSE))
    /\ snapshots' = PurifySnapshots(snapshots, FALSE)
    /\ allocated' = allocated \ Purged(snapshots, FALSE)
    /\ UNCHANGED <<client, timestamp, functionList, checkpoint>>

AdvanceSnapshots ==
    /\ checkpoint \in {"advancing", "checkpointing"}
    /\ timestamp <= MaxTimestamp
    /\ LET sn == PurifySnapshots(snapshots, FALSE) IN
          /\ EnsureCanAdvanceSnapshots(sn)
          /\ snapshots' = CreateSnapshot(sn, timestamp, "regular", ActiveTimestamps)
    /\ allocated' = allocated \ Purged(snapshots, FALSE)
    /\ timestamp' = timestamp + 1
    /\ checkpoint' = IF checkpoint = "advancing" THEN "idle" ELSE "advanced"
    /\ UNCHANGED <<client, functionList>>

CanBeginCheckpoint ==
    /\ ByType(snapshots, "prev_persistent") = None
    /\ Current(snapshots) # None
    /\ snapshots[Current(snapshots)].type = "regular"

OnBeginCheckpoint ==
    /\ checkpoint = "advanced"
    /\ CanBeginCheckpoint
    /\ snapshots' = [i \in Slot |-> [snapshots[i] EXCEPT
                        !.type = IF i = Current(snapshots) THEN "persistent"
                                 ELSE IF i = ByType(snapshots, "persistent") THEN "prev_persistent" ELSE @]]
    /\ checkpoint' = "begun"
    /\ UNCHANGED <<client, timestamp, functionList, allocated>>

\* Mutant: the former persistent snapshot is not made regular again.
CompleteWithoutRetiring ==
    /\ checkpoint = "begun"
    /\ snapshots' = PurifySnapshots(snapshots, TRUE)
    /\ allocated' = allocated \ Purged(snapshots, TRUE)
    /\ checkpoint' = "idle"
    /\ UNCHANGED <<client, timestamp, functionList>>

\* The versions are written to the checkpoint record, then the former persistent snapshot
\* becomes an ordinary one.
OnCompleteCheckpoint ==
    /\ checkpoint = "begun"
    /\ LET sn == [i \in Slot |-> [snapshots[i] EXCEPT
                     !.type = IF i = ByType(snapshots, "prev_persistent") THEN "regular" ELSE @]]
       IN /\ snapshots' = PurifySnapshots(sn, TRUE)
          /\ allocated' = allocated \ Purged(sn, TRUE)
    /\ checkpoint' = "idle"
    /\ UNCHANGED <<client, timestamp, functionList>>

PossibleAnchors ==
    {snapshots[i].timestamp : i \in {k \in Slot : k >= Current(snapshots)}}
      \cup {CurrentTs(snapshots) + 1, INVALID_TIMESTAMP}

Next ==
    \/ \E c \in Client : \/ RegisterUpdater(c)
                         \/ RegisterReadOnly(c)
                         \/ \E x \in Xptr, a \in PossibleAnchors, b \in BOOLEAN :
                               PushVersion(c, [xptr |-> x, bogus |-> b, anchorTs |-> a])
                         \/ Commit(c)
                         \/ Rollback(c)
                         \/ Unregister(c)
    \/ \E purpose \in {"advancing", "checkpointing"} : Quiesce(purpose)
    \/ AdvanceFailed
    \/ AdvanceSnapshots
    \/ OnBeginCheckpoint
    \/ OnCompleteCheckpoint

Spec == Init /\ [][Next]_snVars

-----------------------------------------------------------------------------
TypeOK ==
    /\ snapshots \in [Slot -> [timestamp : Timestamp \cup {INVALID_TIMESTAMP}, active : SUBSET Timestamp,
                               type : SnapshotType, occupancy : Nat, isDamaged : BOOLEAN,
                               gcChain : Seq([entries : SUBSET Entry, garbageCount : Nat])]]
    /\ client \in [Client -> [status : {"none", "updater", "read_only", "completed"},
                              timestamp : Timestamp \cup {INVALID_TIMESTAMP}, isCompleted : BOOLEAN]]
    /\ timestamp \in 1..(MaxTimestamp + 1)
    /\ functionList \in [Client -> SUBSET Request]
    /\ allocated \subseteq Xptr
    /\ checkpoint \in {"idle", "advancing", "checkpointing", "advanced", "begun"}

\* The list: unused slots first, then snapshots by decreasing timestamp; a version is in
\* one node only, in none that would be shared with an unused slot, and the counter of a
\* node is the number of its bogus versions (wusnapshots.cpp, the comments of SnSnapshot).
ListInOrder ==
    /\ \A i \in Slot : Len(snapshots[i].gcChain) = i
    /\ \A i, k \in Slot : i < k => \/ snapshots[i].type = "future"
                                   \/ /\ snapshots[k].type # "future"
                                      /\ snapshots[i].timestamp > snapshots[k].timestamp
    /\ \A m, n \in Node : \A e \in snapshots[m[1]].gcChain[m[2]].entries :
          \A f \in snapshots[n[1]].gcChain[n[2]].entries :
             e.xptr = f.xptr => m = n /\ e = f
    /\ \A n \in Node : LET node == snapshots[n[1]].gcChain[n[2]] IN
          /\ node.garbageCount = Cardinality({e \in node.entries : e.bogus})
          /\ node.entries # {} => n[1] - n[2] + 1 >= Current(snapshots)

\* A read-only transaction can always start: SnOnRegisterClient never answers that there is
\* no snapshot or that the current one is damaged.
ReadersAlwaysAdmitted == CanUseCurrentSnapshot

\* A reader keeps its snapshot: it exists, is not damaged, and counts its readers.
Readers(i) == {c \in Client : client[c].status = "read_only"
                               /\ client[c].timestamp = snapshots[i].timestamp}
ReadersKeepTheirSnapshot ==
    /\ \A i \in Slot : snapshots[i].occupancy = Cardinality(Readers(i))
    /\ \A c \in Client : client[c].status = "read_only" =>
          LET i == ByTimestamp(snapshots, client[c].timestamp)
          IN i # None /\ ~snapshots[i].isDamaged

\* A version header has room for the last committed version and one version for each
\* snapshot that queries can use, so ComposeHeader never has to damage a snapshot; and at
\* most one entry has to be filtered out of a header while updaters run.
HeaderHasRoom ==
    /\ Cardinality({i \in Slot : i >= Current(snapshots) /\ ~snapshots[i].isDamaged}) < SNAPSHOTS_COUNT
    /\ checkpoint = "idle" => Cardinality({i \in Slot : snapshots[i].isDamaged}) <= 1

\* SnOnBeginCheckpoint finds a regular snapshot to make persistent, and no checkpoint
\* that was not completed.
CheckpointCanBegin == checkpoint = "advanced" => CanBeginCheckpoint

\* The list of snapshots (wusnapshots.cpp) stays well formed through every sequence of
\* advances, discards, merges and checkpoints: in order, with room for a version of each
\* usable snapshot in a header, and with a snapshot for the next checkpoint.
SlotsConsistent == TypeOK /\ ListInOrder /\ HeaderHasRoom /\ CheckpointCanBegin

\* Readers are served: SnOnRegisterClient always finds a snapshot for a new one, and the
\* snapshot of a running one is neither discarded nor damaged before its end is reported.
ReadersServed == ReadersAlwaysAdmitted /\ ReadersKeepTheirSnapshot

\* The number of versions announced to the checkpoint record.
EntriesOf(n) == snapshots[n[1]].gcChain[n[2]].entries
SumOver(S, f(_)) == LET sum[T \in SUBSET S] == IF T = {} THEN 0
                                               ELSE LET n == CHOOSE n \in T : TRUE
                                                    IN f(n) + sum[T \ {n}]
                    IN sum[S]
PersVersionsCount ==
    LET pos == ByType(snapshots, "persistent")
        versions(n) == Cardinality(EntriesOf(n)) - snapshots[n[1]].gcChain[n[2]].garbageCount
    IN SumOver({n \in Node : BelongsTo(n[1], n[2], pos)}, versions)

\* The snapshots that a version belongs to.
Owners(x) ==
    UNION {{snapshots[k].timestamp : k \in (n[1] - n[2] + 1)..n[1]} :
              n \in {m \in Node : \E e \in EntriesOf(m) : e.xptr = x}}

\* The checkpoint record lists, as versions to restore, exactly the replaced versions of
\* the persistent snapshot that hold a block; every other replaced version is reported as
\* a block to free; and the announced number is the number listed.
CheckpointReportsPersistentVersions ==
    checkpoint = "begun" =>
        /\ {e.xptr : e \in Reported(snapshots, FALSE)} =
              {x \in Xptr : /\ snapshots[ByType(snapshots, "persistent")].timestamp \in Owners(x)
                            /\ \E n \in Node : [xptr |-> x, bogus |-> FALSE] \in EntriesOf(n)}
        /\ Reported(snapshots, FALSE) \cap Reported(snapshots, TRUE) = {}
        /\ Collected(snapshots) = {e.xptr : e \in Reported(snapshots, FALSE) \cup Reported(snapshots, TRUE)}
        /\ PersVersionsCount = Cardinality(Reported(snapshots, FALSE))

\* Advancing waits for readers on two different snapshots and for nothing else; a
\* persistent snapshot nobody reads, or readers on one snapshot, do not hold it up.
AdvanceWaitsForReadersOnly ==
    ~EnsureCanAdvanceSnapshots(PurifySnapshots(snapshots, FALSE)) /\ checkpoint \notin {"advanced", "begun"}
       => \E c, d \in Client : /\ client[c].status = "read_only"
                               /\ client[d].status = "read_only"
                               /\ client[c].timestamp # client[d].timestamp

\* The server stops with a checkpoint and no transactions: it leaves one snapshot and no
\* replaced version, so that SnShutdown succeeds and no block is lost.
ShutdownAfterCheckpoint ==
    [][OnCompleteCheckpoint /\ (\A c \in Client : client[c].status # "read_only")
          => SnShutdown(snapshots') /\ Collected(snapshots') = {}]_snVars

\* The list keeps the promise of VersionGc.
Gc == INSTANCE VersionGc WITH
         live <- {snapshots[i].timestamp : i \in {k \in Slot : snapshots[k].type # "future"}},
         protected <- {snapshots[i].timestamp :
                          i \in {k \in Slot : snapshots[k].type \in {"persistent", "prev_persistent"}}},
         reads <- [c \in Client |-> IF client[c].status = "read_only" THEN {client[c].timestamp} ELSE {}],
         owners <- [x \in Xptr |-> Owners(x)]

\* Discarding, merging and moving slots lose no version that a snapshot still needs and
\* keep none that no snapshot needs.
KeepsVersionsOfLiveSnapshots == Gc!GcSpec
=============================================================================
