----------------------------- MODULE VersionGc ------------------------------
(***************************************************************************)
(* What the snapshots promise to the rest of the storage manager.  Every   *)
(* version that an updater replaced belongs to a set of snapshots; it      *)
(* keeps its block for as long as one of them exists and gives the block   *)
(* back the moment the last one goes.  A snapshot that a read-only         *)
(* transaction uses, or that a restart would need, never goes.             *)
(***************************************************************************)
EXTENDS Integers

CONSTANTS Client,     \* rows of the table of transactions
          Xptr,       \* blocks that hold replaced versions
          Timestamp   \* the order in which snapshots are taken

VARIABLES live,       \* timestamps of the existing snapshots
          protected,  \* those that a checkpoint wrote or is writing
          reads,      \* for every client the snapshot it uses, as a set
          owners,     \* for every block the snapshots its version belongs to
          allocated   \* blocks taken from the free-block list

gcVars == <<live, protected, reads, owners, allocated>>

Youngest(S) == {s \in S : \A t \in S : t <= s}
InUse == protected \cup UNION {reads[c] : c \in Client}

GcInit ==
    /\ \E ts \in Timestamp : live = {ts}
    /\ protected = live
    /\ reads = [c \in Client |-> {}]
    /\ owners = [x \in Xptr |-> {}]
    /\ allocated = {}

\* A transaction replaces or deletes a block.
Replace(x) ==
    /\ x \notin allocated
    /\ allocated' = allocated \cup {x}
    /\ UNCHANGED <<live, protected, reads, owners>>

\* A commit hands the replaced versions X over: each belongs to the snapshots from some
\* oldest one up to the youngest, and a version that belongs to none is dropped.
HandOver(X) ==
    /\ X \subseteq allocated
    /\ \A x \in X : /\ owners[x] = {}
                    /\ \E anchor \in Timestamp : owners'[x] = {s \in live : s >= anchor}
    /\ \A x \in Xptr \ X : owners'[x] = owners[x]
    /\ allocated' = allocated \ {x \in X : owners'[x] = {}}
    /\ UNCHANGED <<live, protected, reads>>

\* A rollback takes the replaced versions back and drops the blocks X.
TakeBack(X) ==
    /\ \A x \in X : owners[x] = {}
    /\ allocated' = allocated \ X
    /\ UNCHANGED <<live, protected, reads, owners>>

\* Snapshots go that nobody uses afterwards, and so do exactly the versions that belonged
\* to no other snapshot.
DropUnused ==
    /\ (live \ live') \cap InUse' = {}
    /\ owners' = [x \in Xptr |-> owners[x] \cap live']
    /\ allocated' = allocated \ {x \in Xptr : owners[x] # {} /\ owners[x] \cap live' = {}}

\* Snapshots go, and a new one may appear that is the youngest of all.
Advance ==
    /\ UNCHANGED <<protected, reads>>
    /\ DropUnused
    /\ \E ts \in Timestamp : /\ \A t \in live : t < ts
                             /\ live' \subseteq live \cup {ts}

\* A read-only transaction starts on the youngest snapshot and ends.
Begin(c) ==
    /\ reads[c] = {}
    /\ reads' = [reads EXCEPT ![c] = Youngest(live)]
    /\ UNCHANGED <<live, protected, owners, allocated>>

End(c) ==
    /\ reads[c] # {}
    /\ reads' = [reads EXCEPT ![c] = {}]
    /\ protected' = protected
    /\ DropUnused
    /\ live' \subseteq live

\* A checkpoint protects the youngest snapshot, and when it is on disk releases the older.
Protect ==
    /\ protected' = protected \cup Youngest(live)
    /\ UNCHANGED <<live, reads, owners, allocated>>

Release ==
    /\ protected' = Youngest(protected)
    /\ reads' = reads
    /\ DropUnused
    /\ live' \subseteq live

GcNext ==
    \/ \E x \in Xptr : Replace(x)
    \/ \E X \in SUBSET Xptr : HandOver(X) \/ TakeBack(X)
    \/ \E c \in Client : Begin(c) \/ End(c)
    \/ Advance
    \/ Protect
    \/ Release

GcSpec == GcInit /\ [][GcNext]_gcVars
=============================================================================
