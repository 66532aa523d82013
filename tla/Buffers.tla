------------------------------- MODULE Buffers -------------------------------
(***************************************************************************)
(* The buffer pool of the storage manager (sm/bufmgr, wired to the block   *)
(* versions in sm/wu/wu.cpp) and the pages that the sessions map from it   *)
(* (tr/vmm/vmm.cpp).  A session reads and writes a buffer directly through *)
(* a page of its own address space.  The address of a page is the offset   *)
(* of the block, so blocks of different layers share a page, and CHECKP    *)
(* only compares layers to see whether the right block is mapped.          *)
(*                                                                         *)
(* The storage manager may give a buffer to another block only after every *)
(* session has unmapped it.  It asks the sessions one by one while they    *)
(* go on: the callback runs as a signal handler in the session's main      *)
(* thread and refuses the page that the session works with.  The session   *)
(* whose request is served is not asked; it unmaps the page itself when    *)
(* it gets the answer (swapped).  Requests for blocks are serialised by    *)
(* the semaphore vmm_sm_sem, the end of a transaction is reported without  *)
(* it.                                                                     *)
(*                                                                         *)
(* Of a block's content the number of the transaction that wrote it is     *)
(* kept.  Which version a query is to read, and when a replaced version is *)
(* garbage, is the subject of Versions and VersionGc and taken from there; *)
(* documents are locked exclusively (LocalLockMgr).  Node stands for the   *)
(* head of the stack of free blocks, which every allocation and every      *)
(* release of a block has to bring into a buffer.                          *)
(***************************************************************************)
EXTENDS Integers, Sequences, FiniteSetsExt, Functions

CONSTANTS Session,      \* session ids, numbers: the storage manager asks them in this order
          bufs_num,     \* buffers in the pool
          DataBlock,    \* addresses <<layer, offset>> of the blocks of the database at the start
          FreeBlock,    \* addresses of free blocks
          Node,         \* address of the head of the stack of free blocks
          MaxTransactions, \* bound: transactions
          MaxChanges       \* bound: blocks that one transaction creates, changes or deletes

Buffer == 1..bufs_num
Block == DataBlock \cup FreeBlock
Addr == Block \cup {Node}
Layer(a) == a[1]
Page(a) == a[2]
Pages == {Page(a) : a \in Addr}

ASSUME BuffersAssumption ==
    /\ Session \subseteq Nat \ {0} /\ IsFiniteSet(Session) /\ bufs_num \in Nat
    /\ DataBlock \cap FreeBlock = {} /\ Node \notin Block
    /\ \A a \in Addr : a \in Nat \X (Nat \ {0})

XNULL == <<0, 0>>
NoBuffer == 0
NoSession == 0
NoData == -1

VARIABLES
    free_mem, used_mem,  \* the lists of free and of used buffers
    buffer_table,        \* the buffer of every physical address
    phys_xptrs,          \* the address that a buffer is written to
    mem,                 \* what a buffer holds, with the words of its header
    disk,                \* the blocks of the data file
    sm,                  \* the request that the server thread works on
    committed,           \* the last committed content of every block
    old,                 \* addresses of replaced versions and deleted blocks that are kept
    free,                \* free addresses
    tran,                \* the transaction of every session
    transactions,        \* transactions so far
    page,                \* the buffer that every page of a session shows
    vmm_cur_xptr,        \* the block that a session works with
    main,                \* what the main thread of a session does
    vmm_sm_sem,          \* the session that holds the semaphore
    lost                 \* history: a buffer was given away between the answer and the mapping

pool == <<free_mem, used_mem, buffer_table, phys_xptrs, mem, disk>>
store == <<committed, old, free, tran, transactions>>
vars == <<pool, sm, store, page, vmm_cur_xptr, main, vmm_sm_sem, lost>>

-----------------------------------------------------------------------------
Header(p, d) == [p |-> p, data |-> d, is_changed |-> FALSE, trid_wr_access |-> NoSession]
OnDisk(h) == [p |-> h.p, data |-> h.data]
InBuffers(x) == buffer_table[x] # NoBuffer

\* What is kept at a physical address, in its buffer or in the data file.
Stored(x) == IF InBuffers(x) THEN OnDisk(mem[buffer_table[x]]) ELSE disk[x]

Idle == [op |-> "none", s |-> NoSession, p |-> XNULL, x |-> XNULL, todo |-> <<>>, swapped |-> XNULL,
         victim |-> NoBuffer, ask |-> {}, buffer_on_stake |-> NoBuffer, gone |-> {}]
Thread(pc, op, p) == [pc |-> pc, op |-> op, p |-> p, offs |-> NoBuffer, swapped |-> XNULL]
NoTran == [kind |-> "none", view |-> [l \in Block |-> NoData], touched |-> {},
           moved |-> {}, fresh |-> {}, freed |-> {}, stamp |-> NoData]

Init ==
    /\ free_mem = [b \in Buffer |-> b]
    /\ used_mem = <<>>
    /\ buffer_table = [x \in Addr |-> NoBuffer]
    /\ phys_xptrs = [b \in Buffer |-> XNULL]
    /\ mem = [b \in Buffer |-> Header(XNULL, NoData)]
    /\ disk = [x \in Addr |-> [p |-> x, data |-> IF x \in DataBlock THEN 0 ELSE NoData]]
    /\ sm = Idle
    /\ committed = [x \in Block |-> IF x \in DataBlock THEN 0 ELSE NoData]
    /\ old = {} /\ free = FreeBlock
    /\ tran = [s \in Session |-> NoTran]
    /\ transactions = 0
    /\ page = [s \in Session |-> [o \in Pages |-> NoBuffer]]
    /\ vmm_cur_xptr = [s \in Session |-> XNULL]
    /\ main = [s \in Session |-> Thread("idle", "none", XNULL)]
    /\ vmm_sm_sem = NoSession
    /\ lost = FALSE

-----------------------------------------------------------------------------
\* The sessions.  A transaction number stamps what its updates write: 2n in a block that it
\* has got for writing and not changed yet, 2n + 1 in one that it has changed.
Updaters == {s \in Session : tran[s].kind = "updater"}
Changes(s) == Cardinality(tran[s].moved) + Cardinality(tran[s].fresh) + Cardinality(tran[s].freed)
Own(s, l) == l \in tran[s].fresh \/ \E m \in tran[s].moved : m.p = l
PageOf(s, l) == page[s][Page(l)]

\* Bound: the data file is not extended, so a request waits until a free block is left for it.
FreeBlockLeft ==
    Cardinality({s \in Session : main[s].op \in {"unswap_write", "alloc"} /\ main[s].pc # "answer"}) < Cardinality(free)

\* The blocks a transaction may ask for, and what it has to find in them.
Visible(s, l) ==
    IF tran[s].kind = "query" THEN tran[s].view[l] # NoData
    ELSE /\ l \notin tran[s].freed
         /\ Own(s, l) \/ committed[l] # NoData
         /\ \A t \in Updaters \ {s} : l \notin tran[t].touched
Expected(s, l) == IF tran[s].kind = "query" \/ Own(s, l) THEN tran[s].view[l] ELSE committed[l]

vmm_on_transaction_begin(s, kind) ==
    /\ main[s].pc = "idle" /\ vmm_sm_sem = NoSession /\ sm = Idle
    /\ transactions < MaxTransactions /\ transactions' = transactions + 1
    /\ tran' = [tran EXCEPT ![s] = [NoTran EXCEPT !.kind = kind, !.stamp = 2 * transactions',
                                    !.view = IF kind = "query" THEN committed ELSE @]]
    /\ main' = [main EXCEPT ![s] = Thread("run", "none", XNULL)]
    /\ UNCHANGED <<pool, sm, committed, old, free, page, vmm_cur_xptr, vmm_sm_sem, lost>>

\* CHECKP(l): first the current block is set, then the layer in the page is compared.
CHECKP(s, l) ==
    /\ main[s].pc \in {"run", "use"} /\ tran[s].kind # "none"
    /\ Visible(s, l) /\ l # vmm_cur_xptr[s]
    /\ vmm_cur_xptr' = [vmm_cur_xptr EXCEPT ![s] = l]
    /\ main' = [main EXCEPT ![s] = Thread("test", "none", l)]
    /\ tran' = [tran EXCEPT ![s].touched = IF tran[s].kind = "updater" THEN @ \cup {l} ELSE @]
    /\ UNCHANGED <<pool, sm, committed, old, free, transactions, page, vmm_sm_sem, lost>>

TEST_XPTR(s, l) == PageOf(s, l) # NoBuffer /\ Layer(mem[PageOf(s, l)].p) = Layer(l)

Test(s) ==
    /\ main[s].pc = "test"
    /\ LET l == vmm_cur_xptr[s] IN
       main' = [main EXCEPT ![s] = IF TEST_XPTR(s, l) THEN Thread("use", "none", l)
                                                      ELSE Thread("sem", "unswap", l)]
    /\ UNCHANGED <<pool, sm, store, page, vmm_cur_xptr, vmm_sm_sem, lost>>

\* The header names the session that may write; another one has to ask for a version first.
VMM_SIGNAL_MODIFICATION(s) ==
    LET l == vmm_cur_xptr[s]
        b == PageOf(s, l)
    IN /\ main[s].pc \in {"use", "modify"} /\ tran[s].kind = "updater"
       /\ IF main[s].pc = "use" /\ mem[b].trid_wr_access # s
          THEN /\ Changes(s) < MaxChanges /\ FreeBlockLeft
               /\ main' = [main EXCEPT ![s] = Thread("sem", "unswap_write", l)]
               /\ UNCHANGED <<mem, tran>>
          ELSE /\ mem' = [mem EXCEPT ![b].is_changed = TRUE, ![b].data = tran[s].stamp + 1]
               /\ tran' = [tran EXCEPT ![s].view[l] = tran[s].stamp + 1]
               /\ main' = [main EXCEPT ![s] = Thread("use", "none", l)]
       /\ UNCHANGED <<free_mem, used_mem, buffer_table, phys_xptrs, disk, sm, committed, old, free,
                      transactions, page, vmm_cur_xptr, vmm_sm_sem, lost>>

vmm_request_alloc_block(s) ==
    /\ main[s].pc \in {"run", "use"} /\ tran[s].kind = "updater"
    /\ Changes(s) < MaxChanges /\ FreeBlockLeft
    /\ main' = [main EXCEPT ![s] = Thread("sem", "alloc", XNULL)]
    /\ UNCHANGED <<pool, sm, store, page, vmm_cur_xptr, vmm_sm_sem, lost>>

vmm_delete_block(s) ==
    /\ main[s].pc = "use" /\ tran[s].kind = "updater" /\ Changes(s) < MaxChanges
    /\ main' = [main EXCEPT ![s] = Thread("sem", "delete", vmm_cur_xptr[s])]
    /\ UNCHANGED <<pool, sm, store, page, vmm_cur_xptr, vmm_sm_sem, lost>>

\* reportToWu, without the semaphore.
reportToWu(s, how) ==
    /\ main[s].pc \in {"run", "use"} /\ tran[s].kind # "none"
    /\ main' = [main EXCEPT ![s] = IF tran[s].kind = "query" THEN Thread("ended", "none", XNULL)
                                   ELSE Thread("send", how, XNULL)]
    /\ UNCHANGED <<pool, sm, store, page, vmm_cur_xptr, vmm_sm_sem, lost>>

\* vmm_swap_unmap_conditional
Unmapped(pages, p) ==
    IF pages[Page(p)] # NoBuffer /\ mem[pages[Page(p)]].p = p
    THEN [pages EXCEPT ![Page(p)] = NoBuffer] ELSE pages


\* vmm_swap_unmap_unconditional: the buffer may hold another block already.
SwappedOut(pages, p) == IF p = XNULL THEN pages ELSE [pages EXCEPT ![Page(p)] = NoBuffer]

\* The semaphore is taken; a block to be deleted is unmapped and is no longer the current one.
Aquire(s) ==
    /\ main[s].pc = "sem" /\ vmm_sm_sem = NoSession
    /\ vmm_sm_sem' = s
    /\ main' = [main EXCEPT ![s].pc = "send"]
    /\ IF main[s].op = "delete"
       THEN /\ page' = [page EXCEPT ![s] = Unmapped(@, main[s].p)]
            /\ vmm_cur_xptr' = [vmm_cur_xptr EXCEPT ![s] = XNULL]
       ELSE UNCHANGED <<page, vmm_cur_xptr>>
    /\ UNCHANGED <<pool, sm, store, lost>>

\* The answer: the page of the block that had to leave the pool, then the new page.  The
\* block that was allocated becomes the current one after the semaphore is released.
Answered(s) ==
    LET m == main[s]
        unmapped == SwappedOut(page[s], m.swapped)
    IN /\ m.pc = "answer"
       /\ page' = [page EXCEPT ![s] = IF m.offs = NoBuffer THEN unmapped
                                      ELSE [unmapped EXCEPT ![Page(m.p)] = m.offs]]
       /\ vmm_sm_sem' = IF vmm_sm_sem = s THEN NoSession ELSE vmm_sm_sem
       /\ vmm_cur_xptr' = [vmm_cur_xptr EXCEPT ![s] = IF m.op = "alloc" THEN m.p ELSE @]
       /\ main' = [main EXCEPT ![s] =
              CASE m.op = "unswap" -> Thread("use", "none", m.p)
                [] m.op = "unswap_write" -> Thread("modify", "none", m.p)
                [] m.op = "alloc" -> Thread("test", "none", m.p)
                [] m.op = "delete" -> Thread("run", "none", XNULL)
                [] OTHER -> Thread("ended", "none", XNULL)]
       /\ UNCHANGED <<pool, sm, store, lost>>

\* vmm_on_transaction_end: the current block is given up first, then, under the semaphore,
\* every page is unmapped.
vmm_on_transaction_end(s) ==
    /\ \/ /\ main[s].pc = "ended"
          /\ main' = [main EXCEPT ![s] = Thread("unregister", "none", XNULL)]
          /\ vmm_cur_xptr' = [vmm_cur_xptr EXCEPT ![s] = XNULL]
          /\ UNCHANGED <<page, tran>>
       \/ /\ main[s].pc = "unregister" /\ vmm_sm_sem = NoSession /\ sm = Idle
          /\ main' = [main EXCEPT ![s] = Thread("idle", "none", XNULL)]
          /\ page' = [page EXCEPT ![s] = [o \in Pages |-> NoBuffer]]
          /\ tran' = [tran EXCEPT ![s] = NoTran]
          /\ UNCHANGED vmm_cur_xptr
    /\ UNCHANGED <<pool, sm, committed, old, free, transactions, vmm_sm_sem, lost>>

-----------------------------------------------------------------------------
\* The server thread.  A request is a list of steps; "put" brings a block into a buffer on
\* behalf of a session, or of none.
Put(s, x) == [do |-> "put", s |-> s, x |-> x, read |-> TRUE]
PutNew(s, x) == [do |-> "put", s |-> s, x |-> x, read |-> FALSE]
Stake(x) == [do |-> "stake", s |-> NoSession, x |-> x, read |-> FALSE]
Fix(x) == [do |-> "fix", s |-> NoSession, x |-> x, read |-> FALSE]
Remove(x) == [do |-> "remove", s |-> NoSession, x |-> x, read |-> FALSE]

ForEach(S, Steps(_)) == FoldSet(LAMBDA e, todo : Steps(e) \o todo, <<>>, S)

\* Where the transaction of a session finds its version of a block.
VersionAddress(s, l) ==
    IF tran[s].kind = "updater" THEN l
    ELSE CHOOSE x \in Block \ free : Stored(x) = [p |-> l, data |-> tran[s].view[l]]

\* Replaced versions and deleted blocks that no running query can ask for.
Garbage(versions) ==
    {x \in versions : LET c == Stored(x) IN
        \A s \in Session : tran[s].kind = "query" =>
           IF c.p = x THEN tran[s].view[x] = NoData ELSE tran[s].view[c.p] # c.data}

Replaced(s) == old \cup {m.x : m \in tran[s].moved} \cup tran[s].freed

delete_data_block(x) == <<Remove(x), Put(NoSession, Node)>>

\* OnTransactionRollback: an old version is moved back, its address is freed.
Rollback(t) ==
    ForEach({m.x : m \in t.moved}, LAMBDA x : <<Put(NoSession, x), Fix(x)>> \o delete_data_block(x))
    \o ForEach(t.fresh, delete_data_block)

Steps(s, op, l, x) ==
    CASE op = "unswap" -> <<Put(s, l), Put(NoSession, VersionAddress(s, l))>>
      [] op = "unswap_write" -> <<Put(s, l), Stake(l), Put(NoSession, Node), PutNew(NoSession, x)>>
      [] op = "alloc" -> <<Put(NoSession, Node), PutNew(s, x)>>
      [] op = "delete" -> <<>>
      [] op = "commit" -> ForEach(Garbage(Replaced(s)), delete_data_block)
      [] op = "rollback" -> Rollback(tran[s])

Revoked(blocks) ==
    [b \in Buffer |-> IF \E l \in blocks : buffer_table[l] = b THEN [mem[b] EXCEPT !.trid_wr_access = NoSession]
                      ELSE mem[b]]

\* OnTransactionCommit: the versions of the transaction become the last committed ones.
OnTransactionCommit(s) ==
    LET t == tran[s] IN
    /\ mem' = Revoked(t.fresh \cup {m.p : m \in t.moved})
    /\ committed' = [l \in Block |-> IF l \in t.freed THEN NoData ELSE IF Own(s, l) THEN t.view[l] ELSE committed[l]]
    /\ old' = Replaced(s)

Receive(s) ==
    LET m == main[s]
        needsBlock == m.op \in {"unswap_write", "alloc"}
    IN /\ m.pc = "send" /\ sm = Idle
       /\ \E x \in IF needsBlock THEN free ELSE {XNULL} :
             sm' = [Idle EXCEPT !.op = m.op, !.s = s, !.p = m.p, !.x = x, !.todo = Steps(s, m.op, m.p, x),
                                  !.gone = IF m.op = "commit" THEN Garbage(Replaced(s)) ELSE {}]
       /\ main' = [main EXCEPT ![s].pc = "wait"]
       /\ IF m.op = "commit" THEN OnTransactionCommit(s) ELSE UNCHANGED <<mem, committed, old>>
       /\ UNCHANGED <<free_mem, used_mem, buffer_table, phys_xptrs, disk, free, tran, transactions,
                      page, vmm_cur_xptr, vmm_sm_sem, lost>>

Todo == Head(sm.todo)
Working(do) == sm.todo # <<>> /\ Todo.do = do /\ sm.victim = NoBuffer
Done == [sm EXCEPT !.todo = Tail(@), !.victim = NoBuffer, !.ask = {}]

\* put_block_to_buffer fills the buffer it has got.
Fill(b, table, file) ==
    LET x == Todo.x IN
    /\ buffer_table' = [table EXCEPT ![x] = b]
    /\ mem' = [mem EXCEPT ![b] = IF Todo.read THEN Header(file[x].p, file[x].data) ELSE Header(x, NoData)]
    /\ phys_xptrs' = [phys_xptrs EXCEPT ![b] = x]
    /\ disk' = file

\* The block is in a buffer, or a buffer is free.
put_block_to_buffer ==
    /\ Working("put")
    /\ \/ /\ InBuffers(Todo.x)
          /\ sm' = Done
          /\ UNCHANGED pool
       \/ /\ ~InBuffers(Todo.x) /\ free_mem # <<>>
          /\ free_mem' = Tail(free_mem)
          /\ used_mem' = Append(used_mem, Head(free_mem))
          /\ Fill(Head(free_mem), buffer_table, disk)
          /\ sm' = Done
    /\ UNCHANGED <<store, page, vmm_cur_xptr, main, vmm_sm_sem, lost>>

\* get_free_buffer takes the next used buffer as the victim; the one on stake goes back.
get_free_buffer ==
    /\ Working("put") /\ ~InBuffers(Todo.x) /\ free_mem = <<>>
    /\ LET v == Head(used_mem) IN
       IF v = sm.buffer_on_stake
       THEN used_mem' = Append(Tail(used_mem), v) /\ UNCHANGED sm
       ELSE /\ used_mem' = Tail(used_mem)
            /\ sm' = [sm EXCEPT !.victim = v, !.ask = Session \ {Todo.s}]
    /\ UNCHANGED <<free_mem, buffer_table, phys_xptrs, mem, disk, store, page, vmm_cur_xptr, main, vmm_sm_sem, lost>>

\* unmap_block_in_tr and the signal handler in the session's main thread.  The page of the
\* current block is refused, whatever its layer is.
vmm_callback_unmap(s) ==
    /\ sm.victim # NoBuffer /\ s \in sm.ask /\ \A t \in sm.ask : s <= t
    /\ LET p == mem[sm.victim].p IN
       IF Page(vmm_cur_xptr[s]) # Page(p)
       THEN /\ page' = [page EXCEPT ![s] = Unmapped(@, p)]
            /\ sm' = [sm EXCEPT !.ask = @ \ {s}]
            /\ UNCHANGED used_mem
       ELSE /\ sm' = [sm EXCEPT !.victim = NoBuffer, !.ask = {}]
            /\ used_mem' = Append(used_mem, sm.victim)
            /\ UNCHANGED page
    /\ UNCHANGED <<free_mem, buffer_table, phys_xptrs, mem, disk, store, vmm_cur_xptr, main, vmm_sm_sem, lost>>

\* Mutant: a buffer is written to the address of its block, also an old version.
WrittenToItsBlock(b) == IF mem[b].is_changed THEN [disk EXCEPT ![mem[b].p] = OnDisk(mem[b])] ELSE disk

\* flush_buffer
Written(b) == IF mem[b].is_changed THEN [disk EXCEPT ![phys_xptrs[b]] = OnDisk(mem[b])] ELSE disk

\* Every session has agreed: the victim is written and gets the new block.  reportToWu does
\* not take the semaphore, so the victim may be the buffer just answered to another session
\* that has not mapped it yet (lost); what its page shows then is not followed.
Evict ==
    /\ sm.victim # NoBuffer /\ sm.ask = {}
    /\ LET v == sm.victim IN
       /\ Fill(v, [buffer_table EXCEPT ![phys_xptrs[v]] = NoBuffer], Written(v))
       /\ used_mem' = Append(used_mem, v)
       /\ sm' = [Done EXCEPT !.swapped = IF Todo.s = sm.s THEN mem[v].p ELSE @]
       /\ lost' = (lost \/ \E s \in Session : main[s].pc = "answer" /\ main[s].offs = v)
    /\ UNCHANGED <<free_mem, store, page, vmm_cur_xptr, main, vmm_sm_sem>>

\* AllocateDataBlockAndCopyData protects the buffer it copies from.
SetStake ==
    /\ Working("stake")
    /\ sm' = [Done EXCEPT !.buffer_on_stake = buffer_table[Todo.x]]
    /\ UNCHANGED <<pool, store, page, vmm_cur_xptr, main, vmm_sm_sem, lost>>

\* FixFlushXptr: the old version goes back to the address of its block; the version that is
\* discarded, if it is in a buffer, takes its place.
FixFlushXptr ==
    LET x == Todo.x
        b == buffer_table[x]
        l == mem[b].p
        other == buffer_table[l]
    IN /\ Working("fix")
       /\ buffer_table' = [buffer_table EXCEPT ![l] = b, ![x] = other]
       /\ phys_xptrs' = IF other = NoBuffer THEN [phys_xptrs EXCEPT ![b] = l]
                        ELSE [phys_xptrs EXCEPT ![b] = l, ![other] = x]
       /\ mem' = [mem EXCEPT ![b].is_changed = TRUE]
       /\ sm' = Done
       /\ UNCHANGED <<free_mem, used_mem, disk, store, page, vmm_cur_xptr, main, vmm_sm_sem, lost>>

\* Mutant: the buffer is not taken from the list of used buffers.
FreeBufferStillUsed ==
    LET b == buffer_table[Todo.x] IN
       /\ Working("remove")
       /\ IF b = NoBuffer THEN UNCHANGED <<free_mem, buffer_table>>
          ELSE /\ buffer_table' = [buffer_table EXCEPT ![Todo.x] = NoBuffer]
               /\ free_mem' = Append(free_mem, b)
       /\ sm' = Done
       /\ UNCHANGED <<used_mem, phys_xptrs, mem, disk, store, page, vmm_cur_xptr, main, vmm_sm_sem, lost>>

\* The first half of delete_data_block: the block leaves its buffer.
FreeBuffer ==
    LET x == Todo.x
        b == buffer_table[x]
    IN /\ Working("remove")
       /\ IF b = NoBuffer THEN UNCHANGED <<free_mem, used_mem, buffer_table>>
          ELSE /\ buffer_table' = [buffer_table EXCEPT ![x] = NoBuffer]
               /\ used_mem' = SelectSeq(used_mem, LAMBDA c : c # b)
               /\ free_mem' = Append(free_mem, b)
       /\ sm' = Done
       /\ UNCHANGED <<phys_xptrs, mem, disk, store, page, vmm_cur_xptr, main, vmm_sm_sem, lost>>

-----------------------------------------------------------------------------
\* What the request does when its blocks are in the buffers.
\* GrantExclusiveAccessToBuffer for a working version that is read again.
FinishUnswap(s, l) ==
    LET b == buffer_table[VersionAddress(s, l)] IN
    /\ mem' = [mem EXCEPT ![b].trid_wr_access = IF Own(s, l) THEN s ELSE @]
    /\ main' = [main EXCEPT ![s].pc = "answer", ![s].offs = b, ![s].swapped = sm.swapped]
    /\ UNCHANGED <<buffer_table, phys_xptrs, committed, old, free, tran>>

\* The new version gets the address of the block, the old one the new address (FixFlushXptrs).
FinishWrite(s, l, x) ==
    LET o == buffer_table[l]
        n == buffer_table[x]
    IN /\ mem' = [mem EXCEPT ![n] = [mem[o] EXCEPT !.is_changed = TRUE, !.trid_wr_access = s, !.data = tran[s].stamp],
                             ![o].is_changed = TRUE]
       /\ buffer_table' = [buffer_table EXCEPT ![l] = n, ![x] = o]
       /\ phys_xptrs' = [phys_xptrs EXCEPT ![n] = l, ![o] = x]
       /\ free' = free \ {x}
       /\ tran' = [tran EXCEPT ![s].moved = @ \cup {[p |-> l, x |-> x]}, ![s].view[l] = tran[s].stamp]
       /\ main' = [main EXCEPT ![s].pc = "answer", ![s].offs = n, ![s].swapped = sm.swapped]
       /\ UNCHANGED <<committed, old>>

FinishAlloc(s, x) ==
    LET b == buffer_table[x] IN
    /\ mem' = [mem EXCEPT ![b].is_changed = TRUE, ![b].trid_wr_access = s, ![b].data = tran[s].stamp]
    /\ free' = free \ {x}
    /\ tran' = [tran EXCEPT ![s].fresh = @ \cup {x}, ![s].touched = @ \cup {x}, ![s].view[x] = tran[s].stamp]
    /\ main' = [main EXCEPT ![s].pc = "answer", ![s].p = x, ![s].offs = b, ![s].swapped = sm.swapped]
    /\ UNCHANGED <<buffer_table, phys_xptrs, committed, old>>

\* A deleted block is only remembered.
FinishDelete(s, l) ==
    /\ tran' = [tran EXCEPT ![s].freed = @ \cup {l}]
    /\ main' = [main EXCEPT ![s].pc = "answer"]
    /\ UNCHANGED <<mem, buffer_table, phys_xptrs, committed, old, free>>

\* OnTransactionCommit has submitted the replaced versions; those nobody needs are free now.
FinishCommit(s) ==
    /\ old' = old \ sm.gone
    /\ free' = free \cup sm.gone
    /\ main' = [main EXCEPT ![s].pc = "answer"]
    /\ UNCHANGED <<mem, buffer_table, phys_xptrs, committed, tran>>

FinishRollback(s) ==
    LET t == tran[s] IN
       /\ mem' = Revoked(t.fresh \cup t.freed \cup {m.p : m \in t.moved})
       /\ free' = free \cup t.fresh \cup {m.x : m \in t.moved}
       /\ main' = [main EXCEPT ![s].pc = "answer"]
       /\ UNCHANGED <<buffer_table, phys_xptrs, committed, old, tran>>

Reply ==
    /\ sm # Idle /\ sm.todo = <<>>
    /\ CASE sm.op = "unswap" -> FinishUnswap(sm.s, sm.p)
         [] sm.op = "unswap_write" -> FinishWrite(sm.s, sm.p, sm.x)
         [] sm.op = "alloc" -> FinishAlloc(sm.s, sm.x)
         [] sm.op = "delete" -> FinishDelete(sm.s, sm.p)
         [] sm.op = "commit" -> FinishCommit(sm.s)
         [] sm.op = "rollback" -> FinishRollback(sm.s)
    /\ sm' = Idle
    /\ UNCHANGED <<free_mem, used_mem, disk, transactions, page, vmm_cur_xptr, vmm_sm_sem, lost>>

\* flush_data_buffers, by a checkpoint: no updating transaction runs.
flush_data_buffers ==
    /\ sm = Idle /\ Updaters = {}
    /\ \E x \in Addr : InBuffers(x) /\ mem[buffer_table[x]].is_changed
    /\ disk' = [x \in Addr |-> Stored(x)]
    /\ mem' = [b \in Buffer |-> IF b \in Range(buffer_table) THEN [mem[b] EXCEPT !.is_changed = FALSE] ELSE mem[b]]
    /\ UNCHANGED <<free_mem, used_mem, buffer_table, phys_xptrs, sm, store, page, vmm_cur_xptr, main, vmm_sm_sem, lost>>

SmNext ==
    \/ put_block_to_buffer \/ get_free_buffer \/ Evict \/ SetStake \/ FixFlushXptr \/ FreeBuffer
    \/ Reply
    \/ \E s \in Session : Receive(s) \/ vmm_callback_unmap(s)

SessionNext(s) ==
    \/ \E kind \in {"query", "updater"} : vmm_on_transaction_begin(s, kind)
    \/ \E l \in Block : CHECKP(s, l)
    \/ Test(s) \/ VMM_SIGNAL_MODIFICATION(s) \/ vmm_request_alloc_block(s) \/ vmm_delete_block(s)
    \/ \E how \in {"commit", "rollback"} : reportToWu(s, how)
    \/ Aquire(s) \/ Answered(s) \/ vmm_on_transaction_end(s)

Next == SmNext \/ flush_data_buffers \/ \E s \in Session : SessionNext(s)

Spec == Init /\ [][Next]_vars

-----------------------------------------------------------------------------
\* Type invariant; a version that is kept is not free.
TypeOK ==
    /\ free_mem \in Seq(Buffer) /\ used_mem \in Seq(Buffer)
    /\ buffer_table \in [Addr -> Buffer \cup {NoBuffer}]
    /\ phys_xptrs \in [Buffer -> Addr \cup {XNULL}]
    /\ \A b \in Buffer : mem[b].p \in Addr \cup {XNULL} /\ mem[b].trid_wr_access \in Session \cup {NoSession}
    /\ old \subseteq Block /\ free \subseteq Block /\ old \cap free = {}
    /\ vmm_cur_xptr \in [Session -> Block \cup {XNULL}]
    /\ vmm_sm_sem \in Session \cup {NoSession}

\* Every buffer is in one of the two lists once, or is the victim whose eviction is being
\* agreed on; the buffers not free are those in buffer_table, and phys_xptrs, which says where
\* a buffer is written, is the inverse of the table, through evictions, version creation
\* (FixFlushXptrs), rollback and the release of blocks.
BuffersAccounted ==
    LET all == free_mem \o used_mem \o (IF sm.victim = NoBuffer THEN <<>> ELSE <<sm.victim>>) IN
    /\ TypeOK
    /\ Len(all) = bufs_num /\ Range(all) = Buffer
    /\ {buffer_table[x] : x \in Addr} \ {NoBuffer} = Buffer \ Range(free_mem)
    /\ \A x \in Addr : InBuffers(x) => phys_xptrs[buffer_table[x]] = x

\* From message 38 until every page is unmapped a session reads no block.
Running(s) == main[s].pc \notin {"idle", "ended", "unregister"} /\ main[s].op \notin {"commit", "rollback"}

\* Pages that the session will unmap or map anew before it reads on.
BeingChanged(s) ==
    IF main[s].pc = "answer" THEN {Page(main[s].swapped), Page(main[s].p)}
    ELSE IF sm.s = s THEN {Page(sm.swapped)} ELSE {}

\* Whatever page a running transaction has mapped shows a buffer that is in use, with a block
\* of that page in the version the transaction has to see: CHECKP compares layers only and
\* relies on it.  No eviction, release of garbage or version created by another session
\* changes what is behind a page that is still mapped.
PagesShowTheirBlocks ==
    \A s \in Session : Running(s) => \A o \in Pages \ BeingChanged(s) :
        LET b == page[s][o] IN
        b # NoBuffer => /\ b \in Range(used_mem) \cup {sm.victim}
                        /\ Page(mem[b].p) = o
                        /\ mem[b].data = Expected(s, mem[b].p)

\* The block a transaction reads or modifies after CHECKP stays mapped until it moves on, and
\* it is the block asked for, with what the transaction wrote last or, if it has not
\* written, with the version of its snapshot: also when the block was evicted and read again,
\* and when a signal came between the setting of vmm_cur_xptr and the comparison.
CurrentBlockIsRight ==
    \A s \in Session : main[s].pc \in {"use", "modify"} =>
        LET l == vmm_cur_xptr[s]
            b == PageOf(s, l)
        IN b # NoBuffer /\ OnDisk(mem[b]) = [p |-> l, data |-> Expected(s, l)]

\* The session that a header allows to write in place (trid_wr_access) runs the transaction
\* that created the version.  A name left over would let the session's next transaction write
\* into a committed version, since VMM_SIGNAL_MODIFICATION asks for nothing then.
WriterOwnsVersion ==
    \A x \in Addr : InBuffers(x) =>
        LET h == mem[buffer_table[x]]
            s == h.trid_wr_access
        IN s # NoSession => Own(s, h.p) /\ h.data \in {tran[s].stamp, tran[s].stamp + 1}


\* The last committed version of every block is in a buffer or in the data file at an address
\* that is not free, while versions move between addresses, are evicted and are rolled back.
CommittedKept ==
    \A l \in Block : committed[l] # NoData =>
        \E x \in Block \ free : Stored(x) = [p |-> l, data |-> committed[l]]
=============================================================================
