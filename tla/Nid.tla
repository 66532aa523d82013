-------------------------------- MODULE Nid --------------------------------
(***************************************************************************)
(* The numbering scheme of XML nodes (tr/nid).  A node carries a label, a  *)
(* string of letters; document order and ancestry are decided by looking   *)
(* at two labels only.  A label is never changed, so a label must be found *)
(* between any two neighbours, however often that place was used before.   *)
(* The letter ALPHABET_SIZE continues a label to the labels of following   *)
(* siblings: L|255|x follows L and all of its descendants.                 *)
(*                                                                         *)
(* Transactions create documents, whose roots are numbered one after the   *)
(* other with the help of the catalog's master block (tr/cat).  One of the *)
(* documents is followed further: it is loaded by the bulk loader          *)
(* (tr/updates), whose hints spread the first labels, or created empty,    *)
(* and then updated: nodes are inserted at any place, subtrees deleted.    *)
(***************************************************************************)
EXTENDS Integers, SequencesExt

CONSTANTS
    ALPHABET_SIZE,  \* the letter that continues a label (255 in nid.h)
    DEF_LETTER,     \* the letter labels are extended with (25 in nid.h)
    Transactions,   \* updating transactions that may overlap
    Counts,         \* the node counts the first pass of a load may find
    Followed,       \* which documents are followed, by number
    Levels,         \* bound: depth of the document
    MaxRoots,       \* bound: documents created
    MaxLoaded,      \* bound: nodes of the loaded document
    MaxNodes,       \* bound: nodes of the updated document
    MaxInserts,     \* bound: nodes inserted after the load
    MaxDeletes      \* bound: subtrees deleted

MAX_LETTER == ALPHABET_SIZE - 1

ASSUME NidAssumption ==
    /\ {ALPHABET_SIZE, DEF_LETTER, Levels, MaxRoots, MaxLoaded, MaxNodes}
           \subseteq Nat \ {0}
    /\ 1 < DEF_LETTER /\ DEF_LETTER < MAX_LETTER
    /\ Counts \subseteq Nat /\ Followed \subseteq 1..MaxRoots
    /\ {MaxInserts, MaxDeletes} \subseteq Nat

VARIABLES
    stored,    \* last_nid of the catalog's master block (<<>>: no document)
    last_nid,  \* each transaction's copy of it
    active,    \* the transactions that run
    made,      \* the root labels each transaction created
    roots,     \* the root labels of committed transactions
    doc,       \* the followed document's nodes in document order
    loader,    \* the transaction that loads it, or None
    open,      \* level of the element being loaded
    sizehnt,   \* the level whose hint is in force, or NULL
    counts,    \* nodeStatistics: children of the largest element of a level
    inserts,   \* number of nodes inserted after the load
    deletes    \* number of subtrees deleted

catalogVars == <<stored, last_nid, active, made, roots>>
loadVars == <<loader, open, sizehnt, counts>>
vars == <<catalogVars, doc, loadVars, inserts, deletes>>

NULL == -1
None == "none"
AlgoError == "Algo error"
SE2023 == "SE2023"
Errors == {<<AlgoError>>, <<SE2023>>}

(* A letter is an unsigned char *)
Letters == 0 .. ALPHABET_SIZE
Decremented(letter) == (letter - 1) % (ALPHABET_SIZE + 1)

Prefix(p, n) == SubSeq(p, 1, n)
Repeat(letter, n) == [i \in 1..n |-> letter]

-----------------------------------------------------------------------------
(* Comparison of labels *)

Differences(p1, p2) == {i \in DOMAIN p1 \cap DOMAIN p2 : p1[i] # p2[i]}

lex_cmp(p1, p2) ==
    LET diff == Differences(p1, p2)
        i == Min(diff)
    IN  IF diff # {} THEN (IF p1[i] > p2[i] THEN 1 ELSE -1)
        ELSE IF Len(p1) > Len(p2) THEN 1
        ELSE IF Len(p2) > Len(p1) THEN -1 ELSE 0

lex_ispref(p1, p2) == Prefix(p2, Len(p1)) = p1

nid_cmp(p1, p2) == lex_cmp(p1, p2)

nid_cmp_effective(p1, p2) ==
    IF Differences(p1, p2) # {} THEN lex_cmp(p1, p2)
    ELSE IF Len(p1) > Len(p2)
    THEN IF p1[Len(p2) + 1] = ALPHABET_SIZE THEN 1 ELSE 2
    ELSE IF p2[Len(p1) + 1] = ALPHABET_SIZE THEN -1 ELSE -2

nid_ancestor(p1, p2) ==
    /\ Len(p1) < Len(p2)
    /\ p2[Len(p1) + 1] # ALPHABET_SIZE
    /\ lex_ispref(p1, p2)

Apart(p1, p2) == p1 # p2 /\ ~nid_ancestor(p1, p2) /\ ~nid_ancestor(p2, p1)

NID_CONSISTENT(p) == Last(p) # ALPHABET_SIZE

-----------------------------------------------------------------------------
(* Generation of labels.  size is the number of letters that must stay.    *)

(* The last letter that is left after the kept ones, before the last one,  *)
(* and that a carry can be added to *)
CarryPositions(p, size) ==
    {i \in size + 1 .. Len(p) - 1 : p[i] # ALPHABET_SIZE}

Carried(p, i) == Prefix(p, i - 1) \o <<p[i] + 1>> \o Repeat(1, Len(p) - i)

decrementNID(p, size) ==
    LET positive == {i \in size + 1 .. Len(p) - 1 : p[i] > 0}
        i == Max(positive)
    IN  IF Last(p) # 1 THEN Front(p) \o <<Decremented(Last(p))>>
        ELSE IF positive = {} THEN Front(p) \o <<0, DEF_LETTER>>
        ELSE IF p[i] > 1 THEN Prefix(p, i - 1) \o <<p[i] - 1>>
        ELSE Prefix(p, i - 1) \o <<0, DEF_LETTER>>

incrementNID_between(p, size) ==
    LET next == Front(p) \o <<Last(p) + 1>>
        carry == CarryPositions(next, size)
    IN  IF Last(next) # ALPHABET_SIZE THEN next
        ELSE IF carry # {} THEN Carried(next, Max(carry))
        ELSE Prefix(p, size) \o Repeat(ALPHABET_SIZE, Len(p) - size)
                \o <<DEF_LETTER, 1>>

incrementNID(p, size) ==
    LET next == Front(p) \o <<Last(p) + 1>>
        carried == Carried(next, Max(CarryPositions(next, size)))
    IN  IF next[size + 1] = ALPHABET_SIZE
        THEN IF Len(p) = size + 1
             THEN Prefix(p, size) \o <<MAX_LETTER, ALPHABET_SIZE, 1>>
             ELSE <<AlgoError>>
        ELSE IF Last(next) # ALPHABET_SIZE THEN next
        ELSE IF carried[size + 1] # ALPHABET_SIZE THEN carried
        ELSE Prefix(p, size) \o <<MAX_LETTER>>
                \o Repeat(ALPHABET_SIZE, Len(p) - size - 1) \o <<DEF_LETTER, 1>>

(* difsmall is a position, and 0 also says that there is none: the first   *)
(* letter of a label is never a difference of one *)
betweenNIDNoGap(lp, rp) ==
    LET gap   == {i \in DOMAIN lp \cap DOMAIN rp : lp[i] < rp[i]}
        i     == Min(gap)
    IN  IF gap # {} THEN Prefix(lp, i - 1) \o <<lp[i] + 1>>
        ELSE decrementNID(rp, Len(lp) + 1)

betweenNID(lp, rp) ==
    LET both  == DOMAIN lp \cap DOMAIN rp
        gap   == {i \in both : lp[i] + 1 < rp[i]}
        small == {i \in both \ {1} : lp[i] + 1 = rp[i]}
        i     == Min(gap)
        difsmall == Min(small)
    IN  IF gap # {} THEN Prefix(lp, i - 1) \o <<lp[i] + 1>>
        ELSE IF small = {} THEN decrementNID(rp, Len(lp) + 1)
        ELSE IF difsmall < Len(lp) THEN incrementNID_between(lp, difsmall)
        ELSE lp \o <<ALPHABET_SIZE, DEF_LETTER>>

-----------------------------------------------------------------------------
(* Hints of the bulk loader *)

(* ceil(log(count) / log(MAX_LETTER)), and at least 1; the increment is a  *)
(* quotient of integers *)
HintSize(count) == Min({s \in 1..count : MAX_LETTER ^ s >= count})

Hint(level) ==
    LET count == Max({counts[level], 1})
        size == HintSize(count)
    IN  [size |-> size,
         increment |-> Min({DEF_LETTER, (MAX_LETTER ^ size) \div (2 + count)})]

nid_create_right_hint(p, hint) ==
    LET first == Len(p) - hint.size + 1
        sum == Last(p) + hint.increment
        room == {i \in first .. Len(p) - 1 : p[i] + 1 # ALPHABET_SIZE}
    IN  IF sum < ALPHABET_SIZE THEN Front(p) \o <<sum>>
        ELSE IF room = {} THEN <<SE2023>>
        ELSE Front(Carried(p, Max(room))) \o <<sum - MAX_LETTER>>

nid_create_right(lp, pp) ==
    IF sizehnt # NULL THEN nid_create_right_hint(lp, Hint(sizehnt))
    ELSE incrementNID(lp, Len(pp))

nid_create_left(rp, pp) == decrementNID(rp, Len(pp))

nid_create_child(pp) ==
    IF sizehnt # NULL
    THEN pp \o Repeat(1, Hint(sizehnt).size - 1) \o <<1 + Hint(sizehnt).size>>
    ELSE pp \o <<1>>


updateEP_nid(p) ==
    LET below == {i \in DOMAIN p : p[i] < MAX_LETTER}
        i == Max(below)
        Ones(n) == [k \in 1..n |-> IF k % 2 = 1 THEN 1 ELSE ALPHABET_SIZE]
    IN  IF p = <<>> THEN <<1>>
        ELSE IF below = {} THEN Ones(Len(p) + 2)
        ELSE [k \in DOMAIN p |-> IF k < i THEN p[k]
                                 ELSE IF k = i THEN p[i] + 1
                                 ELSE Ones(Len(p))[k]]

-----------------------------------------------------------------------------
(* The tree, as its nodes in document order with their levels *)

Nodes == DOMAIN doc

(* i is an ancestor of j: the reference the labels are compared with *)
IsAncestor(i, j) ==
    i < j /\ \A k \in i + 1 .. j : doc[k].level > doc[i].level

Children(i) == {j \in Nodes : IsAncestor(i, j) /\ doc[j].level = doc[i].level + 1}

SubtreeEnd(i) == Max({i} \cup {j \in Nodes : IsAncestor(i, j)})

(* The open element, and what was loaded of its children *)
Opened == Max({i \in Nodes : doc[i].level = open})
CountedChildren == Cardinality({j \in Children(Opened) : doc[j].kind # "text"})
EndsInText == \E j \in Children(Opened) : j = Len(doc) /\ doc[j].kind = "text"

TypeOK ==
    /\ stored \in Seq(Letters)
    /\ last_nid \in [Transactions -> Seq(Letters)]
    /\ active \subseteq Transactions /\ made \in [Transactions -> Seq(Seq(Letters))]
    /\ roots \in Seq(Seq(Letters))
    /\ \A i \in Nodes : /\ doc[i].nid \in Seq(Letters) \ {<<>>}
                        /\ doc[i].level \in 0..Levels
                        /\ doc[i].kind \in {"element", "text", "other"}
    /\ loader \in Transactions \cup {None}
    /\ open \in 0..Levels /\ sizehnt \in {NULL} \cup (0..Levels)
    /\ counts \in [0..Levels -> Nat]
    /\ inserts \in 0..MaxInserts /\ deletes \in 0..MaxDeletes

NoCounts == [l \in 0..Levels |-> 0]

Init ==
    /\ stored = <<>> /\ roots = <<>>
    /\ last_nid = [t \in Transactions |-> <<>>]
    /\ active = {} /\ made = [t \in Transactions |-> <<>>]
    /\ doc = <<>> /\ loader = None /\ open = 0 /\ sizehnt = NULL
    /\ counts = NoCounts
    /\ inserts = 0 /\ deletes = 0

-----------------------------------------------------------------------------
(* Transactions and the labels of roots.  The master block is read and     *)
(* written under the metadata semaphore.                                   *)

(* A transaction process forgets its copies when the transaction ends *)
TransactionEnd(t) ==
    /\ active' = active \ {t}
    /\ made' = [made EXCEPT ![t] = <<>>]
    /\ last_nid' = [last_nid EXCEPT ![t] = <<>>]

catalog_on_transaction_begin(t) ==
    /\ doc = <<>> /\ t \notin active
    /\ active' = active \cup {t}
    /\ last_nid' = [last_nid EXCEPT ![t] = stored]
    /\ UNCHANGED <<stored, made, roots, doc, loadVars, inserts, deletes>>

(* Every updating transaction writes its copy back, whether it created a   *)
(* document or not *)
catalog_before_commit(t) ==
    /\ doc = <<>> /\ t \in active
    /\ stored' = last_nid[t]
    /\ roots' = roots \o made[t]
    /\ TransactionEnd(t)
    /\ UNCHANGED <<doc, loadVars, inserts, deletes>>

rollbackTransaction(t) ==
    /\ doc = <<>> /\ t \in active
    /\ TransactionEnd(t)
    /\ UNCHANGED <<stored, roots, doc, loadVars, inserts, deletes>>

nid_create_root(t) ==
    /\ doc = <<>> /\ t \in active /\ Len(roots) + Len(made[t]) < MaxRoots
    /\ last_nid' = [last_nid EXCEPT ![t] = updateEP_nid(@)]
    /\ made' = [made EXCEPT ![t] = Append(@, updateEP_nid(last_nid[t]))]
    /\ UNCHANGED <<stored, active, roots>>

(* A document that is not followed any further *)
CreateDocument(t) ==
    /\ nid_create_root(t)
    /\ UNCHANGED <<doc, loadVars, inserts, deletes>>

(* The document that is followed, the first one of its transaction *)
insert_document(t) ==
    /\ nid_create_root(t)
    /\ made[t] = <<>> /\ Len(roots) + 1 \in Followed
    /\ doc' = <<[nid |-> last_nid'[t], level |-> 0, kind |-> "element"]>>
    /\ UNCHANGED <<inserts, deletes>>

CreateEmpty(t) ==
    /\ insert_document(t)
    /\ UNCHANGED loadVars

-----------------------------------------------------------------------------
(* The bulk loader *)

(* The first pass has counted the children (the parser of the document     *)
(* itself is never closed and keeps its 1); the second one starts.         *)
loadDocument(t) ==
    /\ insert_document(t)
    /\ loader' = t /\ open' = 0 /\ sizehnt' = 0
    /\ \E c \in [1..Levels - 1 -> Counts] :
           counts' = [l \in 0..Levels |-> IF l = 0 THEN 1
                                         ELSE IF l < Levels THEN c[l] ELSE 0]

nid_on_kernel_statement_endKeepsHint(hint) == hint

(* What the end of a statement leaves in sizehnt *)
nid_on_kernel_statement_end(hint) == NULL

(* The file is not well-formed, or the hint has run out of labels (SE2023): *)
(* the statement ends, and its transaction is rolled back *)
LoadFails ==
    /\ loader # None
    /\ doc' = <<>> /\ loader' = None /\ open' = 0 /\ counts' = NoCounts
    /\ sizehnt' = nid_on_kernel_statement_end(sizehnt)
    /\ TransactionEnd(loader)
    /\ UNCHANGED <<stored, roots, inserts, deletes>>

(* The label of a child appended to the open element *)
LoadedNid ==
    LET parent == doc[Opened].nid
    IN  IF Children(Opened) = {} THEN nid_create_child(parent)
        ELSE nid_create_right(doc[Max(Children(Opened))].nid, parent)

(* The first pass counts one text for a path, and all other children *)
Loadable(kind) ==
    /\ loader # None /\ open < Levels /\ Len(doc) < MaxLoaded
    /\ CASE kind = "text" -> open > 0 /\ ~EndsInText
         [] kind = "other" -> open > 0 => CountedChildren < counts[open]
         [] kind = "element" ->
                IF open > 0 THEN CountedChildren < counts[open]
                ELSE \A j \in Children(1) : doc[j].kind # "element"

Loaded(kind) ==
    /\ Loadable(kind) /\ LoadedNid \notin Errors
    /\ doc' = Append(doc, [nid |-> LoadedNid, level |-> open + 1, kind |-> kind])
    /\ UNCHANGED <<catalogVars, loader, counts, inserts, deletes>>

(* addAttribute, addComment, addPI and addTextNode *)
addLeaf(kind) ==
    /\ Loaded(kind)
    /\ UNCHANGED <<open, sizehnt>>

(* The new element's own hint replaces the hint of its parent *)
addElement ==
    /\ Loaded("element")
    /\ open' = open + 1 /\ sizehnt' = open + 1

(* No hint is in force for the children that follow a closed element *)
close ==
    /\ loader # None /\ open > 0
    /\ open' = open - 1 /\ sizehnt' = NULL
    /\ UNCHANGED <<catalogVars, doc, loader, counts, inserts, deletes>>

LoadEnd ==
    /\ loader # None /\ open = 0
    /\ \E j \in Children(1) : doc[j].kind = "element"
    /\ loader' = None /\ counts' = NoCounts
    /\ sizehnt' = nid_on_kernel_statement_end(sizehnt)
    /\ UNCHANGED <<catalogVars, doc, open, inserts, deletes>>

-----------------------------------------------------------------------------
(* Updates *)

Updating == doc # <<>> /\ loader = None

(* The child of parent that follows its child l, and its first one if l is *)
(* 0; 0 if there is none *)
RightOf(parent, l) ==
    LET right == {r \in Children(parent) : r > l}
    IN  IF right = {} THEN 0 ELSE Min(right)

createNID(parent, l) ==
    LET r == RightOf(parent, l) IN
    IF l # 0
    THEN IF r # 0 THEN betweenNID(doc[l].nid, doc[r].nid)
         ELSE nid_create_right(doc[l].nid, doc[parent].nid)
    ELSE IF r # 0 THEN nid_create_left(doc[r].nid, doc[parent].nid)
    ELSE nid_create_child(doc[parent].nid)

(* A node inserted below parent, after its child l or as its first child   *)
(* (a failed insertion is rolled back) *)
InsertNode(parent, l, kind) ==
    /\ Updating /\ inserts < MaxInserts /\ Len(doc) < MaxNodes
    /\ doc[parent].kind = "element" /\ doc[parent].level < Levels
    /\ LET nid == createNID(parent, l)
           at == IF l = 0 THEN parent + 1 ELSE SubtreeEnd(l) + 1
       IN  /\ nid \notin Errors
           /\ doc' = InsertAt(doc, at, [nid |-> nid, level |-> doc[parent].level + 1,
                                        kind |-> kind])
    /\ inserts' = inserts + 1
    /\ UNCHANGED <<catalogVars, loadVars, deletes>>

insert_element(parent, l) == InsertNode(parent, l, "element")

IsText(i) == i # 0 /\ doc[i].kind = "text"

(* Text next to text is added to that node, which keeps its label *)
insert_text(parent, l) ==
    /\ parent # 1 /\ ~IsText(l) /\ ~IsText(RightOf(parent, l))
    /\ InsertNode(parent, l, "text")

Parent(i) == CHOOSE p \in Nodes : i \in Children(p)
LeftOf(i) == Max({0} \cup {l \in Children(Parent(i)) : l < i})

(* The text nodes that a deletion makes neighbours are merged: one of the  *)
(* two, depending on their sizes, takes the text of the other and stays *)
mergeSiblingTextNodes(i) ==
    LET r == RightOf(Parent(i), i)
    IN  IF IsText(LeftOf(i)) /\ IsText(r) THEN {LeftOf(i), r} ELSE {0}

(* The subtree of a node goes, and its labels may be used again *)
delete_node(i) ==
    /\ Updating /\ i > 1 /\ deletes < MaxDeletes
    /\ \E merged \in mergeSiblingTextNodes(i) :
           LET stays == {j \in Nodes : j # merged /\ j # i /\ ~IsAncestor(i, j)}
               nth == SetToSortSeq(stays, <)
           IN  doc' = [k \in 1..Cardinality(stays) |-> doc[nth[k]]]
    /\ deletes' = deletes + 1
    /\ UNCHANGED <<catalogVars, loadVars, inserts>>

Next ==
    \/ \E t \in Transactions : \/ catalog_on_transaction_begin(t)
                              \/ catalog_before_commit(t)
                              \/ rollbackTransaction(t)
                              \/ CreateDocument(t)
                              \/ CreateEmpty(t)
                              \/ loadDocument(t)
    \/ \E kind \in {"text", "other"} : addLeaf(kind)
    \/ addElement
    \/ close
    \/ LoadFails
    \/ LoadEnd
    \/ \E parent \in Nodes : \E l \in {0} \cup Children(parent) :
           insert_element(parent, l) \/ insert_text(parent, l)
    \/ \E i \in Nodes : delete_node(i)

Spec == Init /\ [][Next]_vars

-----------------------------------------------------------------------------
(* nid_cmp is a doc-order comparison: it puts any two nodes of a document  *)
(* in document order, and never calls two of them the same, whatever was   *)
(* loaded, inserted and deleted before.                                    *)
NidCmpIsDocumentOrder ==
    \A i \in Nodes : \A j \in i + 1 .. Len(doc) :
        /\ nid_cmp(doc[i].nid, doc[j].nid) = -1
        /\ nid_cmp(doc[j].nid, doc[i].nid) = 1

(* nid_ancestor says of two nodes whether one is an ancestor of the other: *)
(* a label that continues a sibling's is not taken for a descendant of it, *)
(* and a descendant's is not taken for a sibling's.                        *)
NidAncestorIsAncestor ==
    \A i, j \in Nodes :
        nid_ancestor(doc[i].nid, doc[j].nid) <=> IsAncestor(i, j)

(* nid_cmp_effective returns for two nodes what its header says: 2 and -2  *)
(* for a descendant and an ancestor, 1 and -1 for a node after and before. *)
NidCmpEffectiveTellsRelation ==
    \A i \in Nodes : \A j \in i + 1 .. Len(doc) :
        /\ nid_cmp(doc[i].nid, doc[j].nid) # 0
        /\ nid_cmp_effective(doc[i].nid, doc[j].nid)
             = (IF IsAncestor(i, j) THEN -2 ELSE -1)
        /\ nid_cmp_effective(doc[j].nid, doc[i].nid)
             = (IF IsAncestor(i, j) THEN 2 ELSE 1)

(* The labels tell the tree (numb_scheme.cpp): the order of the nodes and   *)
(* who is whose ancestor can be read off them alone, after every sequence   *)
(* of loads, insertions and deletions.                                      *)
LabelsTellTheTree ==
    /\ TypeOK
    /\ NidCmpIsDocumentOrder
    /\ NidAncestorIsAncestor
    /\ NidCmpEffectiveTellsRelation

(* Every generated label satisfies the assertion NID_CONSISTENT made after *)
(* it (it can be continued on either side), and an update never runs into  *)
(* the exception "Algo error" of incrementNID.                             *)
UpdatesAlwaysFindALabel ==
    /\ \A i \in Nodes : NID_CONSISTENT(doc[i].nid)
    /\ Updating => \A p \in Nodes : \A l \in {0} \cup Children(p) :
                       createNID(p, l) \notin Errors

OtherRoots ==
    Range(roots) \cup
    (UNION {Range(made[t]) : t \in active} \ {doc[i].nid : i \in Nodes \cap {1}})


(* Two documents are not the same node: nid_cmp, the doc-order comparison  *)
(* that the operator "is" relies on, never returns 0 for their roots.  The *)
(* code does not guarantee it (README, section 4).                         *)
RootsAreDifferentNodes ==
    \A i, j \in DOMAIN roots : i # j => nid_cmp(roots[i], roots[j]) # 0
=============================================================================
