----------------------------- MODULE PagedBTree -----------------------------
(***************************************************************************)
(* The B-tree that Gen_File_B_Tree (tpl_file_b_tree.H) keeps in its pages: *)
(* insertion with preemptive splits, removal with preemptive borrowing and *)
(* merging, the free list pages are taken from and released to, and the    *)
(* marks that tell sync() which pages and whether the header to write.     *)
(* What sync() then does with them is PagedStore's subject.                *)
(*                                                                         *)
(* The functions of the code are operators on a record that holds what     *)
(* they share: t.page[i] is page i, a leaf, an internal or a free one,     *)
(* t.free the head of the free list, t.dirty and t.header the marks.       *)
(* Positions count from 1: the child before key i is child i.  An access   *)
(* outside a page's arrays is recorded in t.wild and changes nothing else. *)
(***************************************************************************)
EXTENDS Integers, Sequences, FiniteSets, SequencesExt

CONSTANTS MinDegree,      \* the template's argument
          Keys,           \* the keys, numbers
          Fillings,       \* sequences of keys: insertions of a first session,
                          \* each of a key that is not there yet
          MaxOps,         \* bound: operations after that
          RemovesAbsent   \* whether remove is called for keys not in the tree

ASSUME BTreeAssumption ==
    /\ MinDegree \in Nat /\ MinDegree >= 2
    /\ Keys \subseteq Int
    /\ \A s \in Fillings : s \in Seq(Keys) /\ IsInjective(s)
    /\ MaxOps \in Nat
    /\ RemovesAbsent \in BOOLEAN

MinKeys == MinDegree - 1
MaxKeys == 2 * MinDegree - 1
NoPage == 0

VARIABLES
    tree,     \* the page cache: pages, free list head and dirty marks
    root,     \* root_page_
    size,     \* size_
    saved,    \* what the last sync wrote: pages, free list head, root, size
    stored,   \* history: the set of keys the operations should have left
    ops       \* how many operations have been performed

vars == <<tree, root, size, saved, stored, ops>>

-----------------------------------------------------------------------------
(* Pages.                                                                  *)

MakePage(kind) == [kind |-> kind, keys |-> <<>>, children |-> <<>>, link |-> NoPage]

EmptyCache == [page |-> <<>>, free |-> NoPage, dirty |-> {}, header |-> TRUE,
               wild |-> FALSE]

IsLeaf(t, p) == t.page[p].kind = "leaf"
KeyCount(t, p) == Len(t.page[p].keys)
Child(t, p, i) == t.page[p].children[i]

\* lower_bound_index: the first key that is not less than k.
LowerBound(t, p, k) ==
    LET keys == t.page[p].keys
    IN  Cardinality({i \in DOMAIN keys : keys[i] < k}) + 1

HasKeyAt(t, p, i, k) == i <= KeyCount(t, p) /\ t.page[p].keys[i] = k

\* A walk down the tree: n times from page p to the page that next names.
Follow(next, p, n) ==
    LET at[i \in Nat] == IF i = 0 THEN p ELSE next[at[i - 1]] IN at[n]

MarkDirty(t, ps) == [t EXCEPT !.dirty = @ \cup ps]

\* allocate_page: the page taken, from the free list if there is one.
AllocatedPage(t) == IF t.free # NoPage THEN t.free ELSE Len(t.page) + 1

AllocatePage(t, kind) ==
    LET p == AllocatedPage(t)
    IN  IF t.free # NoPage
        THEN [t EXCEPT !.free = t.page[p].link, !.page[p] = MakePage(kind),
                       !.dirty = @ \cup {p}, !.header = TRUE]
        ELSE [t EXCEPT !.page = Append(@, MakePage(kind)),
                       !.dirty = @ \cup {p}, !.header = TRUE]

\* Mutant: the list of free pages is not linked on.
ReleaseUnlinked(t, p) ==
    [t EXCEPT !.page[p] = MakePage("free"),
              !.free = p, !.dirty = @ \cup {p}, !.header = TRUE]

ReleasePage(t, p) ==
    [t EXCEPT !.page[p] = [MakePage("free") EXCEPT !.link = t.free],
              !.free = p, !.dirty = @ \cup {p}, !.header = TRUE]

-----------------------------------------------------------------------------
(* Insertion.                                                              *)

\* split_child: child i of p gives its upper half to a new page.
SplitChild(t, p, i) ==
    LET c == Child(t, p, i)
        child == t.page[c]
        parent == t.page[p]
        r == AllocatedPage(t)
        t1 == AllocatePage(t, child.kind)
    IN  MarkDirty(
          [t1 EXCEPT
             !.page[c].keys = SubSeq(child.keys, 1, MinKeys),
             !.page[c].children = SubSeq(child.children, 1,
                                         IF IsLeaf(t, c) THEN 0 ELSE MinDegree),
             !.page[r].keys = SubSeq(child.keys, MinDegree + 1, Len(child.keys)),
             !.page[r].children = SubSeq(child.children, MinDegree + 1,
                                         Len(child.children)),
             !.page[p].keys = InsertAt(parent.keys, i, child.keys[MinDegree]),
             !.page[p].children = InsertAt(parent.children, i + 1, r)],
          {c, r, p})

\* insert_nonfull.
InsertNonfull(c) ==
    LET t == c.t
        p == c.at
        i == LowerBound(t, p, c.key)
        t1 == SplitChild(t, p, i)
        j == IF t1.page[p].keys[i] < c.key THEN i + 1 ELSE i
    IN  IF IsLeaf(t, p)
        THEN [c EXCEPT !.t = MarkDirty([t EXCEPT !.page[p].keys =
                                                    InsertAt(@, i, c.key)],
                                       {p}),
                       !.todo = "inserted"]
        ELSE IF KeyCount(t, Child(t, p, i)) = MaxKeys
        THEN [c EXCEPT !.t = t1, !.at = Child(t1, p, j)]
        ELSE [c EXCEPT !.at = Child(t, p, i)]

-----------------------------------------------------------------------------
(* Removal.                                                                *)

\* min_in and max_in: the ends of the subtree below p.
MinIn(t, p) ==
    LET first == [q \in DOMAIN t.page |-> LET below == t.page[q].children
                                         IN  IF below = <<>> THEN q ELSE Head(below)]
    IN  Head(t.page[Follow(first, p, Len(t.page))].keys)

MaxIn(t, p) ==
    LET last == [q \in DOMAIN t.page |-> LET below == t.page[q].children
                                        IN  IF below = <<>> THEN q ELSE Last(below)]
    IN  Last(t.page[Follow(last, p, Len(t.page))].keys)

\* Mutant: the left child keeps the mark it had.
BorrowUnmarked(t, p, i) ==
    LET c == Child(t, p, i)
        l == Child(t, p, i - 1)
        left == t.page[l]
        moved == IF IsLeaf(t, l) THEN <<>> ELSE <<Last(left.children)>>
    IN  MarkDirty(
          [t EXCEPT
             !.page[c].keys = <<t.page[p].keys[i - 1]>> \o @,
             !.page[c].children = moved \o @,
             !.page[p].keys[i - 1] = Last(left.keys),
             !.page[l].keys = Front(@),
             !.page[l].children = SubSeq(@, 1, Len(@) - Len(moved))],
          {p, c})

\* borrow_from_prev: through key i - 1 of p, from child i - 1 to child i.
BorrowFromPrev(t, p, i) ==
    LET c == Child(t, p, i)
        l == Child(t, p, i - 1)
        left == t.page[l]
        moved == IF IsLeaf(t, l) THEN <<>> ELSE <<Last(left.children)>>
    IN  MarkDirty(
          [t EXCEPT
             !.page[c].keys = <<t.page[p].keys[i - 1]>> \o @,
             !.page[c].children = moved \o @,
             !.page[p].keys[i - 1] = Last(left.keys),
             !.page[l].keys = Front(@),
             !.page[l].children = SubSeq(@, 1, Len(@) - Len(moved))],
          {p, c, l})

\* Mutant: the right child keeps the child it gave away.
BorrowKeepsChild(t, p, i) ==
    LET c == Child(t, p, i)
        r == Child(t, p, i + 1)
        right == t.page[r]
        moved == IF IsLeaf(t, r) THEN <<>> ELSE <<Head(right.children)>>
    IN  MarkDirty(
          [t EXCEPT
             !.page[c].keys = Append(@, t.page[p].keys[i]),
             !.page[c].children = @ \o moved,
             !.page[p].keys[i] = Head(right.keys),
             !.page[r].keys = Tail(@)],
          {p, c, r})

\* borrow_from_next: through key i of p, from child i + 1 to child i.
BorrowFromNext(t, p, i) ==
    LET c == Child(t, p, i)
        r == Child(t, p, i + 1)
        right == t.page[r]
        moved == IF IsLeaf(t, r) THEN <<>> ELSE <<Head(right.children)>>
    IN  MarkDirty(
          [t EXCEPT
             !.page[c].keys = Append(@, t.page[p].keys[i]),
             !.page[c].children = @ \o moved,
             !.page[p].keys[i] = Head(right.keys),
             !.page[r].keys = Tail(@),
             !.page[r].children = SubSeq(@, Len(moved) + 1, Len(@))],
          {p, c, r})

\* merge_children: child i + 1 of p and key i join child i.
MergeChildren(t, p, i) ==
    IF i = 0 THEN [t EXCEPT !.wild = TRUE]
    ELSE LET l == Child(t, p, i)
             r == Child(t, p, i + 1)
             right == t.page[r]
         IN  ReleasePage(
               MarkDirty(
                 [t EXCEPT
                    !.page[l].keys = Append(@, t.page[p].keys[i]) \o right.keys,
                    !.page[l].children = @ \o right.children,
                    !.page[p].keys = RemoveAt(@, i),
                    !.page[p].children = RemoveAt(@, i + 1)],
                 {l, p}),
               r)

\* Mutant: a sibling with the fewest keys is taken for one with a key to spare.
EnsureAtMinimum(t, p, i) ==
    LET rich(j) == /\ j \in DOMAIN t.page[p].children
                   /\ KeyCount(t, Child(t, p, j)) >= MinDegree
    IN  IF rich(i) THEN [t |-> t, at |-> i]
        ELSE IF i > 1 /\ KeyCount(t, Child(t, p, i - 1)) >= MinKeys
        THEN [t |-> BorrowFromPrev(t, p, i), at |-> i]
        ELSE IF rich(i + 1) THEN [t |-> BorrowFromNext(t, p, i), at |-> i]
        ELSE IF i < Len(t.page[p].children)
        THEN [t |-> MergeChildren(t, p, i), at |-> i]
        ELSE [t |-> MergeChildren(t, p, i - 1), at |-> i - 1]

\* ensure_child_has_extra: the tree, and where the child is afterwards.
EnsureChildHasExtra(t, p, i) ==
    LET rich(j) == /\ j \in DOMAIN t.page[p].children
                   /\ KeyCount(t, Child(t, p, j)) >= MinDegree
    IN  IF rich(i) THEN [t |-> t, at |-> i]
        ELSE IF rich(i - 1) THEN [t |-> BorrowFromPrev(t, p, i), at |-> i]
        ELSE IF rich(i + 1) THEN [t |-> BorrowFromNext(t, p, i), at |-> i]
        ELSE IF i < Len(t.page[p].children)
        THEN [t |-> MergeChildren(t, p, i), at |-> i]
        ELSE [t |-> MergeChildren(t, p, i - 1), at |-> i - 1]

\* remove_from.
RemoveFrom(c) ==
    LET t == c.t
        p == c.at
        i == LowerBound(t, p, c.key)
        l == Child(t, p, i)
        r == Child(t, p, i + 1)
        Replaced(k) == MarkDirty([t EXCEPT !.page[p].keys[i] = k], {p})
        e == EnsureChildHasExtra(t, p, i)
    IN  IF HasKeyAt(t, p, i, c.key)
        THEN IF IsLeaf(t, p)
             THEN [c EXCEPT !.t = MarkDirty([t EXCEPT !.page[p].keys =
                                                         RemoveAt(@, i)],
                                            {p}),
                            !.todo = "removed"]
             ELSE IF KeyCount(t, l) >= MinDegree
             THEN [c EXCEPT !.t = Replaced(MaxIn(t, l)), !.at = l,
                            !.key = MaxIn(t, l)]
             ELSE IF KeyCount(t, r) >= MinDegree
             THEN [c EXCEPT !.t = Replaced(MinIn(t, r)), !.at = r,
                            !.key = MinIn(t, r)]
             ELSE [c EXCEPT !.t = MergeChildren(t, p, i), !.at = l]
        ELSE IF IsLeaf(t, p) THEN [c EXCEPT !.todo = "absent"]
        ELSE IF e.t.wild THEN [c EXCEPT !.t = e.t, !.todo = "absent"]
        ELSE [c EXCEPT !.t = e.t, !.at = Child(e.t, p, e.at)]

\* The loop at the end of remove: a root without keys gives way to its child.
ShrinkRoot(c) ==
    LET t == c.t
        p == c.at
    IN  IF p = NoPage \/ KeyCount(t, p) > 0 THEN [c EXCEPT !.todo = "shrunk"]
        ELSE [c EXCEPT !.t = ReleasePage(t, p),
                       !.at = IF IsLeaf(t, p) \/ t.page[p].children = <<>>
                              THEN NoPage ELSE Child(t, p, 1)]

-----------------------------------------------------------------------------
(* Calls.  c is the call of a function that ends by calling itself, or the *)
(* loop of remove: c.todo names it, c.at is the page it has come to and    *)
(* c.key its key.  A pass leads to its next call; there are no more passes *)
(* than levels, and no more levels than pages.                             *)

Pass(c) ==
    CASE c.todo = "insert_nonfull" -> InsertNonfull(c)
      [] c.todo = "remove_from" -> RemoveFrom(c)
      [] c.todo = "shrink_root" -> ShrinkRoot(c)
      [] OTHER -> c

Passes(c, n) ==
    LET after[i \in Nat] == IF i = 0 THEN c ELSE Pass(after[i - 1]) IN after[n]

Call(function, t, p, k) ==
    Passes([todo |-> function, t |-> t, at |-> p, key |-> k], Len(t.page))

-----------------------------------------------------------------------------
(* The operations.                                                         *)

\* contains.
ContainsKey(t, p, k) ==
    LET next == [q \in DOMAIN t.page |->
                    LET i == LowerBound(t, q, k)
                    IN  IF HasKeyAt(t, q, i, k) \/ i \notin DOMAIN t.page[q].children
                        THEN q ELSE Child(t, q, i)]
        q == Follow(next, p, Len(t.page))
    IN  p # NoPage /\ HasKeyAt(t, q, LowerBound(t, q, k), k)

\* insert of a key that is not there: the tree and its root.
Inserted(t, p, k) ==
    LET n == AllocatedPage(t)
        t1 == AllocatePage(t, IF p = NoPage THEN "leaf" ELSE "internal")
        grown == SplitChild([t1 EXCEPT !.page[n].children = <<p>>], n, 1)
    IN  IF p = NoPage
        THEN [t |-> [t1 EXCEPT !.page[n].keys = <<k>>], root |-> n]
        ELSE IF KeyCount(t, p) = MaxKeys
        THEN [t |-> Call("insert_nonfull", grown, n, k).t, root |-> n]
        ELSE [t |-> [Call("insert_nonfull", t, p, k).t EXCEPT !.header = TRUE],
              root |-> p]

Image == [page |-> tree.page, free |-> tree.free, root |-> root, size |-> size]

\* The keys inserted one after the other into an empty tree, then a sync.
Filled(s) ==
    LET after[i \in 0..Len(s)] ==
            IF i = 0 THEN [t |-> EmptyCache, root |-> NoPage]
            ELSE LET f == after[i - 1] IN Inserted(f.t, f.root, s[i])
    IN  after[Len(s)]

Init ==
    \E s \in Fillings :
        LET f == Filled(s)
        IN  /\ tree = [f.t EXCEPT !.dirty = {}, !.header = FALSE]
            /\ root = f.root
            /\ size = Len(s)
            /\ saved = [page |-> f.t.page, free |-> f.t.free, root |-> f.root,
                        size |-> Len(s)]
            /\ stored = ToSet(s)
            /\ ops = 0

\* After an access out of bounds nothing can be said.
Operate == ops < MaxOps /\ ~tree.wild /\ ops' = ops + 1

InsertKey(k) ==
    /\ Operate
    /\ ~ContainsKey(tree, root, k)
    /\ \E r \in {Inserted(tree, root, k)} : tree' = r.t /\ root' = r.root
    /\ size' = size + 1
    /\ stored' = stored \cup {k}
    /\ UNCHANGED saved

\* remove; a key that is not found leaves the rebalanced path as it is.
RemoveKey(k) ==
    /\ Operate
    /\ root # NoPage
    /\ k \in stored \/ RemovesAbsent
    /\ \E r \in {Call("remove_from", tree, root, k)} :
          IF r.todo = "removed"
          THEN LET s == Call("shrink_root", [r.t EXCEPT !.header = TRUE], root, k)
               IN  /\ tree' = s.t
                   /\ root' = s.at
                   /\ size' = size - 1
          ELSE /\ tree' = r.t
               /\ UNCHANGED <<root, size>>
    /\ stored' = stored \ {k}
    /\ UNCHANGED saved

ClearTree ==
    /\ Operate
    /\ tree' = EmptyCache
    /\ root' = NoPage
    /\ size' = 0
    /\ stored' = {}
    /\ UNCHANGED saved

\* sync, by the caller or by auto_sync.
Sync ==
    /\ ~tree.wild
    /\ tree.dirty # {} \/ tree.header
    /\ tree' = [tree EXCEPT !.dirty = {}, !.header = FALSE]
    /\ saved' = Image
    /\ UNCHANGED <<root, size, stored, ops>>

Next ==
    \/ \E k \in Keys : InsertKey(k) \/ RemoveKey(k)
    \/ ClearTree
    \/ Sync

Spec == Init /\ [][Next]_vars

-----------------------------------------------------------------------------
(* Properties.  Nothing is claimed once an access went out of bounds.      *)

InUse(t) == {p \in DOMAIN t.page : t.page[p].kind # "free"}

\* collect_keys: the keys below p, from left to right.
InOrder(t, p) ==
    LET keys[q \in InUse(t)] ==
            LET page == t.page[q]
            IN  IF IsLeaf(t, q) THEN page.keys
                ELSE FlattenSeq([i \in DOMAIN page.keys |->
                                    Append(keys[page.children[i]], page.keys[i])])
                     \o keys[Last(page.children)]
    IN  keys[p]

\* The levels the leaves below p are on.
LeafDepths(t, p) ==
    LET depths[q \in InUse(t)] ==
            IF IsLeaf(t, q) THEN {1}
            ELSE {d + 1 : d \in UNION {depths[c] : c \in ToSet(t.page[q].children)}}
    IN  depths[p]

(* What verify() and verify_node() test of the whole, and that the tree    *)
(* holds exactly the keys put into it: split, borrowed, merged and promoted *)
(* through whatever pages, no key is lost, doubled or out of the reach of  *)
(* contains(), and every leaf is on one level.                             *)
WellFormed ==
    ~tree.wild =>
        /\ size = Cardinality(stored)
        /\ root = NoPage <=> stored = {}
        /\ \A k \in Keys : ContainsKey(tree, root, k) <=> k \in stored
        /\ root # NoPage =>
              LET order == InOrder(tree, root)
              IN  /\ Len(order) = size /\ ToSet(order) = stored
                  /\ \A i \in 1..Len(order) - 1 : order[i] < order[i + 1]
                  /\ Cardinality(LeafDepths(tree, root)) = 1

(* What verify_node() tests of each page in use: it has room for its keys, *)
(* every page but the root is at least half full, and an internal page has *)
(* one child more than keys.  The preemptive splits and merges see to that *)
(* before they come to the page, for pages they may not reach.             *)
NodesFit ==
    ~tree.wild =>
        \A p \in DOMAIN tree.page :
            LET page == tree.page[p]
            IN  page.kind # "free" =>
                    /\ Len(page.keys) <= MaxKeys
                    /\ p # root => Len(page.keys) >= MinKeys
                    /\ Len(page.children) =
                          IF page.kind = "leaf" THEN 0 ELSE Len(page.keys) + 1

\* Every naming of a page: by whom (by the header, as page 0, are the head of
\* the free list and the root), at which of his children or, at 0, as the next
\* free page, and which page.
Namings ==
    {n \in {<<NoPage, 0, tree.free>>, <<NoPage, 1, root>>}
             \cup {<<q, 0, tree.page[q].link>> : q \in DOMAIN tree.page}
             \cup UNION {{<<q, i, Child(tree, q, i)>> :
                            i \in DOMAIN tree.page[q].children} :
                         q \in DOMAIN tree.page} :
        n[3] # NoPage}

(* allocate_page and release_page: every page of the cache has one place,  *)
(* once in the tree or once on the free list, and whoever goes from a page *)
(* to the one that names it comes to the header.  A page named nowhere is  *)
(* lost in the file for good; one that is named twice, or is both in the   *)
(* tree and free, is overwritten by the next split.                        *)
PagesAccounted ==
    ~tree.wild =>
        LET namings == Namings
            namer == [p \in {NoPage} \cup DOMAIN tree.page |->
                         IF p = NoPage THEN NoPage
                         ELSE (CHOOSE n \in namings : n[3] = p)[1]]
        IN  /\ DOMAIN tree.page = {n[3] : n \in namings}
            /\ \A n, m \in namings : n[3] = m[3] => n = m
            /\ \A n \in namings :
                  tree.page[n[3]].kind = "free" <=> n[2] = 0
            /\ \A p \in DOMAIN tree.page :
                  Follow(namer, p, Len(tree.page)) = NoPage

(* sync() writes the marked pages, and the header when it is marked, and   *)
(* nothing else: each page that is not as the last sync left it is marked, *)
(* and the header is when a field of it changed.  A change without its     *)
(* mark would be in the cache only, and gone after a restart.              *)
DirtyCovers ==
    ~tree.wild =>
        /\ \A p \in DOMAIN tree.page :
              \/ p \in tree.dirty
              \/ p \in DOMAIN saved.page /\ saved.page[p] = tree.page[p]
        /\ \/ tree.header
           \/ saved = [Image EXCEPT !.page = saved.page]

(* No step of remove uses an index outside a page, whatever key it is      *)
(* given: with one child and no key, the root offers ensure_child_has_     *)
(* extra no sibling to merge with.                                         *)
IndexInRange == ~tree.wild
=============================================================================
