-------------------------- MODULE PagedBTreeProofs --------------------------
(***************************************************************************)
(* What the B-tree in pages guarantees for every minimum degree, every set *)
(* of keys, every first session and any number of operations: each page in *)
(* use fits, each page has one place, in the tree or on the free list, and *)
(* each change is marked for the next sync.  As in PagedBTree, nothing is  *)
(* claimed once an index was outside a page.                               *)
(*                                                                         *)
(* The invariant gives every page the page that names it (by), the child   *)
(* it is of that page (at) and its height (level).  That each function of  *)
(* the code keeps such a witness is one lemma: Allocate and Release for    *)
(* the free list, Split, Borrow and Merge for pages, then the passes of    *)
(* insert_nonfull, remove_from and the loop at the end of remove, then the *)
(* calls, and last the operations.                                         *)
(***************************************************************************)
EXTENDS PagedBTree, CountingLemmas, SequenceTheorems, TLAPS

-----------------------------------------------------------------------------
(* Sequences, position by position.                                        *)

\* u is s from place a to place b.
IsPart(S, s, a, b, u) ==
    /\ u \in Seq(S)
    /\ Len(u) = IF a <= b THEN b - a + 1 ELSE 0
    /\ \A j \in 1..Len(u) : u[j] = s[a + j - 1]

LEMMA PartOf ==
  ASSUME NEW S, NEW s \in Seq(S), NEW a \in Nat \ {0}, NEW b \in Nat, b <= Len(s)
  PROVE  IsPart(S, s, a, b, SubSeq(s, a, b))
  BY DEF IsPart

LEMMA Joined ==
  ASSUME NEW S, NEW s \in Seq(S), NEW u \in Seq(S)
  PROVE  /\ s \o u \in Seq(S)
         /\ Len(s \o u) = Len(s) + Len(u)
         /\ \A j \in 1..Len(s) : (s \o u)[j] = s[j]
         /\ \A j \in 1..Len(u) : (s \o u)[Len(s) + j] = u[j]
  OBVIOUS

\* u is s with e put in before place i.
HasInserted(S, s, i, e, u) ==
    /\ u \in Seq(S)
    /\ Len(u) = Len(s) + 1
    /\ \A j \in 1..i - 1 : u[j] = s[j]
    /\ u[i] = e
    /\ \A j \in i..Len(s) : u[j + 1] = s[j]

LEMMA Inserting ==
  ASSUME NEW S, NEW s \in Seq(S), NEW i \in 1..Len(s) + 1, NEW e \in S
  PROVE  HasInserted(S, s, i, e, InsertAt(s, i, e))
  <1> DEFINE x == SubSeq(s, 1, i - 1)
             y == SubSeq(s, i, Len(s))
             z == x \o <<e>>
  <1>1. x \in Seq(S) /\ Len(x) = i - 1 /\ \A j \in 1..i - 1 : x[j] = s[j]
    BY PartOf DEF IsPart
  <1>2. y \in Seq(S) /\ Len(y) = Len(s) - i + 1 /\ \A j \in 1..Len(y) : y[j] = s[i + j - 1]
    BY PartOf DEF IsPart
  <1>3. <<e>> \in Seq(S) /\ Len(<<e>>) = 1 /\ <<e>>[1] = e
    OBVIOUS
  <1> HIDE DEF x, y
  <1>4. z \in Seq(S) /\ Len(z) = i /\ (\A j \in 1..i - 1 : z[j] = s[j]) /\ z[i] = e
    BY <1>1, <1>3, Joined
  <1> HIDE DEF z
  <1>5. /\ z \o y \in Seq(S)
        /\ Len(z \o y) = Len(s) + 1
        /\ \A j \in 1..i : (z \o y)[j] = z[j]
        /\ \A j \in 1..Len(y) : (z \o y)[i + j] = y[j]
    BY <1>2, <1>4, Joined
  <1>6. \A j \in i..Len(s) : (z \o y)[j + 1] = s[j]
    <2> SUFFICES ASSUME NEW j \in i..Len(s) PROVE (z \o y)[j + 1] = s[j]
      OBVIOUS
    <2> DEFINE m == j - i + 1
    <2>1. m \in 1..Len(y) /\ i + m = j + 1 /\ i + m - 1 = j
      BY <1>2
    <2> HIDE DEF m, x, y, z
    <2>2. (z \o y)[i + m] = y[m]
      BY <2>1, <1>5
    <2>3. y[m] = s[i + m - 1]
      BY <2>1, <1>2
    <2> QED BY <2>1, <2>2, <2>3
  <1>7. InsertAt(s, i, e) = z \o y
    BY DEF InsertAt, x, y, z
  <1> QED BY <1>4, <1>5, <1>6, <1>7 DEF HasInserted

\* u is s without its element at place i.
HasRemoved(S, s, i, u) ==
    /\ u \in Seq(S)
    /\ Len(u) = Len(s) - 1
    /\ \A j \in 1..i - 1 : u[j] = s[j]
    /\ \A j \in i..Len(s) - 1 : u[j] = s[j + 1]

LEMMA Removing ==
  ASSUME NEW S, NEW s \in Seq(S), NEW i \in 1..Len(s)
  PROVE  HasRemoved(S, s, i, RemoveAt(s, i))
  <1> DEFINE x == SubSeq(s, 1, i - 1)
             y == SubSeq(s, i + 1, Len(s))
  <1>1. x \in Seq(S) /\ Len(x) = i - 1 /\ \A j \in 1..i - 1 : x[j] = s[j]
    BY PartOf DEF IsPart
  <1>2. y \in Seq(S) /\ Len(y) = Len(s) - i /\ \A j \in 1..Len(y) : y[j] = s[i + j]
    BY PartOf DEF IsPart
  <1> HIDE DEF x, y
  <1>3. /\ x \o y \in Seq(S)
        /\ Len(x \o y) = Len(s) - 1
        /\ \A j \in 1..i - 1 : (x \o y)[j] = x[j]
        /\ \A j \in 1..Len(y) : (x \o y)[i - 1 + j] = y[j]
    BY <1>1, <1>2, Joined
  <1>4. \A j \in i..Len(s) - 1 : (x \o y)[j] = s[j + 1]
    <2> SUFFICES ASSUME NEW j \in i..Len(s) - 1 PROVE (x \o y)[j] = s[j + 1]
      OBVIOUS
    <2>1. j - i + 1 \in 1..Len(y) /\ i - 1 + (j - i + 1) = j /\ i + (j - i + 1) = j + 1
      BY <1>2
    <2>2. (x \o y)[i - 1 + (j - i + 1)] = y[j - i + 1]
      BY <2>1, <1>3
    <2>3. y[j - i + 1] = s[i + (j - i + 1)]
      BY <2>1, <1>2
    <2> QED BY <2>1, <2>2, <2>3
  <1>5. RemoveAt(s, i) = x \o y
    BY DEF RemoveAt, x, y
  <1> QED BY <1>1, <1>3, <1>4, <1>5 DEF HasRemoved

-----------------------------------------------------------------------------
(* Walks.  Follow and Passes are defined by recursion on the naturals; that  *)
(* there are such functions is shown from their initial pieces.             *)

\* The first n + 1 values of a walk.
Piece(next, p, n, g) == g = [i \in 0..n |-> IF i = 0 THEN p ELSE next[g[i - 1]]]

LEMMA Pieces ==
  ASSUME NEW next, NEW p
  PROVE  \A n \in Nat : \E g : Piece(next, p, n, g)
  <1> DEFINE Bad == {n \in Nat : ~ \E g : Piece(next, p, n, g)}
  <1> SUFFICES ASSUME Bad # {} PROVE FALSE
    OBVIOUS
  <1>1. PICK n \in Bad : \A m \in Bad : n <= m
    BY LeastNatural
  <1>2. CASE n = 0
    <2>1. Piece(next, p, 0, [i \in 0..0 |-> p])
      BY DEF Piece
    <2> QED BY <1>2, <2>1
  <1>3. CASE n # 0
    <2>1. n - 1 \in Nat /\ n - 1 \notin Bad
      BY <1>1, <1>3
    <2>2. PICK g : Piece(next, p, n - 1, g)
      BY <2>1
    <2> DEFINE h == [i \in 0..n |-> IF i = n THEN next[g[n - 1]] ELSE g[i]]
    <2>3. \A i \in 0..n : h[i] = IF i = 0 THEN p ELSE next[h[i - 1]]
      BY <2>2, <1>3, <2>1 DEF Piece
    <2>4. Piece(next, p, n, h)
      BY <2>3 DEF Piece
    <2> QED BY <2>4, <1>1
  <1> QED BY <1>2, <1>3

LEMMA PiecesAgree ==
  ASSUME NEW next, NEW p, NEW n \in Nat, NEW m \in Nat, NEW g, NEW h,
         Piece(next, p, n, g), Piece(next, p, m, h), m <= n
  PROVE  \A i \in 0..m : g[i] = h[i]
  <1> DEFINE Bad == {i \in 0..m : g[i] # h[i]}
  <1> SUFFICES ASSUME Bad # {} PROVE FALSE
    OBVIOUS
  <1>1. PICK i \in Bad : \A j \in Bad : i <= j
    <2>1. Bad \subseteq Nat
      OBVIOUS
    <2> QED BY <2>1, LeastNatural
  <1>2. i # 0
    BY <1>1 DEF Piece
  <1>3. i - 1 \in 0..m /\ i - 1 \notin Bad
    BY <1>1, <1>2
  <1>4. g[i] = next[g[i - 1]] /\ h[i] = next[h[i - 1]]
    BY <1>1, <1>2 DEF Piece
  <1> QED BY <1>1, <1>3, <1>4

LEMMA PieceEnds ==
  ASSUME NEW next, NEW p, NEW n \in Nat, NEW g, NEW h,
         Piece(next, p, n, g), n # 0 => Piece(next, p, n - 1, h)
  PROVE  g[n] = IF n = 0 THEN p ELSE next[h[n - 1]]
  <1>1. g[n] = IF n = 0 THEN p ELSE next[g[n - 1]]
    BY DEF Piece
  <1>2. CASE n # 0
    <2>1. n - 1 \in Nat /\ n - 1 <= n /\ n - 1 \in 0..n - 1
      BY <1>2
    <2>2. Piece(next, p, n - 1, h)
      BY <1>2
    <2>3. \A i \in 0..n - 1 : g[i] = h[i]
      BY <2>1, <2>2, PiecesAgree
    <2> QED BY <1>1, <1>2, <2>1, <2>3
  <1> QED BY <1>1, <1>2

LEMMA FollowIs ==
  ASSUME NEW next, NEW p
  PROVE  /\ Follow(next, p, 0) = p
         /\ \A n \in Nat : Follow(next, p, n + 1) = next[Follow(next, p, n)]
  <1> DEFINE G == [n \in Nat |-> CHOOSE g : Piece(next, p, n, g)]
             f == [n \in Nat |-> G[n][n]]
             Is(at) == at = [i \in Nat |-> IF i = 0 THEN p ELSE next[at[i - 1]]]
  <1>1. \A n \in Nat : Piece(next, p, n, G[n])
    BY Pieces
  <1>2. \A n \in Nat : f[n] = IF n = 0 THEN p ELSE next[f[n - 1]]
    <2> SUFFICES ASSUME NEW n \in Nat PROVE f[n] = IF n = 0 THEN p ELSE next[f[n - 1]]
      OBVIOUS
    <2>1. Piece(next, p, n, G[n]) /\ (n # 0 => Piece(next, p, n - 1, G[n - 1]))
      BY <1>1
    <2>2. f[n] = G[n][n] /\ (n # 0 => f[n - 1] = G[n - 1][n - 1])
      OBVIOUS
    <2> HIDE DEF G, f
    <2>3. G[n][n] = IF n = 0 THEN p ELSE next[G[n - 1][n - 1]]
      BY <2>1, PieceEnds
    <2> QED BY <2>2, <2>3
  <1> HIDE DEF G
  <1>3. Is(f)
    BY <1>2
  <1> HIDE DEF f
  <1> DEFINE at == CHOOSE a : Is(a)
  <1>4. Is(at)
    BY <1>3
  <1>5. \A n \in Nat : Follow(next, p, n) = at[n]
    BY DEF Follow
  <1> HIDE DEF at
  <1>6. \A n \in Nat : at[n] = IF n = 0 THEN p ELSE next[at[n - 1]]
    BY <1>4
  <1>7. \A n \in Nat : at[n + 1] = next[at[n]]
    BY <1>6
  <1> QED BY <1>5, <1>6, <1>7

LEMMA FollowStays ==
  ASSUME NEW D, NEW next, NEW p \in D, \A q \in D : next[q] \in D
  PROVE  \A n \in Nat : Follow(next, p, n) \in D
  <1> DEFINE Bad == {n \in Nat : Follow(next, p, n) \notin D}
  <1> SUFFICES ASSUME Bad # {} PROVE FALSE
    OBVIOUS
  <1>1. PICK n \in Bad : \A m \in Bad : n <= m
    BY LeastNatural
  <1>2. n # 0
    BY <1>1, FollowIs
  <1>3. n - 1 \in Nat /\ n - 1 \notin Bad /\ (n - 1) + 1 = n
    BY <1>1, <1>2
  <1>4. Follow(next, p, (n - 1) + 1) = next[Follow(next, p, n - 1)]
    BY <1>3, FollowIs, ZenonT(60)
  <1> QED BY <1>1, <1>3, <1>4

\* Calls that Pass does not lead out of a set.
LEMMA PassesAre ==
  ASSUME NEW D, NEW c \in D, \A x \in D : Pass(x) \in D
  PROVE  /\ Passes(c, 0) = c
         /\ \A n \in Nat : Passes(c, n) \in D /\ Passes(c, n + 1) = Pass(Passes(c, n))
  <1> DEFINE next == [x \in D |-> Pass(x)]
             f == [n \in Nat |-> Follow(next, c, n)]
             Is(after) == after = [i \in Nat |-> IF i = 0 THEN c
                                                ELSE Pass(after[i - 1])]
  <1>1. \A x \in D : next[x] \in D /\ next[x] = Pass(x)
    OBVIOUS
  <1> HIDE DEF next
  <1>2. \A n \in Nat : Follow(next, c, n) \in D
    BY <1>1, FollowStays
  <1>3. \A n \in Nat : f[n] = IF n = 0 THEN c ELSE Pass(f[n - 1])
    <2> SUFFICES ASSUME NEW n \in Nat PROVE f[n] = IF n = 0 THEN c ELSE Pass(f[n - 1])
      OBVIOUS
    <2>1. CASE n = 0
      BY <2>1, FollowIs
    <2>2. CASE n # 0
      <3>1. n - 1 \in Nat /\ (n - 1) + 1 = n
        BY <2>2
      <3>2. Follow(next, c, (n - 1) + 1) = next[Follow(next, c, n - 1)]
        BY <3>1, FollowIs
      <3> QED BY <2>2, <3>1, <3>2, <1>1, <1>2
    <2> QED BY <2>1, <2>2
  <1>4. Is(f)
    BY <1>3
  <1> HIDE DEF f
  <1> DEFINE after == CHOOSE a : Is(a)
  <1>5. Is(after)
    BY <1>4
  <1>6. \A n \in Nat : Passes(c, n) = after[n]
    BY DEF Passes
  <1> HIDE DEF after
  <1>7. \A n \in Nat : after[n] = IF n = 0 THEN c ELSE Pass(after[n - 1])
    BY <1>5
  <1> DEFINE Bad == {n \in Nat : after[n] \notin D}
  <1>8. ASSUME Bad # {} PROVE FALSE
    <2>1. PICK n \in Bad : \A m \in Bad : n <= m
      BY <1>8, LeastNatural
    <2>2. n # 0
      BY <1>7, <2>1
    <2>3. n - 1 \in Nat /\ n - 1 \notin Bad
      BY <2>1, <2>2
    <2> QED BY <1>7, <2>1, <2>2, <2>3
  <1>9. after[0] = c /\ \A n \in Nat : after[n + 1] = Pass(after[n])
    <2>1. after[0] = c
      BY <1>7
    <2>2. ASSUME NEW n \in Nat PROVE after[n + 1] = Pass(after[n])
      <3>1. n + 1 \in Nat /\ n + 1 # 0 /\ (n + 1) - 1 = n
        OBVIOUS
      <3> QED BY <1>7, <3>1
    <2> QED BY <2>1, <2>2
  <1>10. \A n \in Nat : after[n] \in D
    BY <1>8
  <1>11. ASSUME NEW n \in Nat PROVE Passes(c, n) = after[n] /\ Passes(c, n + 1) = after[n + 1]
    BY <1>6
  <1>12. Passes(c, 0) = after[0]
    BY <1>6
  <1> QED BY <1>9, <1>10, <1>11, <1>12

LEMMA PassesStay ==
  ASSUME NEW D, NEW c \in D, \A x \in D : Pass(x) \in D
  PROVE  \A n \in Nat : Passes(c, n) \in D
  BY PassesAre

-----------------------------------------------------------------------------
(* What holds of a cache.                                                  *)

Page == [kind : {"leaf", "internal", "free"}, keys : Seq(Int),
         children : Seq(Nat), link : Nat]
Cache == [page : Seq(Page), free : Nat, dirty : SUBSET Nat, header : BOOLEAN,
          wild : BOOLEAN]

\* Pages in use and free pages, without those just taken or about to be given
\* back (hand).
InTree(t, hand) == {p \in DOMAIN t.page \ hand : t.page[p].kind # "free"}
OnList(t, hand) == {p \in DOMAIN t.page \ hand : t.page[p].kind = "free"}

\* The page p of a tree with the root r, in its own right.
Fits(t, r, p) ==
    LET page == t.page[p]
    IN  /\ Len(page.keys) <= MaxKeys
        /\ p # r => Len(page.keys) >= MinKeys
        /\ page.kind = "leaf" => page.children = <<>>
        /\ page.kind = "internal" => Len(page.children) = Len(page.keys) + 1
        /\ page.link = NoPage

\* The free page p.
Blank(t, p) == t.page[p].keys = <<>> /\ t.page[p].children = <<>>

\* The page p of the tree names its children: by[c] is the page that names c,
\* at[c] the place; level[c] the length of the way down.
NamesChildren(t, hand, by, at, level, p) ==
    \A i \in DOMAIN t.page[p].children :
        LET c == Child(t, p, i)
        IN  /\ c \in InTree(t, hand)
            /\ by[c] = p /\ at[c] = i
            /\ level[c] + 1 = level[p]

\* Whoever is not the root is named by another page of the tree.
IsNamed(t, hand, by, at, p) ==
    /\ by[p] \in InTree(t, hand)
    /\ at[p] \in DOMAIN t.page[by[p]].children
    /\ Child(t, by[p], at[p]) = p

TreeHolds(t, r, hand, by, at, level) ==
    /\ r = NoPage => InTree(t, hand) = {}
    /\ r # NoPage => r \in InTree(t, hand) /\ by[r] = NoPage
    /\ \A p \in InTree(t, hand) :
          /\ Fits(t, r, p)
          /\ t.page[p].kind = "leaf" => level[p] = 0
          /\ level[p] <= level[r]
          /\ NamesChildren(t, hand, by, at, level, p)
          /\ p # r => IsNamed(t, hand, by, at, p)

ListHolds(t, hand, by, level) ==
    /\ t.free # NoPage => t.free \in OnList(t, hand) /\ by[t.free] = NoPage
    /\ \A p \in OnList(t, hand) :
          LET n == t.page[p].link
          IN  /\ Blank(t, p)
              /\ n # NoPage => n \in OnList(t, hand) /\ by[n] = p /\ level[n] < level[p]
              /\ IF by[p] = NoPage THEN t.free = p
                 ELSE by[p] \in OnList(t, hand) /\ t.page[by[p]].link = p

Witness(t, by, at, level) ==
    /\ by \in [DOMAIN t.page -> Nat]
    /\ at \in [DOMAIN t.page -> Nat]
    /\ level \in [DOMAIN t.page -> Nat]

\* A sound cache: a tree below r and a list of free pages, which share no page
\* and leave none out but those in hand.
Holds(t, r, hand, by, at, level) ==
    /\ Witness(t, by, at, level)
    /\ TreeHolds(t, r, hand, by, at, level)
    /\ ListHolds(t, hand, by, level)

Sound(t, r, hand) ==
    t \in Cache /\ \E by, at, level : Holds(t, r, hand, by, at, level)

LEMMA PagesOf ==
  ASSUME NEW t \in Cache
  PROVE  /\ DOMAIN t.page = 1..Len(t.page) /\ Len(t.page) \in Nat
         /\ t.page \in Seq(Page)
         /\ \A p \in DOMAIN t.page :
               /\ t.page[p] \in Page
               /\ t.page[p].kind \in {"leaf", "internal", "free"}
               /\ t.page[p].keys \in Seq(Int)
               /\ t.page[p].children \in Seq(Nat)
               /\ t.page[p].link \in Nat
  <1>1. t.page \in Seq(Page)
    BY DEF Cache
  <1>2. DOMAIN t.page = 1..Len(t.page) /\ Len(t.page) \in Nat
        /\ \A p \in DOMAIN t.page : t.page[p] \in Page
    BY <1>1
  <1> QED BY <1>1, <1>2 DEF Page

SameTree(t, hand, by, at, level, t1, hand1, by1, at1, level1) ==
    /\ InTree(t1, hand1) = InTree(t, hand)
    /\ \A p \in InTree(t, hand) :
          /\ t1.page[p] = t.page[p]
          /\ by1[p] = by[p] /\ at1[p] = at[p] /\ level1[p] = level[p]

SameList(t, hand, by, level, t1, hand1, by1, level1) ==
    /\ OnList(t1, hand1) = OnList(t, hand) /\ t1.free = t.free
    /\ \A p \in OnList(t, hand) :
          t1.page[p] = t.page[p] /\ by1[p] = by[p] /\ level1[p] = level[p]

LEMMA TreeKept ==
  ASSUME NEW t \in Cache, NEW t1 \in Cache, NEW r, NEW hand, NEW hand1,
         NEW by, NEW at, NEW level, NEW by1, NEW at1, NEW level1,
         TreeHolds(t, r, hand, by, at, level),
         SameTree(t, hand, by, at, level, t1, hand1, by1, at1, level1)
  PROVE  TreeHolds(t1, r, hand1, by1, at1, level1)
  <1> USE DEF SameTree
  <1>1. /\ r = NoPage => InTree(t1, hand1) = {}
        /\ r # NoPage => r \in InTree(t1, hand1) /\ by1[r] = NoPage
    BY DEF TreeHolds
  <1>2. ASSUME NEW p \in InTree(t1, hand1)
        PROVE  /\ Fits(t1, r, p)
               /\ t1.page[p].kind = "leaf" => level1[p] = 0
               /\ level1[p] <= level1[r]
               /\ NamesChildren(t1, hand1, by1, at1, level1, p)
               /\ p # r => IsNamed(t1, hand1, by1, at1, p)
    <2>1. Fits(t1, r, p) /\ (t1.page[p].kind = "leaf" => level1[p] = 0)
      BY <1>2 DEF TreeHolds, Fits
    <2>2. r # NoPage /\ level1[p] <= level1[r]
      BY <1>2 DEF TreeHolds
    <2>3. NamesChildren(t1, hand1, by1, at1, level1, p)
      <3>1. NamesChildren(t, hand, by, at, level, p)
        BY <1>2 DEF TreeHolds
      <3> QED BY <1>2, <3>1 DEF NamesChildren, Child
    <2>4. ASSUME p # r PROVE IsNamed(t1, hand1, by1, at1, p)
      <3>1. IsNamed(t, hand, by, at, p)
        BY <1>2, <2>4 DEF TreeHolds
      <3> QED BY <1>2, <3>1 DEF IsNamed, Child
    <2> QED BY <2>1, <2>2, <2>3, <2>4
  <1> QED BY <1>1, <1>2 DEF TreeHolds

LEMMA ListKept ==
  ASSUME NEW t \in Cache, NEW t1 \in Cache, NEW hand, NEW hand1,
         NEW by, NEW level, NEW by1, NEW level1,
         ListHolds(t, hand, by, level),
         SameList(t, hand, by, level, t1, hand1, by1, level1)
  PROVE  ListHolds(t1, hand1, by1, level1)
  BY DEF ListHolds, Blank, SameList

LEMMA MadePage ==
  ASSUME NEW kind \in {"leaf", "internal", "free"}
  PROVE  MakePage(kind) \in Page
  BY DEF MakePage, Page, NoPage

\* More pages are marked, and the header is or is not.
Marks(t, pages, s) ==
    /\ s.free = t.free /\ s.wild = t.wild /\ s.header = t.header
    /\ s.dirty = t.dirty \cup pages

MarksHeader(t, pages, s) ==
    /\ s.wild = t.wild /\ s.header = TRUE
    /\ s.dirty = t.dirty \cup pages

\* What allocate_page does to the cache.
LEMMA Allocating ==
  ASSUME NEW t \in Cache, NEW kind \in {"leaf", "internal"},
         t.free # NoPage => t.free \in DOMAIN t.page
  PROVE  LET n == AllocatedPage(t)
             t1 == AllocatePage(t, kind)
         IN  /\ t1 \in Cache
             /\ n \in Nat \ {0}
             /\ DOMAIN t1.page = DOMAIN t.page \cup {n}
             /\ t1.page[n] = MakePage(kind)
             /\ \A p \in DOMAIN t.page \ {n} : t1.page[p] = t.page[p]
             /\ n \in DOMAIN t.page => n = t.free
             /\ t1.free = IF t.free = NoPage THEN NoPage ELSE t.page[t.free].link
             /\ MarksHeader(t, {n}, t1)
  <1> USE MadePage DEF AllocatedPage, AllocatePage, NoPage
  <1> DEFINE n == AllocatedPage(t)
             t1 == AllocatePage(t, kind)
  <1>1. CASE t.free = NoPage
    <2>1. Append(t.page, MakePage(kind)) \in Seq(Page)
      BY PagesOf
    <2>2. /\ n = Len(t.page) + 1
          /\ t1.page = Append(t.page, MakePage(kind)) /\ t1.free = t.free
          /\ t1.wild = t.wild /\ t1.header = TRUE /\ t1.dirty = t.dirty \cup {n}
      BY <1>1 DEF Cache
    <2>3. n \in Nat \ {0}
      BY <2>2, PagesOf
    <2>6. t1 \in Cache
      BY <1>1, <2>1, <2>3 DEF Cache
    <2>7. MarksHeader(t, {n}, t1)
      BY <2>2 DEF MarksHeader
    <2> HIDE DEF n, t1
    <2>4. DOMAIN t1.page = DOMAIN t.page \cup {n}
      BY <2>2, PagesOf
    <2>5. /\ t1.page[n] = MakePage(kind)
          /\ \A p \in DOMAIN t.page : t1.page[p] = t.page[p]
          /\ n \notin DOMAIN t.page
      BY <2>2, PagesOf
    <2> QED BY <1>1, <2>2, <2>3, <2>4, <2>5, <2>6, <2>7 DEF n, t1
  <1>2. CASE t.free # NoPage
    <2>1. t.page[t.free].link \in Nat /\ t.free \in Nat \ {0}
      BY <1>2, PagesOf
    <2>2. [t.page EXCEPT ![t.free] = MakePage(kind)] \in Seq(Page)
      BY <1>2, PagesOf
    <2>3. /\ n = t.free
          /\ t1.page = [t.page EXCEPT ![n] = MakePage(kind)]
          /\ t1.free = t.page[n].link
          /\ t1.wild = t.wild /\ t1.header = TRUE /\ t1.dirty = t.dirty \cup {n}
      BY <1>2 DEF Cache
    <2>4. t1 \in Cache
      BY <1>2, <2>1, <2>2 DEF Cache
    <2>6. MarksHeader(t, {n}, t1)
      BY <2>3 DEF MarksHeader
    <2> HIDE DEF n, t1
    <2>5. /\ DOMAIN t1.page = DOMAIN t.page \cup {n} /\ t1.page[n] = MakePage(kind)
          /\ \A p \in DOMAIN t.page \ {n} : t1.page[p] = t.page[p]
      BY <1>2, <2>3
    <2> QED BY <1>2, <2>1, <2>3, <2>4, <2>5, <2>6 DEF n, t1
  <1> QED BY <1>1, <1>2

LEMMA AllocateHolds ==
  ASSUME NEW t \in Cache, NEW r, NEW kind \in {"leaf", "internal"}, Sound(t, r, {})
  PROVE  LET n == AllocatedPage(t)
             t1 == AllocatePage(t, kind)
         IN  /\ Sound(t1, r, {n})
             /\ InTree(t1, {n}) = InTree(t, {})
             /\ n \notin InTree(t, {})
  <1>1. PICK by, at, level : Holds(t, r, {}, by, at, level)
    BY DEF Sound
  <1> DEFINE n == AllocatedPage(t)
             t1 == AllocatePage(t, kind)
             D == DOMAIN t1.page
             next == IF t.free = NoPage THEN NoPage ELSE t.page[t.free].link
             by1 == [p \in D |-> IF p \in DOMAIN t.page /\ p # next THEN by[p] ELSE 0]
             at1 == [p \in D |-> IF p \in DOMAIN t.page THEN at[p] ELSE 0]
             level1 == [p \in D |-> IF p \in DOMAIN t.page THEN level[p] ELSE 0]
  <1>2. t.free # NoPage => t.free \in OnList(t, {}) /\ t.free \in DOMAIN t.page
    BY <1>1 DEF Holds, ListHolds, OnList
  <1>3. /\ t1 \in Cache
        /\ n \in Nat \ {0}
        /\ D = DOMAIN t.page \cup {n}
        /\ t1.page[n] = MakePage(kind)
        /\ \A p \in DOMAIN t.page \ {n} : t1.page[p] = t.page[p]
        /\ n \in DOMAIN t.page => n = t.free
        /\ t1.free = next
    BY <1>2, Allocating
  <1> HIDE DEF t1, n
  <1>4. InTree(t1, {n}) = InTree(t, {}) /\ n \notin InTree(t, {})
    <2>1. n \notin InTree(t, {})
      BY <1>2, <1>3 DEF InTree, OnList, NoPage
    <2> QED BY <1>3, <2>1 DEF InTree
  <1>5. OnList(t1, {n}) = OnList(t, {}) \ {n}
    BY <1>3 DEF OnList
  <1>6. Witness(t1, by1, at1, level1)
    BY <1>1, <1>3 DEF Holds, Witness
  <1>7. next # NoPage => next \in OnList(t, {})
    BY <1>1, <1>2 DEF Holds, ListHolds
  <1>8. TreeHolds(t1, r, {n}, by1, at1, level1)
    <2>1. \A p \in InTree(t, {}) : p \in DOMAIN t.page /\ p \in D /\ p # next /\ p # n
      BY <1>3, <1>4, <1>7 DEF InTree, OnList, NoPage, Cache
    <2>2. \A p \in InTree(t, {}) :
             t1.page[p] = t.page[p] /\ by1[p] = by[p] /\ at1[p] = at[p] /\ level1[p] = level[p]
      BY <1>3, <2>1
    <2> HIDE DEF by1, at1, level1, next
    <2>3. t1 \in Cache /\ TreeHolds(t, r, {}, by, at, level)
          /\ SameTree(t, {}, by, at, level, t1, {n}, by1, at1, level1)
      BY <1>1, <1>3, <1>4, <2>2 DEF Holds, SameTree
    <2> QED BY <2>3, TreeKept
  <1>9. ListHolds(t1, {n}, by1, level1)
    <2>1. \A p \in OnList(t1, {n}) :
             /\ p \in DOMAIN t.page /\ p \in OnList(t, {}) /\ p # n
             /\ t1.page[p] = t.page[p] /\ level1[p] = level[p]
             /\ by1[p] = IF p = next THEN 0 ELSE by[p]
      BY <1>3, <1>5 DEF OnList
    <2>2. next # NoPage => next \in OnList(t1, {n}) /\ by1[next] = NoPage
      <3> SUFFICES ASSUME next # NoPage
                   PROVE  next \in OnList(t1, {n}) /\ by1[next] = NoPage
        OBVIOUS
      <3>1. n = t.free /\ t.free # NoPage
        BY DEF n, AllocatedPage
      <3>2. level[next] < level[t.free] /\ next \in DOMAIN t.page
        BY <1>1, <1>2, <1>7, <3>1 DEF Holds, ListHolds, OnList
      <3>3. level[next] \in Nat
        BY <1>1, <3>2 DEF Holds, Witness
      <3> QED BY <1>3, <1>5, <1>7, <3>1, <3>2, <3>3, SMTT(60) DEF NoPage
    <2>3. n \in DOMAIN t.page => n = t.free /\ n # NoPage /\ next = t.page[n].link
      BY <1>3, SMTT(60) DEF NoPage
    <2> SUFFICES ASSUME NEW p \in OnList(t1, {n})
                 PROVE  LET m == t1.page[p].link
                        IN  /\ Blank(t1, p)
                            /\ m # NoPage => m \in OnList(t1, {n}) /\ by1[m] = p
                                             /\ level1[m] < level1[p]
                            /\ IF by1[p] = NoPage THEN t1.free = p
                               ELSE by1[p] \in OnList(t1, {n})
                                    /\ t1.page[by1[p]].link = p
      BY <1>3, <2>2, ZenonT(60) DEF ListHolds
    <2> DEFINE m == t1.page[p].link
    <2>7. /\ p \in OnList(t, {}) /\ p # n /\ p # NoPage
          /\ t1.page[p] = t.page[p] /\ m = t.page[p].link
      <3>1. p \in DOMAIN t.page
        BY <2>1
      <3>2. p # NoPage
        BY <3>1, PagesOf DEF NoPage
      <3> QED BY <2>1, <3>2
    <2>8. ListHolds(t, {}, by, level)
      BY <1>1 DEF Holds
    <2>4. /\ Blank(t1, p) /\ m = t.page[p].link
          /\ m # NoPage => m \in OnList(t, {}) /\ by[m] = p /\ level[m] < level[p]
          /\ IF by[p] = NoPage THEN t.free = p
             ELSE by[p] \in OnList(t, {}) /\ t.page[by[p]].link = p
      BY <2>7, <2>8 DEF ListHolds, Blank
    <2> HIDE DEF by1, level1, next, m
    <2>5. ASSUME m # NoPage
          PROVE  m \in OnList(t1, {n}) /\ by1[m] = p /\ level1[m] < level1[p]
      <3>1. m # n
        BY <2>3, <2>4, <2>5, <2>7, <2>8 DEF ListHolds, OnList
      <3>2. m # next
        <4>1. CASE t.free = NoPage
          BY <2>5, <4>1 DEF next
        <4>2. CASE t.free # NoPage
          <5>1. n = t.free /\ t.free \in OnList(t, {}) /\ next = t.page[n].link
            BY <1>2, <4>2 DEF next, n, AllocatedPage
          <5>2. next # NoPage => by[next] = n
            BY <2>8, <5>1 DEF ListHolds
          <5> QED BY <2>4, <2>5, <2>7, <5>2
        <4> QED BY <4>1, <4>2
      <3> QED BY <1>5, <2>1, <2>4, <2>5, <3>1, <3>2
    <2>6. IF by1[p] = NoPage THEN t1.free = p
          ELSE by1[p] \in OnList(t1, {n}) /\ t1.page[by1[p]].link = p
      <3>1. CASE p = next
        BY <1>3, <2>1, <3>1 DEF NoPage
      <3>2. CASE p # next
        <4>1. by1[p] = by[p]
          BY <2>1, <3>2
        <4>2. by[p] # NoPage
          BY <2>4, <2>7 DEF n, AllocatedPage
        <4>3. by[p] \in OnList(t, {}) /\ t.page[by[p]].link = p
          BY <2>4, <4>2
        <4>4. by[p] # n
          BY <2>3, <3>2, <4>3 DEF OnList
        <4> QED BY <1>5, <2>1, <4>1, <4>2, <4>3, <4>4
      <3> QED BY <3>1, <3>2
    <2> QED BY <2>4, <2>5, <2>6 DEF m
  <1>10. Holds(t1, r, {n}, by1, at1, level1)
    BY <1>6, <1>8, <1>9 DEF Holds
  <1> HIDE DEF by1, at1, level1
  <1>11. Sound(t1, r, {n})
    BY <1>3, <1>10 DEF Sound
  <1> QED BY <1>4, <1>11 DEF t1, n

\* What release_page does to the cache.
LEMMA Releasing ==
  ASSUME NEW t \in Cache, NEW x \in DOMAIN t.page
  PROVE  LET t1 == ReleasePage(t, x)
         IN  /\ t1 \in Cache
             /\ DOMAIN t1.page = DOMAIN t.page
             /\ t1.page[x] = [MakePage("free") EXCEPT !.link = t.free]
             /\ \A p \in DOMAIN t.page \ {x} : t1.page[p] = t.page[p]
             /\ t1.free = x
             /\ MarksHeader(t, {x}, t1)
  <1> DEFINE b == [MakePage("free") EXCEPT !.link = t.free]
             t1 == ReleasePage(t, x)
  <1>1. b \in Page
    <2>1. MakePage("free") \in Page /\ t.free \in Nat
      BY MadePage DEF Cache
    <2> QED BY <2>1 DEF Page
  <1> HIDE DEF b
  <1>2. x \in Nat /\ [t.page EXCEPT ![x] = b] \in Seq(Page)
    BY <1>1, PagesOf
  <1>3. /\ t1.page = [t.page EXCEPT ![x] = b]
        /\ t1.free = x /\ t1.wild = t.wild /\ t1.header = TRUE
        /\ t1.dirty = t.dirty \cup {x}
    BY DEF ReleasePage, Cache, b
  <1>4. t1 \in Cache
    BY <1>2 DEF ReleasePage, Cache, b
  <1>6. MarksHeader(t, {x}, t1)
    BY <1>3 DEF MarksHeader
  <1> HIDE DEF t1
  <1>5. /\ DOMAIN t1.page = DOMAIN t.page /\ t1.page[x] = b
        /\ \A p \in DOMAIN t.page \ {x} : t1.page[p] = t.page[p]
    BY <1>3
  <1> QED BY <1>3, <1>4, <1>5, <1>6 DEF t1, b

LEMMA ReleaseHolds ==
  ASSUME NEW t \in Cache, NEW r, NEW x \in DOMAIN t.page, Sound(t, r, {x})
  PROVE  LET t1 == ReleasePage(t, x)
         IN  Sound(t1, r, {}) /\ InTree(t1, {}) = InTree(t, {x})
  <1>1. PICK by, at, level : Holds(t, r, {x}, by, at, level)
    BY DEF Sound
  <1> DEFINE t1 == ReleasePage(t, x)
             next == t.free
             by1 == [p \in DOMAIN t.page |-> IF p = x THEN NoPage
                                             ELSE IF p = next THEN x ELSE by[p]]
             at1 == [p \in DOMAIN t.page |-> at[p]]
             level1 == [p \in DOMAIN t.page |->
                           IF p # x THEN level[p]
                           ELSE IF next = NoPage THEN 0 ELSE level[next] + 1]
  <1>2. next # NoPage => next \in OnList(t, {x}) /\ next \in DOMAIN t.page /\ next # x
    BY <1>1 DEF Holds, ListHolds, OnList
  <1>3. /\ t1 \in Cache
        /\ DOMAIN t1.page = DOMAIN t.page
        /\ t1.page[x] = [MakePage("free") EXCEPT !.link = next]
        /\ \A p \in DOMAIN t.page \ {x} : t1.page[p] = t.page[p]
        /\ t1.free = x
    BY Releasing
  <1>4. /\ t1.page[x].kind = "free" /\ t1.page[x].link = next
        /\ t1.page[x].keys = <<>> /\ t1.page[x].children = <<>>
    BY <1>3 DEF MakePage
  <1> HIDE DEF t1
  <1>5. InTree(t1, {}) = InTree(t, {x})
    BY <1>3, <1>4 DEF InTree
  <1>6. OnList(t1, {}) = OnList(t, {x}) \cup {x}
    BY <1>3, <1>4 DEF OnList
  <1>7. x \in Nat \ {0} /\ by \in [DOMAIN t.page -> Nat] /\ level \in [DOMAIN t.page -> Nat]
        /\ at \in [DOMAIN t.page -> Nat]
    BY <1>1, PagesOf DEF Holds, Witness
  <1>8. Witness(t1, by1, at1, level1)
    BY <1>2, <1>3, <1>7 DEF Witness, NoPage
  <1>9. TreeHolds(t1, r, {}, by1, at1, level1)
    <2>1. \A p \in InTree(t, {x}) : p \in DOMAIN t.page /\ p # x /\ p # next
      BY <1>2, PagesOf DEF InTree, OnList, NoPage
    <2>2. \A p \in InTree(t, {x}) :
             /\ t1.page[p] = t.page[p] /\ by1[p] = by[p]
             /\ at1[p] = at[p] /\ level1[p] = level[p]
      BY <1>3, <2>1
    <2> HIDE DEF by1, at1, level1
    <2>3. TreeHolds(t, r, {x}, by, at, level)
      BY <1>1 DEF Holds
    <2>4. t1 \in Cache /\ SameTree(t, {x}, by, at, level, t1, {}, by1, at1, level1)
      BY <1>3, <1>5, <2>2 DEF SameTree
    <2> QED BY <2>3, <2>4, TreeKept
  <1>10. ListHolds(t1, {}, by1, level1)
    <2>1. x \in OnList(t1, {}) /\ by1[x] = NoPage /\ level1[x] \in Nat
      BY <1>6, <1>7, <1>8 DEF Witness
    <2>2. next # NoPage => next \in OnList(t1, {}) /\ by1[next] = x /\ level1[next] < level1[x]
      <3> SUFFICES ASSUME next # NoPage
                   PROVE  next \in OnList(t1, {}) /\ by1[next] = x
                          /\ level1[next] < level1[x]
        OBVIOUS
      <3>1. level[next] \in Nat /\ level1[next] = level[next] /\ by1[next] = x
        BY <1>2, <1>7
      <3>2. level1[x] = level[next] + 1
        OBVIOUS
      <3> HIDE DEF by1, level1
      <3>3. next \in OnList(t1, {})
        BY <1>2, <1>6
      <3>4. level1[next] < level1[x]
        BY <3>1, <3>2
      <3> QED BY <3>1, <3>3, <3>4
    <2>3. ASSUME NEW p \in OnList(t, {x})
          PROVE  LET m == t1.page[p].link
                 IN  /\ Blank(t1, p)
                     /\ m # NoPage => m \in OnList(t1, {}) /\ by1[m] = p
                                      /\ level1[m] < level1[p]
                     /\ IF by1[p] = NoPage THEN t1.free = p
                        ELSE by1[p] \in OnList(t1, {}) /\ t1.page[by1[p]].link = p
      <3> DEFINE m == t1.page[p].link
      <3>1. /\ p \in DOMAIN t.page /\ p # x /\ p # NoPage
            /\ t1.page[p] = t.page[p] /\ m = t.page[p].link
        BY <1>3, PagesOf DEF OnList, NoPage
      <3>2. ListHolds(t, {x}, by, level)
        BY <1>1 DEF Holds
      <3>3. /\ Blank(t1, p)
            /\ m # NoPage => m \in OnList(t, {x}) /\ by[m] = p /\ level[m] < level[p]
            /\ IF by[p] = NoPage THEN next = p
               ELSE by[p] \in OnList(t, {x}) /\ t.page[by[p]].link = p
        BY <3>1, <3>2 DEF ListHolds, Blank
      <3>4. next # NoPage => by[next] = NoPage
        BY <3>2 DEF ListHolds
      <3> HIDE DEF m
      <3>5. ASSUME m # NoPage
            PROVE  m \in OnList(t1, {}) /\ by1[m] = p /\ level1[m] < level1[p]
        <4>1. m \in DOMAIN t.page /\ m # x /\ m # next
          BY <3>1, <3>3, <3>4, <3>5 DEF OnList
        <4> QED BY <1>6, <3>1, <3>3, <3>5, <4>1
      <3>6. IF by1[p] = NoPage THEN t1.free = p
            ELSE by1[p] \in OnList(t1, {}) /\ t1.page[by1[p]].link = p
        <4>1. CASE p = next
          BY <1>4, <2>1, <3>1, <4>1, <1>7 DEF NoPage
        <4>2. CASE p # next
          <5>1. by1[p] = by[p] /\ by[p] # NoPage
            BY <3>1, <3>3, <4>2
          <5>2. by[p] \in OnList(t, {x}) /\ t.page[by[p]].link = p
            BY <3>3, <5>1
          <5> QED BY <1>3, <1>6, <5>1, <5>2 DEF OnList
        <4> QED BY <4>1, <4>2
      <3> QED BY <3>3, <3>5, <3>6 DEF m
    <2>4. Blank(t1, x)
      BY <1>4 DEF Blank
    <2> HIDE DEF by1, level1
    <2> QED BY <1>3, <1>4, <1>6, <2>1, <2>2, <2>3, <2>4, ZenonT(60) DEF ListHolds
  <1> HIDE DEF by1, level1
  <1>11. Sound(t1, r, {})
    BY <1>3, <1>8, <1>9, <1>10 DEF Sound, Holds
  <1> QED BY <1>5, <1>11 DEF t1

-----------------------------------------------------------------------------
(* Splitting a child.                                                      *)

LEMMA BoundInPage ==
  ASSUME NEW t \in Cache, NEW p \in DOMAIN t.page, NEW k
  PROVE  LowerBound(t, p, k) \in 1..KeyCount(t, p) + 1
  <1> DEFINE keys == t.page[p].keys
             less == {i \in DOMAIN keys : keys[i] < k}
  <1>1. Len(keys) \in Nat /\ DOMAIN keys = 1..Len(keys)
    BY PagesOf
  <1> HIDE DEF keys
  <1>2. IsFiniteSet(1..Len(keys)) /\ Cardinality(1..Len(keys)) = Len(keys)
    <2>1. 1 \in Int /\ Len(keys) \in Int
      BY <1>1
    <2>2. /\ IsFiniteSet(1..Len(keys))
          /\ Cardinality(1..Len(keys)) = IF 1 > Len(keys) THEN 0 ELSE Len(keys) - 1 + 1
      BY <2>1, FS_Interval
    <2> QED BY <1>1, <2>2
  <1>3. Cardinality(less) \in Nat /\ Cardinality(less) <= Len(keys)
    BY <1>1, <1>2, CardSub
  <1>4. LowerBound(t, p, k) = Cardinality(less) + 1
    BY DEF LowerBound, keys
  <1> HIDE DEF less
  <1> QED BY <1>1, <1>3, <1>4 DEF KeyCount, keys

\* Three pages of a cache, rewritten.
Rewrite(t, a, ka, ca, b, kb, cb, c, kc, cc) ==
    [t EXCEPT !.page[a].keys = ka, !.page[a].children = ca,
              !.page[b].keys = kb, !.page[b].children = cb,
              !.page[c].keys = kc, !.page[c].children = cc]

Rewritable(t, a, ka, ca, b, kb, cb, c, kc, cc) ==
    /\ t \in Cache
    /\ a \in DOMAIN t.page /\ b \in DOMAIN t.page /\ c \in DOMAIN t.page
    /\ a # b /\ b # c /\ a # c
    /\ ka \in Seq(Int) /\ kb \in Seq(Int) /\ kc \in Seq(Int)
    /\ ca \in Seq(Nat) /\ cb \in Seq(Nat) /\ cc \in Seq(Nat)

Rewrites(t, a, ka, ca, b, kb, cb, c, kc, cc, t1) ==
    /\ t1 \in Cache
    /\ DOMAIN t1.page = DOMAIN t.page
    /\ t1.page[a].keys = ka /\ t1.page[a].children = ca
    /\ t1.page[b].keys = kb /\ t1.page[b].children = cb
    /\ t1.page[c].keys = kc /\ t1.page[c].children = cc
    /\ \A q \in {a, b, c} : /\ t1.page[q].kind = t.page[q].kind
                            /\ t1.page[q].link = t.page[q].link
    /\ \A q \in DOMAIN t.page \ {a, b, c} : t1.page[q] = t.page[q]

LEMMA Rewritten ==
  ASSUME NEW t, NEW a, NEW b, NEW c, NEW ka, NEW kb, NEW kc, NEW ca, NEW cb, NEW cc,
         Rewritable(t, a, ka, ca, b, kb, cb, c, kc, cc)
  PROVE  Rewrites(t, a, ka, ca, b, kb, cb, c, kc, cc,
                  Rewrite(t, a, ka, ca, b, kb, cb, c, kc, cc))
  <1> USE DEF Rewritable
  <1> DEFINE pa == [t.page[a] EXCEPT !.keys = ka, !.children = ca]
             pb == [t.page[b] EXCEPT !.keys = kb, !.children = cb]
             pc == [t.page[c] EXCEPT !.keys = kc, !.children = cc]
             page1 == [t.page EXCEPT ![a] = pa, ![b] = pb, ![c] = pc]
             t1 == Rewrite(t, a, ka, ca, b, kb, cb, c, kc, cc)
  <1>1. /\ pa \in Page /\ pa.keys = ka /\ pa.children = ca
        /\ pa.kind = t.page[a].kind /\ pa.link = t.page[a].link
    BY PagesOf DEF Page
  <1>2. /\ pb \in Page /\ pb.keys = kb /\ pb.children = cb
        /\ pb.kind = t.page[b].kind /\ pb.link = t.page[b].link
    BY PagesOf, ZenonT(60) DEF Page
  <1>3. /\ pc \in Page /\ pc.keys = kc /\ pc.children = cc
        /\ pc.kind = t.page[c].kind /\ pc.link = t.page[c].link
    BY PagesOf DEF Page
  <1>4. t1 = [t EXCEPT !.page = page1]
    <2> DEFINE f1 == [t.page EXCEPT ![a].keys = ka, ![a].children = ca]
               f2 == [f1 EXCEPT ![b].keys = kb, ![b].children = cb]
               f3 == [f2 EXCEPT ![c].keys = kc, ![c].children = cc]
    <2>1. t1 = [t EXCEPT !.page = f3]
      BY ZenonT(60) DEF Cache, Rewrite
    <2>2. f1 = [t.page EXCEPT ![a] = pa]
      BY PagesOf
    <2>3. f2 = [f1 EXCEPT ![b] = pb]
      BY PagesOf, ZenonT(60)
    <2>4. f3 = [f2 EXCEPT ![c] = pc]
      BY PagesOf, ZenonT(60)
    <2> HIDE DEF f1, f2, f3, pa, pb, pc, t1
    <2>5. f3 = page1
      BY <2>2, <2>3, <2>4
    <2> QED BY <2>1, <2>5
  <1> HIDE DEF pa, pb, pc, t1
  <1>5. page1 \in Seq(Page) /\ DOMAIN page1 = DOMAIN t.page
        /\ page1[a] = pa /\ page1[b] = pb /\ page1[c] = pc
        /\ \A q \in DOMAIN t.page \ {a, b, c} : page1[q] = t.page[q]
    BY <1>1, <1>2, <1>3, PagesOf, SMTT(60)
  <1> HIDE DEF page1
  <1>6. t1 \in Cache /\ t1.page = page1
    BY <1>4, <1>5 DEF Cache
  <1> QED BY <1>1, <1>2, <1>3, <1>5, <1>6 DEF t1, Rewrites

\* What a page is in a cache that holds.
LEMMA TreePage ==
  ASSUME NEW t \in Cache, NEW r, NEW hand, NEW by, NEW at, NEW level,
         Holds(t, r, hand, by, at, level), NEW p \in InTree(t, hand)
  PROVE  /\ p \in DOMAIN t.page /\ p \notin hand /\ p # NoPage /\ r # NoPage
         /\ t.page[p].kind \in {"leaf", "internal"}
         /\ Fits(t, r, p)
         /\ level[p] \in Nat /\ level[p] <= level[r]
         /\ t.page[p].kind = "leaf" => level[p] = 0
         /\ \A i \in DOMAIN t.page[p].children :
               LET c == Child(t, p, i)
               IN  /\ c \in InTree(t, hand) /\ by[c] = p /\ at[c] = i
                   /\ level[c] + 1 = level[p] /\ c # p /\ c # r
         /\ p # r => IsNamed(t, hand, by, at, p)
  <1>1. /\ p \in DOMAIN t.page /\ p \notin hand
        /\ t.page[p].kind \in {"leaf", "internal"}
    BY PagesOf DEF InTree
  <1>2. p # NoPage
    BY <1>1, PagesOf DEF NoPage
  <1>3. /\ r # NoPage /\ by[r] = NoPage
        /\ Fits(t, r, p)
        /\ level[p] <= level[r]
        /\ t.page[p].kind = "leaf" => level[p] = 0
        /\ NamesChildren(t, hand, by, at, level, p)
        /\ p # r => IsNamed(t, hand, by, at, p)
    BY DEF Holds, TreeHolds
  <1>4. level[p] \in Nat
    BY <1>1 DEF Holds, Witness
  <1>5. ASSUME NEW i \in DOMAIN t.page[p].children
        PROVE  LET c == Child(t, p, i)
               IN  /\ c \in InTree(t, hand) /\ by[c] = p /\ at[c] = i
                   /\ level[c] + 1 = level[p] /\ c # p /\ c # r
    <2> DEFINE c == Child(t, p, i)
    <2>1. c \in InTree(t, hand) /\ by[c] = p /\ at[c] = i /\ level[c] + 1 = level[p]
      BY <1>3 DEF NamesChildren
    <2> HIDE DEF c
    <2>2. c # p
      BY <1>4, <2>1
    <2>3. c # r
      BY <1>2, <1>3, <2>1, SMTT(60)
    <2> QED BY <2>1, <2>2, <2>3 DEF c
  <1> QED BY <1>1, <1>2, <1>3, <1>4, <1>5

\* What split_child does to the cache: p and its child c are rewritten, n is
\* new, and the other pages are as they were.
LEMMA Splitting ==
  ASSUME NEW t \in Cache, NEW p \in DOMAIN t.page,
         NEW i \in DOMAIN t.page[p].children, i <= KeyCount(t, p) + 1,
         NEW c \in DOMAIN t.page, c = Child(t, p, i), c # p,
         t.page[c].kind \in {"leaf", "internal"},
         KeyCount(t, c) = MaxKeys,
         IsLeaf(t, c) \/ Len(t.page[c].children) = MaxKeys + 1,
         t.free # NoPage => t.free \in DOMAIN t.page,
         AllocatedPage(t) # c, AllocatedPage(t) # p
  PROVE  LET n == AllocatedPage(t)
             u == AllocatePage(t, t.page[c].kind)
             s == SplitChild(t, p, i)
             x == t.page[c]
         IN  /\ s \in Cache
             /\ DOMAIN s.page = DOMAIN u.page
             /\ s.page[c].keys = SubSeq(x.keys, 1, MinKeys)
             /\ s.page[c].children = SubSeq(x.children, 1, IF IsLeaf(t, c) THEN 0 ELSE MinDegree)
             /\ s.page[n].keys = SubSeq(x.keys, MinDegree + 1, MaxKeys)
             /\ s.page[n].children = SubSeq(x.children, MinDegree + 1, Len(x.children))
             /\ s.page[p].keys = InsertAt(t.page[p].keys, i, x.keys[MinDegree])
             /\ s.page[p].children = InsertAt(t.page[p].children, i + 1, n)
             /\ \A q \in {c, n, p} : /\ s.page[q].kind = u.page[q].kind
                                     /\ s.page[q].link = u.page[q].link
             /\ \A q \in DOMAIN u.page \ {c, n, p} : s.page[q] = u.page[q]
             /\ Marks(u, {c, n, p}, s)
  <1> DEFINE n == AllocatedPage(t)
             u == AllocatePage(t, t.page[c].kind)
             s == SplitChild(t, p, i)
             x == t.page[c]
             cc == SubSeq(x.children, 1, IF IsLeaf(t, c) THEN 0 ELSE MinDegree)
             kc == SubSeq(x.keys, 1, MinKeys)
             cn == SubSeq(x.children, MinDegree + 1, Len(x.children))
             kn == SubSeq(x.keys, MinDegree + 1, Len(x.keys))
             cp == InsertAt(t.page[p].children, i + 1, n)
             kp == InsertAt(t.page[p].keys, i, x.keys[MinDegree])
             v == Rewrite(u, c, kc, cc, n, kn, cn, p, kp, cp)
  <1>1. /\ u \in Cache
        /\ n \in Nat \ {0}
        /\ DOMAIN u.page = DOMAIN t.page \cup {n}
        /\ \A q \in DOMAIN t.page \ {n} : u.page[q] = t.page[q]
    BY Allocating
  <1>2. /\ c \in DOMAIN u.page /\ n \in DOMAIN u.page /\ p \in DOMAIN u.page
        /\ n # c /\ n # p /\ c # p
        /\ u.page[p] = t.page[p] /\ u.page[c] = x
    BY <1>1
  <1>3. /\ x.keys \in Seq(Int) /\ x.children \in Seq(Nat) /\ Len(x.keys) = MaxKeys
        /\ t.page[p].keys \in Seq(Int) /\ t.page[p].children \in Seq(Nat)
    BY PagesOf DEF KeyCount
  <1>4. /\ MinDegree \in Nat \ {0} /\ MinKeys \in Nat /\ MaxKeys \in Nat
        /\ MinKeys <= MaxKeys /\ MinDegree \in 1..MaxKeys
    BY BTreeAssumption DEF MinKeys, MaxKeys
  <1>5. /\ i \in Nat \ {0} /\ i \in 1..Len(t.page[p].keys) + 1
        /\ i + 1 \in 1..Len(t.page[p].children) + 1
    BY <1>3, SMTT(60) DEF KeyCount
  <1>6. kc \in Seq(Int) /\ kn \in Seq(Int) /\ x.keys[MinDegree] \in Int
    BY <1>3, <1>4, PartOf DEF IsPart
  <1>7. cc \in Seq(Nat)
    <2>1. CASE IsLeaf(t, c)
      BY <1>3, <2>1, PartOf DEF IsPart
    <2>2. CASE ~IsLeaf(t, c)
      <3>1. MinDegree <= Len(x.children)
        BY <1>4, <2>2
      <3>2. SubSeq(x.children, 1, MinDegree) \in Seq(Nat)
        <4> DEFINE w == x.children
        <4>1. w \in Seq(Nat) /\ MinDegree \in Nat /\ MinDegree <= Len(w) /\ 1 \in Nat \ {0}
          BY <1>3, <1>4, <3>1
        <4> HIDE DEF w
        <4>2. IsPart(Nat, w, 1, MinDegree, SubSeq(w, 1, MinDegree))
          BY <4>1, PartOf
        <4>3. SubSeq(w, 1, MinDegree) \in Seq(Nat)
          BY <4>2 DEF IsPart
        <4> QED BY <4>3 DEF w
      <3> QED BY <2>2, <3>2
    <2> QED BY <2>1, <2>2
  <1>8. cn \in Seq(Nat)
    <2>1. MinDegree + 1 \in Nat \ {0} /\ Len(x.children) \in Nat
      BY <1>3, <1>4
    <2> DEFINE w == x.children
               a == MinDegree + 1
    <2>2. w \in Seq(Nat) /\ a \in Nat \ {0} /\ Len(w) \in Nat /\ Len(w) <= Len(w)
      BY <1>3, <2>1
    <2> HIDE DEF w, a
    <2>3. IsPart(Nat, w, a, Len(w), SubSeq(w, a, Len(w)))
      BY <2>2, PartOf
    <2>4. SubSeq(w, a, Len(w)) \in Seq(Nat)
      BY <2>3 DEF IsPart
    <2> QED BY <2>4 DEF w, a
  <1>9. kp \in Seq(Int) /\ cp \in Seq(Nat)
    <2>1. n \in Nat
      BY <1>1
    <2> HIDE DEF n
    <2> QED BY <1>3, <1>5, <1>6, <2>1, Inserting, ZenonT(60) DEF HasInserted
  <1>10. s = [v EXCEPT !.dirty = @ \cup {c, n, p}]
    BY ZenonT(60) DEF SplitChild, MarkDirty, Rewrite
  <1> HIDE DEF u, n, kc, kn, kp, cc, cn, cp
  <1>11. /\ v \in Cache
         /\ DOMAIN v.page = DOMAIN u.page
         /\ v.page[c].keys = kc /\ v.page[c].children = cc
         /\ v.page[n].keys = kn /\ v.page[n].children = cn
         /\ v.page[p].keys = kp /\ v.page[p].children = cp
         /\ \A q \in {c, n, p} : /\ v.page[q].kind = u.page[q].kind
                                 /\ v.page[q].link = u.page[q].link
         /\ \A q \in DOMAIN u.page \ {c, n, p} : v.page[q] = u.page[q]
    <2>1. /\ u \in Cache /\ c \in DOMAIN u.page /\ n \in DOMAIN u.page /\ p \in DOMAIN u.page
          /\ c # n /\ n # p /\ c # p
      BY <1>1, <1>2
    <2> HIDE DEF x
    <2>2. Rewritable(u, c, kc, cc, n, kn, cn, p, kp, cp)
      BY <2>1, <1>6, <1>7, <1>8, <1>9 DEF Rewritable
    <2>3. Rewrites(u, c, kc, cc, n, kn, cn, p, kp, cp, v)
      BY <2>2, Rewritten
    <2> HIDE DEF v
    <2> QED BY <2>3 DEF Rewrites
  <1>12. v.free = u.free /\ v.wild = u.wild /\ v.header = u.header /\ v.dirty = u.dirty
    BY <1>1 DEF Cache, Rewrite
  <1> HIDE DEF v
  <1>13. {c, n, p} \subseteq Nat
    BY <1>1, <1>2, PagesOf
  <1> HIDE DEF s
  <1>14. /\ s \in Cache /\ s.page = v.page /\ s.free = v.free /\ s.wild = v.wild
         /\ s.header = v.header /\ s.dirty = v.dirty \cup {c, n, p}
    BY <1>10, <1>11, <1>13 DEF Cache
  <1>15. kn = SubSeq(x.keys, MinDegree + 1, MaxKeys)
    BY <1>3 DEF kn
  <1>16. Marks(u, {c, n, p}, s)
    BY <1>12, <1>14 DEF Marks
  <1> QED BY <1>2, <1>11, <1>14, <1>15, <1>16, ZenonT(60) DEF u, n, s, kc, kp, cc, cn, cp

-----------------------------------------------------------------------------
(* The shape of the tree, whatever is in its pages: T are the pages, kids[q] *)
(* the children of q.                                                      *)

Shaped(T, kids, by, at, level, q) ==
    \A i \in DOMAIN kids[q] :
        LET c == kids[q][i]
        IN  c \in T /\ by[c] = q /\ at[c] = i /\ level[c] + 1 = level[q]

Named(T, kids, by, at, q) ==
    by[q] \in T /\ at[q] \in DOMAIN kids[by[q]] /\ kids[by[q]][at[q]] = q

Forest(T, r, kids, by, at, level) ==
    /\ r = NoPage => T = {}
    /\ r # NoPage => r \in T /\ by[r] = NoPage
    /\ \A q \in T : /\ level[q] <= level[r]
                    /\ Shaped(T, kids, by, at, level, q)
                    /\ q # r => Named(T, kids, by, at, q)

Kids(t) == [q \in DOMAIN t.page |-> t.page[q].children]

\* What the pages themselves say: their sizes, and that leaves are at the bottom.
PagesFit(t, r, hand, level) ==
    \A p \in InTree(t, hand) :
        Fits(t, r, p) /\ (t.page[p].kind = "leaf" => level[p] = 0)

LEMMA TreeIsForest ==
  ASSUME NEW t \in Cache, NEW r, NEW hand, NEW by, NEW at, NEW level
  PROVE  TreeHolds(t, r, hand, by, at, level) <=>
            /\ Forest(InTree(t, hand), r, Kids(t), by, at, level)
            /\ PagesFit(t, r, hand, level)
  <1> DEFINE T == InTree(t, hand)
  <1>1. \A q \in T : q \in DOMAIN t.page /\ Kids(t)[q] = t.page[q].children
    BY DEF InTree, Kids
  <1>2. \A q \in T : NamesChildren(t, hand, by, at, level, q) <=>
                     Shaped(T, Kids(t), by, at, level, q)
    BY <1>1 DEF NamesChildren, Shaped, Child
  <1>3. \A q \in T : IsNamed(t, hand, by, at, q) <=> Named(T, Kids(t), by, at, q)
    BY <1>1 DEF IsNamed, Named, Child
  <1> HIDE DEF T
  <1>4. ASSUME TreeHolds(t, r, hand, by, at, level)
        PROVE  Forest(T, r, Kids(t), by, at, level) /\ PagesFit(t, r, hand, level)
    BY <1>2, <1>3, <1>4 DEF TreeHolds, Forest, PagesFit, T
  <1>5. ASSUME Forest(T, r, Kids(t), by, at, level), PagesFit(t, r, hand, level)
        PROVE  TreeHolds(t, r, hand, by, at, level)
    BY <1>2, <1>3, <1>5 DEF TreeHolds, Forest, PagesFit, T
  <1> QED BY <1>4, <1>5 DEF T

\* Names of a shape: functions on some set D that T is part of.
Names(D, T, by, at, level) ==
    /\ T \subseteq D /\ D \subseteq Nat \ {NoPage}
    /\ by \in [D -> Nat] /\ at \in [D -> Nat] /\ level \in [D -> Nat]

\* A page n without children becomes child i of p.
Grafts(T, kids, p, i, n, kids1) ==
    /\ kids1[n] = <<>>
    /\ \A q \in T \ {p} : kids1[q] = kids[q]
    /\ kids1[p] = InsertAt(kids[p], i, n)

\* The tree with the page n more, at the level h.
Grown(D, T, r, n, h, kids1, by, level) ==
    \E by1, at1, level1 :
        /\ Names(D, T \cup {n}, by1, at1, level1)
        /\ Forest(T \cup {n}, r, kids1, by1, at1, level1)
        /\ \A q \in T : level1[q] = level[q]
        /\ level1[n] = h
        /\ \A q \in D \ (T \cup {n}) : by1[q] = by[q] /\ level1[q] = level[q]

LEMMA ShapeGrafted ==
  ASSUME NEW D, NEW T, NEW r, NEW kids, NEW kids1, NEW by, NEW at, NEW level,
         Names(D, T, by, at, level), Forest(T, r, kids, by, at, level),
         NEW p \in T, kids[p] \in Seq(Nat), NEW i \in 1..Len(kids[p]) + 1,
         NEW n \in D \ T, NEW h \in Nat, h + 1 = level[p],
         Grafts(T, kids, p, i, n, kids1)
  PROVE  Grown(D, T, r, n, h, kids1, by, level)
  <1> DEFINE T1 == T \cup {n}
             by1 == [q \in D |-> IF q = n THEN p ELSE by[q]]
             at1 == [q \in D |-> IF q = n THEN i
                                 ELSE IF by[q] = p /\ at[q] >= i THEN at[q] + 1 ELSE at[q]]
             level1 == [q \in D |-> IF q = n THEN h ELSE level[q]]
             k == kids[p]
             k1 == kids1[p]
  <1>1. /\ T \subseteq D /\ D \subseteq Nat \ {NoPage} /\ n \in Nat /\ p \in Nat /\ p # n
        /\ by \in [D -> Nat] /\ at \in [D -> Nat] /\ level \in [D -> Nat]
    BY DEF Names
  <1>2. /\ i \in Nat /\ i \in 1..Len(k) + 1 /\ k \in Seq(Nat)
        /\ Len(k) \in Nat /\ DOMAIN k = 1..Len(k)
    OBVIOUS
  <1>3. /\ k1 \in Seq(Nat) /\ Len(k1) = Len(k) + 1 /\ DOMAIN k1 = 1..Len(k) + 1
        /\ \A j \in 1..i - 1 : k1[j] = k[j]
        /\ k1[i] = n
        /\ \A j \in i..Len(k) : k1[j + 1] = k[j]
    <2>1. k1 = InsertAt(k, i, n) /\ n \in Nat
      BY <1>1 DEF Grafts
    <2> HIDE DEF k, k1
    <2>2. HasInserted(Nat, k, i, n, k1)
      BY <1>2, <2>1, Inserting
    <2>3. k1 \in Seq(Nat) /\ Len(k1) = Len(k) + 1
      BY <2>2 DEF HasInserted
    <2>4. DOMAIN k1 = 1..Len(k) + 1
      BY <2>3
    <2> QED BY <2>2, <2>4 DEF HasInserted
  <1>4. Names(D, T1, by1, at1, level1)
    <2>1. by1 \in [D -> Nat]
      BY <1>1
    <2>2. at1 \in [D -> Nat]
      <3> SUFFICES ASSUME NEW q \in D PROVE at1[q] \in Nat
        OBVIOUS
      <3>1. at[q] \in Nat
        BY <1>1
      <3> QED BY <1>2, <3>1
    <2>3. level1 \in [D -> Nat]
      BY <1>1
    <2> HIDE DEF by1, at1, level1
    <2> QED BY <1>1, <2>1, <2>2, <2>3 DEF Names
  <1>5. \A q \in T : by1[q] = by[q] /\ level1[q] = level[q] /\ q # n
    BY <1>1
  <1>6. by1[n] = p /\ at1[n] = i /\ level1[n] = h
    OBVIOUS
  <1>7. \A q \in T : at1[q] = IF by[q] = p /\ at[q] >= i THEN at[q] + 1 ELSE at[q]
    BY <1>1
  <1>8. \A q \in D \ T1 : by1[q] = by[q] /\ level1[q] = level[q]
    OBVIOUS
  <1> HIDE DEF by1, at1, level1, k, k1
  <1>9. \A q \in T : /\ level[q] <= level[r] /\ level[q] \in Nat /\ at[q] \in Nat
                     /\ Shaped(T, kids, by, at, level, q)
                     /\ q # r => Named(T, kids, by, at, q)
    BY <1>1 DEF Forest
  <1>10. r # NoPage /\ r \in T /\ by[r] = NoPage
    BY DEF Forest
  <1>11. ASSUME NEW q \in T, q # p PROVE Shaped(T1, kids1, by1, at1, level1, q)
    <2>1. kids1[q] = kids[q]
      BY <1>11 DEF Grafts
    <2> SUFFICES ASSUME NEW j \in DOMAIN kids[q]
                 PROVE  LET c == kids[q][j]
                        IN  c \in T1 /\ by1[c] = q /\ at1[c] = j
                            /\ level1[c] + 1 = level1[q]
      BY <2>1 DEF Shaped
    <2> DEFINE c == kids[q][j]
    <2>2. c \in T /\ by[c] = q /\ at[c] = j /\ level[c] + 1 = level[q]
      BY <1>9 DEF Shaped
    <2> HIDE DEF c
    <2>3. c \in T1 /\ by1[c] = q /\ at1[c] = j /\ level1[c] + 1 = level1[q]
      BY <1>5, <1>7, <1>11, <2>2
    <2> QED BY <2>3 DEF c
  <1>12. Shaped(T1, kids1, by1, at1, level1, p)
    <2> SUFFICES ASSUME NEW j \in 1..Len(k) + 1
                 PROVE  LET c == k1[j]
                        IN  c \in T1 /\ by1[c] = p /\ at1[c] = j
                            /\ level1[c] + 1 = level1[p]
      BY <1>2, <1>3 DEF Shaped, k1
    <2> DEFINE c == k1[j]
    <2>1. \A m \in 1..Len(k) : /\ k[m] \in T /\ by[k[m]] = p /\ at[k[m]] = m
                               /\ level[k[m]] + 1 = level[p]
      BY <1>2, <1>9 DEF Shaped, k
    <2>2. CASE j < i
      <3>1. j \in 1..Len(k) /\ c = k[j]
        BY <1>2, <1>3, <2>2
      <3> HIDE DEF c
      <3>2. c \in T /\ by[c] = p /\ at[c] = j /\ level[c] + 1 = level[p]
        BY <2>1, <3>1
      <3>3. c \in T1 /\ by1[c] = p /\ level1[c] + 1 = level1[p]
        BY <1>5, <3>2
      <3>4. at1[c] = j
        BY <1>2, <1>7, <2>2, <3>2, SMTT(60)
      <3> QED BY <3>3, <3>4 DEF c
    <2>3. CASE j = i
      BY <1>3, <1>5, <1>6, <2>3
    <2>4. CASE j > i
      <3>1. j - 1 \in 1..Len(k) /\ c = k[j - 1] /\ j - 1 >= i
        <4>1. j - 1 \in i..Len(k) /\ (j - 1) + 1 = j
          BY <1>2, <2>4
        <4>2. k1[(j - 1) + 1] = k[j - 1]
          BY <1>3, <4>1
        <4> QED BY <1>2, <4>1, <4>2
      <3> HIDE DEF c
      <3>2. c \in T /\ by[c] = p /\ at[c] = j - 1 /\ level[c] + 1 = level[p]
        BY <2>1, <3>1
      <3>3. c \in T1 /\ by1[c] = p /\ level1[c] + 1 = level1[p]
        BY <1>5, <3>2
      <3>4. at1[c] = j
        <4>1. at1[c] = at[c] + 1
          BY <1>7, <3>1, <3>2
        <4>2. j \in Nat /\ (j - 1) + 1 = j
          BY <1>2
        <4> QED BY <3>2, <4>1, <4>2
      <3> QED BY <3>3, <3>4 DEF c
    <2> QED BY <1>2, <2>2, <2>3, <2>4
  <1>13. Shaped(T1, kids1, by1, at1, level1, n)
    BY DEF Grafts, Shaped
  <1>14. Named(T1, kids1, by1, at1, n)
    BY <1>2, <1>3, <1>6 DEF Named, k1
  <1>15. ASSUME NEW q \in T, q # r PROVE Named(T1, kids1, by1, at1, q)
    <2>1. by[q] \in T /\ at[q] \in DOMAIN kids[by[q]] /\ kids[by[q]][at[q]] = q
      BY <1>9, <1>15 DEF Named
    <2>2. CASE by[q] # p
      BY <1>5, <1>7, <2>1, <2>2 DEF Grafts, Named
    <2>3. CASE by[q] = p
      <3>1. at[q] \in 1..Len(k) /\ k[at[q]] = q /\ by1[q] = p /\ p \in T1
        BY <1>2, <1>5, <2>1, <2>3 DEF k
      <3>2. CASE at[q] >= i
        <4>1. at1[q] = at[q] + 1 /\ at[q] \in i..Len(k)
          BY <1>2, <1>7, <2>3, <3>1, <3>2
        <4>2. k1[at[q] + 1] = q /\ at[q] + 1 \in 1..Len(k) + 1
          BY <1>2, <1>3, <3>1, <4>1, SMTT(60)
        <4> QED BY <1>3, <3>1, <4>1, <4>2 DEF Named, k1
      <3>3. CASE ~(at[q] >= i)
        <4>1. at1[q] = at[q] /\ at[q] \in 1..i - 1
          BY <1>2, <1>7, <2>3, <3>1, <3>3
        <4>2. k1[at[q]] = q /\ at[q] \in 1..Len(k) + 1
          BY <1>2, <1>3, <3>1, <4>1
        <4> QED BY <1>3, <3>1, <4>1, <4>2 DEF Named, k1
      <3> QED BY <3>2, <3>3
    <2> QED BY <2>2, <2>3
  <1>16. \A q \in T1 : level1[q] <= level1[r]
    <2>1. level1[n] < level1[p] /\ level1[p] <= level1[r]
      BY <1>1, <1>5, <1>6, <1>9, <1>10
    <2>2. level1[n] \in Nat /\ level1[p] \in Nat /\ level1[r] \in Nat
      BY <1>4, <1>10, <1>1 DEF Names
    <2> QED BY <1>5, <1>9, <1>10, <2>1, <2>2
  <1>17. Forest(T1, r, kids1, by1, at1, level1)
    BY <1>5, <1>10, <1>11, <1>12, <1>13, <1>14, <1>15, <1>16 DEF Forest
  <1> QED BY <1>4, <1>5, <1>6, <1>8, <1>17 DEF Grown

\* What holds of a page of the shape.
LEMMA ShapePage ==
  ASSUME NEW D, NEW T, NEW r, NEW kids, NEW by, NEW at, NEW level,
         Names(D, T, by, at, level), Forest(T, r, kids, by, at, level), NEW q \in T
  PROVE  /\ q \in D /\ q \in Nat /\ q # NoPage
         /\ r # NoPage /\ r \in T /\ by[r] = NoPage
         /\ level[q] \in Nat /\ at[q] \in Nat /\ by[q] \in Nat /\ level[q] <= level[r]
         /\ \A i \in DOMAIN kids[q] :
               LET c == kids[q][i]
               IN  /\ c \in T /\ by[c] = q /\ at[c] = i /\ level[c] + 1 = level[q]
                   /\ c # r /\ c # q
         /\ q # r => /\ by[q] \in T /\ at[q] \in DOMAIN kids[by[q]]
                     /\ kids[by[q]][at[q]] = q /\ level[q] + 1 = level[by[q]]
  <1>1. /\ q \in D /\ q \in Nat /\ q # NoPage
        /\ level[q] \in Nat /\ at[q] \in Nat /\ by[q] \in Nat
    BY DEF Names
  <1>2. /\ r # NoPage /\ r \in T /\ by[r] = NoPage /\ level[q] <= level[r]
        /\ q # r => Named(T, kids, by, at, q)
    BY DEF Forest
  <1>3. \A p \in T : Shaped(T, kids, by, at, level, p)
    BY DEF Forest
  <1>4. ASSUME NEW i \in DOMAIN kids[q]
        PROVE  LET c == kids[q][i]
               IN  /\ c \in T /\ by[c] = q /\ at[c] = i /\ level[c] + 1 = level[q]
                   /\ c # r /\ c # q
    <2> DEFINE c == kids[q][i]
    <2>1. c \in T /\ by[c] = q /\ at[c] = i /\ level[c] + 1 = level[q]
      BY <1>3 DEF Shaped
    <2> HIDE DEF c
    <2>2. c # r /\ c # q
      BY <1>1, <1>2, <2>1
    <2> QED BY <2>1, <2>2 DEF c
  <1>5. ASSUME q # r
        PROVE  /\ by[q] \in T /\ at[q] \in DOMAIN kids[by[q]]
               /\ kids[by[q]][at[q]] = q /\ level[q] + 1 = level[by[q]]
    <2>1. by[q] \in T /\ at[q] \in DOMAIN kids[by[q]] /\ kids[by[q]][at[q]] = q
      BY <1>2, <1>5 DEF Named
    <2> QED BY <1>3, <2>1 DEF Shaped
  <1> QED BY <1>1, <1>2, <1>4, <1>5

\* The children of two pages in a row, and how they are parted anew.
Both(x, y, j) == IF j <= Len(x) THEN x[j] ELSE y[j - Len(x)]

Shifts(T, kids, a, b, kids1) ==
    /\ kids[a] \in Seq(Nat) /\ kids[b] \in Seq(Nat)
    /\ kids1[a] \in Seq(Nat) /\ kids1[b] \in Seq(Nat)
    /\ Len(kids1[a]) + Len(kids1[b]) = Len(kids[a]) + Len(kids[b])
    /\ \A j \in 1..Len(kids1[a]) : kids1[a][j] = Both(kids[a], kids[b], j)
    /\ \A j \in 1..Len(kids1[b]) :
          kids1[b][j] = Both(kids[a], kids[b], Len(kids1[a]) + j)
    /\ \A q \in T \ {a, b} : kids1[q] = kids[q]

LEMMA ShapeShifted ==
  ASSUME NEW D, NEW T, NEW r, NEW kids, NEW kids1, NEW by, NEW at, NEW level,
         Names(D, T, by, at, level), Forest(T, r, kids, by, at, level),
         NEW a \in T, NEW b \in T, a # b, level[a] = level[b],
         Shifts(T, kids, a, b, kids1)
  PROVE  \E by1, at1 :
            /\ Names(D, T, by1, at1, level)
            /\ Forest(T, r, kids1, by1, at1, level)
            /\ \A q \in D \ T : by1[q] = by[q]
  <1> DEFINE m == Len(kids[a])
             m1 == Len(kids1[a])
             k == Len(kids[b])
             k1 == Len(kids1[b])
             row == [j \in 1..m + k |-> Both(kids[a], kids[b], j)]
             theirs(q) == q \in T /\ by[q] \in {a, b}
             pos == [q \in T |-> IF by[q] = a THEN at[q] ELSE m + at[q]]
             by1 == [q \in D |-> IF ~theirs(q) THEN by[q]
                                 ELSE IF pos[q] <= m1 THEN a ELSE b]
             at1 == [q \in D |-> IF ~theirs(q) THEN at[q]
                                 ELSE IF pos[q] <= m1 THEN pos[q] ELSE pos[q] - m1]
  <1>1. /\ T \subseteq D /\ D \subseteq Nat \ {NoPage} /\ a \in Nat /\ b \in Nat
        /\ by \in [D -> Nat] /\ at \in [D -> Nat] /\ level \in [D -> Nat]
    BY DEF Names
  <1>2. /\ m \in Nat /\ k \in Nat /\ m1 \in Nat /\ k1 \in Nat /\ m1 + k1 = m + k
        /\ DOMAIN kids[a] = 1..m /\ DOMAIN kids[b] = 1..k
        /\ DOMAIN kids1[a] = 1..m1 /\ DOMAIN kids1[b] = 1..k1
    <2>1. /\ kids[a] \in Seq(Nat) /\ kids[b] \in Seq(Nat)
          /\ kids1[a] \in Seq(Nat) /\ kids1[b] \in Seq(Nat)
          /\ m1 + k1 = m + k
      BY DEF Shifts
    <2>2. m \in Nat /\ DOMAIN kids[a] = 1..m
      BY <2>1
    <2>3. k \in Nat /\ DOMAIN kids[b] = 1..k
      BY <2>1
    <2>4. m1 \in Nat /\ DOMAIN kids1[a] = 1..m1
      BY <2>1
    <2>5. k1 \in Nat /\ DOMAIN kids1[b] = 1..k1
      BY <2>1
    <2> QED BY <2>1, <2>2, <2>3, <2>4, <2>5
  <1> HIDE DEF m, m1, k, k1
  <1>3. /\ \A j \in 1..m1 : kids1[a][j] = row[j]
        /\ \A j \in 1..k1 : kids1[b][j] = row[m1 + j]
    <2>1. \A j \in 1..m1 : j \in 1..m + k
      BY <1>2
    <2>2. \A j \in 1..k1 : m1 + j \in 1..m + k
      BY <1>2
    <2>3. /\ \A j \in 1..m1 : kids1[a][j] = Both(kids[a], kids[b], j)
          /\ \A j \in 1..k1 : kids1[b][j] = Both(kids[a], kids[b], m1 + j)
      BY DEF Shifts, m1, k1
    <2> QED BY <2>1, <2>2, <2>3
  <1>4. \A q \in T : /\ level[q] \in Nat /\ at[q] \in Nat /\ by[q] \in Nat
                     /\ pos[q] = IF by[q] = a THEN at[q] ELSE m + at[q]
                     /\ by1[q] = IF ~theirs(q) THEN by[q]
                                 ELSE IF pos[q] <= m1 THEN a ELSE b
                     /\ at1[q] = IF ~theirs(q) THEN at[q]
                                 ELSE IF pos[q] <= m1 THEN pos[q] ELSE pos[q] - m1
    BY <1>1
  <1>5. \A q \in D \ T : by1[q] = by[q]
    OBVIOUS
  <1>6. Names(D, T, by1, at1, level)
    <2>1. by1 \in [D -> Nat]
      BY <1>1
    <2>2. at1 \in [D -> Nat]
      <3> SUFFICES ASSUME NEW q \in D PROVE at1[q] \in Nat
        OBVIOUS
      <3>1. at[q] \in Nat /\ (theirs(q) => pos[q] \in Nat)
        BY <1>1, <1>2, <1>4
      <3> HIDE DEF pos, m1
      <3> QED BY <1>2, <3>1
    <2> HIDE DEF by1, at1
    <2> QED BY <1>1, <2>1, <2>2 DEF Names
  \* Where a child is in the row.
  <1>7. ASSUME NEW j \in 1..m + k
        PROVE  /\ row[j] \in T /\ by[row[j]] \in {a, b} /\ pos[row[j]] = j
               /\ level[row[j]] + 1 = level[a]
    <2>1. CASE j <= m
      <3>1. row[j] = kids[a][j] /\ j \in DOMAIN kids[a]
        BY <1>2, <2>1 DEF Both, m
      <3> DEFINE c == row[j]
      <3> HIDE DEF row
      <3>2. c \in T /\ by[c] = a /\ at[c] = j /\ level[c] + 1 = level[a]
        BY <3>1, ShapePage
      <3> HIDE DEF c, pos
      <3>3. pos[c] = j
        BY <1>4, <3>2
      <3> QED BY <3>2, <3>3 DEF c
    <2>2. CASE ~(j <= m)
      <3>1. row[j] = kids[b][j - m] /\ j - m \in DOMAIN kids[b]
        BY <1>2, <2>2 DEF Both, m
      <3> DEFINE c == row[j]
      <3> HIDE DEF row
      <3>2. c \in T /\ by[c] = b /\ at[c] = j - m /\ level[c] + 1 = level[b]
        BY <3>1, ShapePage
      <3> HIDE DEF c, pos
      <3>3. pos[c] = m + (j - m)
        BY <1>4, <3>2
      <3>4. pos[c] = j
        BY <1>2, <3>3
      <3> QED BY <3>2, <3>4 DEF c
    <2> QED BY <2>1, <2>2
  <1>8. ASSUME NEW q \in T, by[q] \in {a, b}
        PROVE  pos[q] \in 1..m + k /\ row[pos[q]] = q
    <2>1. /\ by[q] \in T /\ at[q] \in DOMAIN kids[by[q]] /\ kids[by[q]][at[q]] = q
      BY <1>1, <1>8, ShapePage
    <2>2. CASE by[q] = a
      <3>1. at[q] \in 1..m /\ pos[q] = at[q] /\ kids[a][at[q]] = q
        BY <1>2, <1>4, <2>1, <2>2
      <3> HIDE DEF pos
      <3>2. pos[q] \in 1..m + k /\ pos[q] <= m
        BY <1>2, <3>1
      <3> QED BY <3>1, <3>2 DEF Both, m
    <2>3. CASE by[q] = b
      <3>1. at[q] \in 1..k /\ pos[q] = m + at[q] /\ kids[b][at[q]] = q
        BY <1>2, <1>4, <2>1, <2>3
      <3> HIDE DEF pos
      <3>2. pos[q] \in 1..m + k /\ ~(pos[q] <= m) /\ pos[q] - m = at[q]
        BY <1>2, <3>1
      <3> QED BY <3>1, <3>2 DEF Both, m
    <2> QED BY <1>8, <2>2, <2>3
  <1> HIDE DEF row, pos, by1, at1
  <1>9. ASSUME NEW q \in T PROVE Shaped(T, kids1, by1, at1, level, q)
    <2>1. CASE q = a
      <3> SUFFICES ASSUME NEW j \in 1..m1
                   PROVE  LET c == kids1[a][j]
                          IN  c \in T /\ by1[c] = a /\ at1[c] = j /\ level[c] + 1 = level[a]
        BY <1>2, <2>1 DEF Shaped
      <3>1. kids1[a][j] = row[j] /\ j \in 1..m + k /\ j <= m1
        BY <1>2, <1>3
      <3> DEFINE c == row[j]
      <3>2. c \in T /\ by[c] \in {a, b} /\ pos[c] = j /\ level[c] + 1 = level[a]
        BY <1>7, <3>1
      <3> HIDE DEF c
      <3>3. by1[c] = a /\ at1[c] = j
        BY <1>4, <3>1, <3>2
      <3> QED BY <3>1, <3>2, <3>3 DEF c
    <2>2. CASE q = b
      <3> SUFFICES ASSUME NEW j \in 1..k1
                   PROVE  LET c == kids1[b][j]
                          IN  c \in T /\ by1[c] = b /\ at1[c] = j /\ level[c] + 1 = level[b]
        BY <1>2, <2>2 DEF Shaped
      <3>1. /\ kids1[b][j] = row[m1 + j] /\ m1 + j \in 1..m + k
            /\ ~(m1 + j <= m1) /\ (m1 + j) - m1 = j
        BY <1>2, <1>3
      <3> DEFINE c == row[m1 + j]
      <3>2. c \in T /\ by[c] \in {a, b} /\ pos[c] = m1 + j /\ level[c] + 1 = level[a]
        BY <1>7, <3>1
      <3> HIDE DEF c
      <3>3. by1[c] = b /\ at1[c] = (m1 + j) - m1
        BY <1>4, <3>1, <3>2
      <3> QED BY <3>1, <3>2, <3>3 DEF c
    <2>3. CASE q \notin {a, b}
      <3>1. kids1[q] = kids[q]
        BY <2>3 DEF Shifts
      <3> SUFFICES ASSUME NEW j \in DOMAIN kids[q]
                   PROVE  LET c == kids[q][j]
                          IN  c \in T /\ by1[c] = q /\ at1[c] = j /\ level[c] + 1 = level[q]
        BY <3>1 DEF Shaped
      <3> DEFINE c == kids[q][j]
      <3>2. c \in T /\ by[c] = q /\ at[c] = j /\ level[c] + 1 = level[q]
        BY ShapePage
      <3> HIDE DEF c
      <3>3. by1[c] = q /\ at1[c] = j
        BY <1>4, <2>3, <3>2
      <3> QED BY <3>2, <3>3 DEF c
    <2> QED BY <2>1, <2>2, <2>3
  <1>10. ASSUME NEW q \in T, q # r PROVE Named(T, kids1, by1, at1, q)
    <2>1. CASE by[q] \in {a, b}
      <3>1. pos[q] \in 1..m + k /\ row[pos[q]] = q
        BY <1>8, <2>1
      <3>2. CASE pos[q] <= m1
        <4>1. by1[q] = a /\ at1[q] = pos[q]
          BY <1>4, <2>1, <3>2
        <4>2. pos[q] \in 1..m1 /\ kids1[a][pos[q]] = q
          BY <1>2, <1>3, <3>1, <3>2
        <4> QED BY <1>2, <4>1, <4>2 DEF Named
      <3>3. CASE ~(pos[q] <= m1)
        <4>1. by1[q] = b /\ at1[q] = pos[q] - m1
          BY <1>4, <2>1, <3>3
        <4>2. pos[q] - m1 \in 1..k1 /\ m1 + (pos[q] - m1) = pos[q]
          BY <1>2, <3>1, <3>3
        <4>3. kids1[b][pos[q] - m1] = q
          BY <1>3, <3>1, <4>2
        <4> QED BY <1>2, <4>1, <4>2, <4>3 DEF Named
      <3> QED BY <3>2, <3>3
    <2>2. CASE by[q] \notin {a, b}
      <3>1. /\ by[q] \in T /\ at[q] \in DOMAIN kids[by[q]] /\ kids[by[q]][at[q]] = q
        BY <1>10, ShapePage
      <3>2. by1[q] = by[q] /\ at1[q] = at[q] /\ kids1[by[q]] = kids[by[q]]
        BY <1>4, <2>2, <3>1 DEF Shifts
      <3> QED BY <3>1, <3>2 DEF Named
    <2> QED BY <2>1, <2>2
  <1>11. r # NoPage /\ r \in T /\ by1[r] = NoPage
    <2>1. r # NoPage /\ r \in T /\ by[r] = NoPage /\ a # NoPage /\ b # NoPage
      BY ShapePage
    <2> QED BY <1>4, <2>1
  <1>12. \A q \in T : level[q] <= level[r]
    BY ShapePage
  <1>13. Forest(T, r, kids1, by1, at1, level)
    BY <1>9, <1>10, <1>11, <1>12 DEF Forest
  <1> QED BY <1>5, <1>6, <1>13

\* Child i of p, which has no children, is taken out of the tree.
Prunes(T, kids, p, i, kids1) ==
    LET x == kids[p][i]
    IN  /\ kids[x] = <<>>
        /\ kids1[p] = RemoveAt(kids[p], i)
        /\ \A q \in T \ {p, x} : kids1[q] = kids[q]

LEMMA ShapePruned ==
  ASSUME NEW D, NEW T, NEW r, NEW kids, NEW kids1, NEW by, NEW at, NEW level,
         Names(D, T, by, at, level), Forest(T, r, kids, by, at, level),
         NEW p \in T, kids[p] \in Seq(Nat), NEW i \in 1..Len(kids[p]),
         NEW x, x = kids[p][i],
         Prunes(T, kids, p, i, kids1)
  PROVE  /\ x \in T /\ x # r
         /\ \E at1 : /\ Names(D, T \ {x}, by, at1, level)
                     /\ Forest(T \ {x}, r, kids1, by, at1, level)
  <1> DEFINE T1 == T \ {x}
             at1 == [q \in D |-> IF by[q] = p /\ at[q] > i THEN at[q] - 1 ELSE at[q]]
             k == kids[p]
             k1 == kids1[p]
  <1>1. /\ T \subseteq D /\ D \subseteq Nat \ {NoPage} /\ p \in Nat
        /\ by \in [D -> Nat] /\ at \in [D -> Nat] /\ level \in [D -> Nat]
    BY DEF Names
  <1>2. /\ i \in Nat \ {0} /\ i \in 1..Len(k) /\ k \in Seq(Nat)
        /\ Len(k) \in Nat /\ DOMAIN k = 1..Len(k)
    OBVIOUS
  <1>3. /\ Len(k1) = Len(k) - 1 /\ DOMAIN k1 = 1..Len(k) - 1
        /\ \A j \in 1..i - 1 : k1[j] = k[j]
        /\ \A j \in i..Len(k) - 1 : k1[j] = k[j + 1]
    <2>1. k1 = RemoveAt(k, i)
      BY DEF Prunes
    <2> HIDE DEF k, k1
    <2>2. HasRemoved(Nat, k, i, k1)
      BY <1>2, <2>1, Removing
    <2>3. k1 \in Seq(Nat) /\ Len(k1) = Len(k) - 1
      BY <2>2 DEF HasRemoved
    <2>4. DOMAIN k1 = 1..Len(k) - 1
      BY <2>3
    <2> QED BY <2>2, <2>4 DEF HasRemoved
  <1>4. /\ x \in T /\ x # r /\ x # p /\ by[x] = p /\ at[x] = i /\ kids[x] = <<>>
    BY <1>2, ShapePage DEF Prunes
  <1>5. Names(D, T1, by, at1, level)
    <2>1. at1 \in [D -> Nat]
      <3> SUFFICES ASSUME NEW q \in D PROVE at1[q] \in Nat
        OBVIOUS
      <3>1. at[q] \in Nat
        BY <1>1
      <3> QED BY <1>2, <3>1
    <2> HIDE DEF at1
    <2> QED BY <1>1, <2>1 DEF Names
  <1>6. \A q \in T : at1[q] = IF by[q] = p /\ at[q] > i THEN at[q] - 1 ELSE at[q]
    BY <1>1
  <1> HIDE DEF at1, k, k1
  <1>7. \A q \in T : /\ level[q] <= level[r] /\ level[q] \in Nat /\ at[q] \in Nat
    BY ShapePage
  <1>8. \A j \in DOMAIN k : /\ k[j] \in T /\ by[k[j]] = p /\ at[k[j]] = j
                            /\ level[k[j]] + 1 = level[p]
    BY ShapePage DEF k
  <1>9. ASSUME NEW q \in T1, q # p PROVE Shaped(T1, kids1, by, at1, level, q)
    <2>1. kids1[q] = kids[q]
      BY <1>9 DEF Prunes
    <2> SUFFICES ASSUME NEW j \in DOMAIN kids[q]
                 PROVE  LET c == kids[q][j]
                        IN  c \in T1 /\ by[c] = q /\ at1[c] = j /\ level[c] + 1 = level[q]
      BY <2>1 DEF Shaped
    <2> DEFINE c == kids[q][j]
    <2>2. c \in T /\ by[c] = q /\ at[c] = j /\ level[c] + 1 = level[q]
      BY ShapePage
    <2> HIDE DEF c
    <2>3. c \in T1 /\ at1[c] = j
      BY <1>4, <1>6, <1>9, <2>2
    <2> QED BY <2>2, <2>3 DEF c
  <1>10. Shaped(T1, kids1, by, at1, level, p)
    <2> SUFFICES ASSUME NEW j \in 1..Len(k) - 1
                 PROVE  LET c == k1[j]
                        IN  c \in T1 /\ by[c] = p /\ at1[c] = j /\ level[c] + 1 = level[p]
      BY <1>3 DEF Shaped, k1
    <2> DEFINE c == k1[j]
    <2>1. CASE j < i
      <3>1. j \in DOMAIN k /\ j \in 1..i - 1 /\ j \in Nat
        BY <1>2, <2>1
      <3>4. c = k[j]
        BY <1>3, <3>1
      <3> HIDE DEF c
      <3>2. c \in T /\ by[c] = p /\ at[c] = j /\ level[c] + 1 = level[p]
        BY <1>8, <3>1, <3>4
      <3>5. j # i /\ ~(j > i)
        BY <1>2, <2>1, <3>1, SMTT(60)
      <3>3. c # x /\ at1[c] = j
        BY <1>4, <1>6, <3>2, <3>5
      <3> QED BY <3>2, <3>3 DEF c
    <2>2. CASE ~(j < i)
      <3>1. /\ j + 1 \in DOMAIN k /\ c = k[j + 1] /\ j \in Nat
            /\ j + 1 > i /\ (j + 1) - 1 = j
        BY <1>2, <1>3, <2>2, SMTT(60)
      <3> HIDE DEF c
      <3>2. c \in T /\ by[c] = p /\ at[c] = j + 1 /\ level[c] + 1 = level[p]
        BY <1>8, <3>1
      <3>3. c # x /\ at1[c] = (j + 1) - 1
        BY <1>2, <1>4, <1>6, <3>1, <3>2, SMTT(60)
      <3> QED BY <3>1, <3>2, <3>3 DEF c
    <2> QED BY <2>1, <2>2
  <1>11. ASSUME NEW q \in T1, q # r PROVE Named(T1, kids1, by, at1, q)
    <2>1. by[q] \in T /\ at[q] \in DOMAIN kids[by[q]] /\ kids[by[q]][at[q]] = q
      BY <1>11, ShapePage
    <2>2. by[q] # x
      BY <1>4, <2>1
    <2>3. CASE by[q] # p
      BY <1>6, <2>1, <2>2, <2>3 DEF Prunes, Named
    <2>4. CASE by[q] = p
      <3>1. at[q] \in 1..Len(k) /\ k[at[q]] = q /\ at[q] # i
        BY <1>2, <1>4, <2>1, <2>4 DEF k
      <3>2. CASE at[q] > i
        <4>1. at1[q] = at[q] - 1
          BY <1>6, <2>4, <3>2
        <4>2. /\ at[q] - 1 \in i..Len(k) - 1 /\ at[q] - 1 \in 1..Len(k) - 1
              /\ (at[q] - 1) + 1 = at[q]
          <5> DEFINE z == at[q]
          <5>1. z \in 1..Len(k) /\ z > i
            BY <3>1, <3>2
          <5> HIDE DEF z
          <5>2. z \in Nat /\ z - 1 \in i..Len(k) - 1 /\ z - 1 \in 1..Len(k) - 1
            BY <1>2, <5>1
          <5> QED BY <5>2 DEF z
        <4>3. k1[at[q] - 1] = q
          BY <1>3, <3>1, <4>2
        <4> QED BY <1>3, <1>4, <2>4, <4>1, <4>2, <4>3 DEF Named, k1
      <3>3. CASE ~(at[q] > i)
        <4>1. at1[q] = at[q]
          BY <1>6, <3>3
        <4>2. at[q] \in 1..i - 1 /\ at[q] \in 1..Len(k) - 1
          BY <1>2, <3>1, <3>3
        <4>3. k1[at[q]] = q
          BY <1>3, <3>1, <4>2
        <4> QED BY <1>3, <1>4, <2>4, <4>1, <4>2, <4>3 DEF Named, k1
      <3> QED BY <3>2, <3>3
    <2> QED BY <2>3, <2>4
  <1>12. r # NoPage /\ r \in T1 /\ by[r] = NoPage
    BY <1>4, ShapePage
  <1>13. Forest(T1, r, kids1, by, at1, level)
    BY <1>7, <1>9, <1>10, <1>11, <1>12 DEF Forest
  <1> QED BY <1>4, <1>5, <1>13

\* The tree gets a root above its root.
LEMMA ShapeRaised ==
  ASSUME NEW D, NEW T, NEW r, NEW kids, NEW kids1, NEW by, NEW at, NEW level,
         Names(D, T, by, at, level), Forest(T, r, kids, by, at, level),
         r # NoPage, NEW n \in D \ T, kids1[n] = <<r>>,
         \A q \in T : kids1[q] = kids[q]
  PROVE  Grown(D, T, n, n, level[r] + 1, kids1, by, level)
  <1> DEFINE T1 == T \cup {n}
             by1 == [q \in D |-> IF q = n THEN NoPage ELSE IF q = r THEN n ELSE by[q]]
             at1 == [q \in D |-> IF q = r THEN 1 ELSE at[q]]
             level1 == [q \in D |-> IF q = n THEN level[r] + 1 ELSE level[q]]
  <1>1. /\ T \subseteq D /\ D \subseteq Nat \ {NoPage} /\ NoPage \in Nat
        /\ by \in [D -> Nat] /\ at \in [D -> Nat] /\ level \in [D -> Nat]
    BY DEF Names, NoPage
  <1>2. r \in T /\ by[r] = NoPage /\ r # n /\ level[r] \in Nat /\ n # NoPage
    BY <1>1 DEF Forest
  <1>3. Names(D, T1, by1, at1, level1)
    <2>1. by1 \in [D -> Nat] /\ at1 \in [D -> Nat] /\ level1 \in [D -> Nat]
      BY <1>1, <1>2
    <2> HIDE DEF by1, at1, level1
    <2> QED BY <1>1, <2>1 DEF Names
  <1>4. \A q \in T : /\ q # n /\ level1[q] = level[q]
                     /\ q # r => by1[q] = by[q] /\ at1[q] = at[q]
    BY <1>1
  <1>5. /\ by1[n] = NoPage /\ level1[n] = level[r] + 1 /\ by1[r] = n /\ at1[r] = 1
    BY <1>1, <1>2
  <1>6. \A q \in D \ T1 : by1[q] = by[q] /\ level1[q] = level[q]
    BY <1>2
  <1> HIDE DEF by1, at1, level1
  <1>7. ASSUME NEW q \in T PROVE Shaped(T1, kids1, by1, at1, level1, q)
    <2>1. kids1[q] = kids[q]
      OBVIOUS
    <2> SUFFICES ASSUME NEW j \in DOMAIN kids[q]
                 PROVE  LET c == kids[q][j]
                        IN  c \in T1 /\ by1[c] = q /\ at1[c] = j
                            /\ level1[c] + 1 = level1[q]
      BY <2>1 DEF Shaped
    <2> DEFINE c == kids[q][j]
    <2>2. c \in T /\ by[c] = q /\ at[c] = j /\ level[c] + 1 = level[q] /\ c # r
      BY ShapePage
    <2> HIDE DEF c
    <2>3. c \in T1 /\ by1[c] = q /\ at1[c] = j /\ level1[c] + 1 = level1[q]
      BY <1>4, <2>2
    <2> QED BY <2>3 DEF c
  <1>8. Shaped(T1, kids1, by1, at1, level1, n)
    BY <1>2, <1>4, <1>5 DEF Shaped
  <1>9. Named(T1, kids1, by1, at1, r)
    BY <1>5 DEF Named
  <1>10. ASSUME NEW q \in T, q # r PROVE Named(T1, kids1, by1, at1, q)
    <2>1. by[q] \in T /\ at[q] \in DOMAIN kids[by[q]] /\ kids[by[q]][at[q]] = q
      BY <1>10, ShapePage
    <2> QED BY <1>4, <1>10, <2>1 DEF Named
  <1>11. \A q \in T1 : level1[q] <= level1[n]
    <2>1. \A q \in T : level[q] \in Nat /\ level[q] <= level[r]
      BY ShapePage
    <2> QED BY <1>2, <1>4, <1>5, <2>1
  <1>12. Forest(T1, n, kids1, by1, at1, level1)
    BY <1>2, <1>5, <1>7, <1>8, <1>9, <1>10, <1>11 DEF Forest
  <1> QED BY <1>3, <1>4, <1>5, <1>6, <1>12 DEF Grown

\* The tree without its root r, whose only child c takes its place.
HasSole(kids, r, c) == kids[r] = <<c>>

Lowered(D, T, r, c, kids, by, at, level) ==
    \E by1 : /\ Names(D, T \ {r}, by1, at, level)
             /\ Forest(T \ {r}, c, kids, by1, at, level)
             /\ \A q \in D \ T : by1[q] = by[q]

LEMMA ShapeLowered ==
  ASSUME NEW D, NEW T, NEW r, NEW kids, NEW by, NEW at, NEW level,
         Names(D, T, by, at, level), Forest(T, r, kids, by, at, level),
         r # NoPage, NEW c, HasSole(kids, r, c)
  PROVE  Lowered(D, T, r, c, kids, by, at, level)
  <1> DEFINE T1 == T \ {r}
             by1 == [q \in D |-> IF q = c THEN NoPage ELSE by[q]]
  <1>1. /\ T \subseteq D /\ D \subseteq Nat \ {NoPage} /\ NoPage \in Nat
        /\ by \in [D -> Nat] /\ at \in [D -> Nat] /\ level \in [D -> Nat]
    BY DEF Names, NoPage
  <1>2. r \in T /\ by[r] = NoPage
    BY DEF Forest
  <1>3. /\ c \in T /\ by[c] = r /\ at[c] = 1 /\ level[c] + 1 = level[r] /\ c # r
        /\ c # NoPage
    <2>1. 1 \in DOMAIN kids[r] /\ kids[r][1] = c
      BY DEF HasSole
    <2>2. c \in T /\ by[c] = r /\ at[c] = 1 /\ level[c] + 1 = level[r] /\ c # r
      BY <1>2, <2>1, ShapePage
    <2> QED BY <1>1, <2>2
  <1>4. Names(D, T1, by1, at, level)
    <2>1. by1 \in [D -> Nat]
      BY <1>1
    <2> HIDE DEF by1
    <2> QED BY <1>1, <2>1 DEF Names
  <1>5. \A q \in T : by1[q] = IF q = c THEN NoPage ELSE by[q]
    BY <1>1
  <1>6. \A q \in D \ T : by1[q] = by[q]
    BY <1>3
  <1> HIDE DEF by1
  <1>7. ASSUME NEW q \in T1 PROVE Shaped(T1, kids, by1, at, level, q)
    <2> SUFFICES ASSUME NEW j \in DOMAIN kids[q]
                 PROVE  LET d == kids[q][j]
                        IN  d \in T1 /\ by1[d] = q /\ at[d] = j /\ level[d] + 1 = level[q]
      BY DEF Shaped
    <2> DEFINE d == kids[q][j]
    <2>1. d \in T /\ by[d] = q /\ at[d] = j /\ level[d] + 1 = level[q] /\ d # r
      BY ShapePage
    <2> HIDE DEF d
    <2>2. d \in T1 /\ by1[d] = q
      BY <1>3, <1>5, <2>1
    <2> QED BY <2>1, <2>2 DEF d
  <1>8. ASSUME NEW q \in T1, q # c
        PROVE  Named(T1, kids, by1, at, q) /\ level[q] + 1 = level[by[q]]
    <2>1. /\ by[q] \in T /\ at[q] \in DOMAIN kids[by[q]] /\ kids[by[q]][at[q]] = q
          /\ level[q] + 1 = level[by[q]]
      BY ShapePage
    <2>2. by[q] # r
      <3>1. DOMAIN kids[r] = {1} /\ kids[r][1] = c
        BY DEF HasSole
      <3>2. ASSUME by[q] = r PROVE FALSE
        <4>1. at[q] = 1 /\ kids[r][at[q]] = q
          BY <2>1, <3>1, <3>2
        <4> QED BY <1>8, <3>1, <4>1
      <3> QED BY <3>2
    <2> QED BY <1>5, <1>8, <2>1, <2>2 DEF Named
  <1>9. ASSUME NEW q \in T1 PROVE level[q] <= level[c]
    <2>1. level[q] \in Nat /\ level[c] \in Nat /\ level[q] <= level[r]
      BY <1>3, ShapePage
    <2>2. CASE q = c
      BY <2>1, <2>2
    <2>3. CASE q # c
      <3>1. by[q] \in T /\ level[q] + 1 = level[by[q]]
        BY <2>3, ShapePage
      <3>2. level[by[q]] <= level[r] /\ level[by[q]] \in Nat
        BY <3>1, ShapePage
      <3> QED BY <1>3, <2>1, <3>1, <3>2
    <2> QED BY <2>2, <2>3
  <1>10. c \in T1 /\ by1[c] = NoPage /\ c # NoPage
    BY <1>3, <1>5
  <1>11. Forest(T1, c, kids, by1, at, level)
    BY <1>7, <1>8, <1>9, <1>10 DEF Forest
  <1> QED BY <1>4, <1>6, <1>11 DEF Lowered

\* A root at the bottom is the whole tree.
LEMMA ShapeAlone ==
  ASSUME NEW D, NEW T, NEW r, NEW kids, NEW by, NEW at, NEW level,
         Names(D, T, by, at, level), Forest(T, r, kids, by, at, level),
         r # NoPage, level[r] = 0
  PROVE  T = {r}
  <1>1. r \in T
    BY DEF Forest
  <1>2. ASSUME NEW q \in T, q # r PROVE FALSE
    <2>1. by[q] \in T /\ level[q] + 1 = level[by[q]] /\ level[q] \in Nat
      BY <1>2, ShapePage
    <2>2. level[by[q]] <= 0 /\ level[by[q]] \in Nat
      BY <2>1, ShapePage
    <2> QED BY <2>1, <2>2
  <1> QED BY <1>1, <1>2

-----------------------------------------------------------------------------
(* A sound cache, by its shape.                                            *)

SoundBy(t, r, hand, by, at, level) ==
    /\ Names(DOMAIN t.page, InTree(t, hand), by, at, level)
    /\ Forest(InTree(t, hand), r, Kids(t), by, at, level)
    /\ PagesFit(t, r, hand, level)
    /\ ListHolds(t, hand, by, level)

LEMMA SoundIs ==
  ASSUME NEW t \in Cache, NEW r, NEW hand
  PROVE  Sound(t, r, hand) <=> \E by, at, level : SoundBy(t, r, hand, by, at, level)
  <1>1. InTree(t, hand) \subseteq DOMAIN t.page /\ DOMAIN t.page \subseteq Nat \ {NoPage}
    BY PagesOf DEF InTree, NoPage
  <1>2. ASSUME NEW by, NEW at, NEW level
        PROVE  Holds(t, r, hand, by, at, level) <=> SoundBy(t, r, hand, by, at, level)
    BY <1>1, TreeIsForest DEF Holds, SoundBy, Witness, Names
  <1> QED BY <1>2 DEF Sound

LEMMA PageFits ==
  ASSUME NEW t \in Cache, NEW r, NEW hand, NEW by, NEW at, NEW level,
         SoundBy(t, r, hand, by, at, level), NEW p \in InTree(t, hand)
  PROVE  /\ p \in DOMAIN t.page /\ p \notin hand /\ p # NoPage
         /\ t.page[p].kind \in {"leaf", "internal"}
         /\ Fits(t, r, p)
         /\ t.page[p].kind = "leaf" => level[p] = 0
         /\ Kids(t)[p] = t.page[p].children
         /\ r # NoPage /\ r \in InTree(t, hand)
         /\ level[p] \in Nat
  <1>1. /\ p \in DOMAIN t.page /\ p \notin hand /\ t.page[p].kind \in {"leaf", "internal"}
    BY PagesOf DEF InTree
  <1>2. p # NoPage /\ level[p] \in Nat /\ Kids(t)[p] = t.page[p].children
    BY <1>1 DEF SoundBy, Names, Kids
  <1>3. Fits(t, r, p) /\ (t.page[p].kind = "leaf" => level[p] = 0)
    BY DEF SoundBy, PagesFit
  <1>4. r # NoPage /\ r \in InTree(t, hand)
    BY DEF SoundBy, Forest
  <1> QED BY <1>1, <1>2, <1>3, <1>4

\* A child of a page, in a cache that is sound.
LEMMA ChildFits ==
  ASSUME NEW t \in Cache, NEW r, NEW hand, NEW by, NEW at, NEW level,
         SoundBy(t, r, hand, by, at, level), NEW p \in InTree(t, hand),
         NEW i \in DOMAIN t.page[p].children
  PROVE  LET c == Child(t, p, i)
         IN  /\ c \in InTree(t, hand) /\ c \in DOMAIN t.page /\ c # p /\ c # r
             /\ by[c] = p /\ at[c] = i /\ level[c] + 1 = level[p]
             /\ t.page[p].kind = "internal"
  <1>1. Kids(t)[p] = t.page[p].children /\ Fits(t, r, p)
        /\ t.page[p].kind \in {"leaf", "internal"}
    BY PageFits
  <1>2. LET c == Kids(t)[p][i]
        IN  c \in InTree(t, hand) /\ c # p /\ c # r
            /\ by[c] = p /\ at[c] = i /\ level[c] + 1 = level[p]
    BY <1>1, ShapePage DEF SoundBy
  <1>3. t.page[p].kind = "internal"
    BY <1>1 DEF Fits
  <1> QED BY <1>1, <1>2, <1>3 DEF Child, InTree

\* What a page that was changed, taken or given back owes to sync.
Tracks(t, s) ==
    /\ DOMAIN t.page \subseteq DOMAIN s.page
    /\ t.dirty \subseteq s.dirty
    /\ t.header = TRUE => s.header = TRUE
    /\ s.header = TRUE \/ s.free = t.free
    /\ \A q \in DOMAIN s.page :
          q \in s.dirty \/ (q \in DOMAIN t.page /\ s.page[q] = t.page[q])

LEMMA TracksOn ==
  ASSUME NEW t, NEW s, NEW u, Tracks(t, s), Tracks(s, u)
  PROVE  Tracks(t, u)
  BY DEF Tracks

LEMMA TracksSame ==
  ASSUME NEW t
  PROVE  Tracks(t, t)
  BY DEF Tracks

-----------------------------------------------------------------------------
(* A full child is split: the tree has a page more, and neither half is full. *)

SplitDone(t, r, p, i, s) ==
    /\ s \in Cache /\ Sound(s, r, {}) /\ Tracks(t, s) /\ s.wild = t.wild
    /\ p \in InTree(s, {}) /\ KeyCount(s, p) = KeyCount(t, p) + 1
    /\ \A j \in {i, i + 1} : /\ j \in DOMAIN s.page[p].children
                             /\ Child(s, p, j) \in InTree(s, {})
                             /\ KeyCount(s, Child(s, p, j)) = MinKeys

LEMMA SplitHolds ==
  ASSUME NEW t \in Cache, NEW r, Sound(t, r, {}), NEW p \in InTree(t, {}),
         NEW i \in DOMAIN t.page[p].children,
         KeyCount(t, p) < MaxKeys, KeyCount(t, Child(t, p, i)) = MaxKeys
  PROVE  SplitDone(t, r, p, i, SplitChild(t, p, i))
  <1> DEFINE c == Child(t, p, i)
             n == AllocatedPage(t)
             u == AllocatePage(t, t.page[c].kind)
             s == SplitChild(t, p, i)
             x == t.page[c]
             y == t.page[p]
  <1>1. /\ p \in DOMAIN t.page /\ c \in InTree(t, {}) /\ c \in DOMAIN t.page
        /\ c # p /\ x.kind \in {"leaf", "internal"}
        /\ Len(y.keys) + 1 = Len(y.children) /\ y.kind = "internal"
        /\ IF IsLeaf(t, c) THEN x.children = <<>> ELSE Len(x.children) = MaxKeys + 1
        /\ t.free # NoPage => t.free \in DOMAIN t.page
        /\ x.link = NoPage /\ y.link = NoPage
    <2>1. PICK by, at, level : SoundBy(t, r, {}, by, at, level)
      BY SoundIs
    <2>2. /\ p \in DOMAIN t.page /\ Fits(t, r, p) /\ y.kind = "internal"
          /\ c \in InTree(t, {}) /\ c # p
      BY <2>1, PageFits, ChildFits
    <2> HIDE DEF c
    <2>3. c \in DOMAIN t.page /\ t.page[c].kind \in {"leaf", "internal"} /\ Fits(t, r, c)
      BY <2>1, <2>2, PageFits
    <2>4. t.free # NoPage => t.free \in DOMAIN t.page
      BY <2>1 DEF SoundBy, ListHolds, OnList
    <2> QED BY <2>2, <2>3, <2>4 DEF Fits, KeyCount, IsLeaf, c
  <1>2. /\ Sound(u, r, {n}) /\ InTree(u, {n}) = InTree(t, {})
        /\ n \notin InTree(t, {}) /\ n # c /\ n # p
    BY <1>1, AllocateHolds
  <1>3. /\ u \in Cache /\ n \in Nat \ {0}
        /\ DOMAIN u.page = DOMAIN t.page \cup {n} /\ n \in DOMAIN u.page
        /\ u.page[n] = MakePage(x.kind)
        /\ u.page[p] = y /\ u.page[c] = x
        /\ \A q \in DOMAIN t.page \ {n} : u.page[q] = t.page[q]
        /\ MarksHeader(t, {n}, u)
    <2>1. /\ u \in Cache /\ n \in Nat \ {0}
          /\ DOMAIN u.page = DOMAIN t.page \cup {n}
          /\ u.page[n] = MakePage(x.kind)
          /\ \A q \in DOMAIN t.page \ {n} : u.page[q] = t.page[q]
          /\ MarksHeader(t, {n}, u)
      <3>1. t.free # NoPage => t.free \in DOMAIN t.page
        BY <1>1
      <3>2. x.kind \in {"leaf", "internal"}
        BY <1>1, SMTT(60)
      <3> HIDE DEF x
      <3> QED BY <3>1, <3>2, Allocating DEF x
    <2> HIDE DEF n, u, c
    <2> QED BY <1>1, <1>2, <2>1
  <1>4. /\ s \in Cache
        /\ DOMAIN s.page = DOMAIN u.page
        /\ s.page[c].keys = SubSeq(x.keys, 1, MinKeys)
        /\ s.page[c].children = SubSeq(x.children, 1, IF IsLeaf(t, c) THEN 0 ELSE MinDegree)
        /\ s.page[n].keys = SubSeq(x.keys, MinDegree + 1, MaxKeys)
        /\ s.page[n].children = SubSeq(x.children, MinDegree + 1, Len(x.children))
        /\ s.page[p].keys = InsertAt(y.keys, i, x.keys[MinDegree])
        /\ s.page[p].children = InsertAt(y.children, i + 1, n)
        /\ \A q \in {c, n, p} : /\ s.page[q].kind = u.page[q].kind
                                /\ s.page[q].link = u.page[q].link
        /\ \A q \in DOMAIN u.page \ {c, n, p} : s.page[q] = u.page[q]
        /\ Marks(u, {c, n, p}, s)
    <2>1. i <= KeyCount(t, p) + 1
      BY <1>1, PagesOf, SMTT(60) DEF KeyCount
    <2>2. IsLeaf(t, c) \/ Len(x.children) = MaxKeys + 1
      BY <1>1
    <2> HIDE DEF n
    <2> QED BY <1>1, <1>2, <2>1, <2>2, Splitting, ZenonT(60) DEF n
  <1>5. /\ MinDegree \in Nat \ {0} /\ MinKeys = MinDegree - 1
        /\ MaxKeys = 2 * MinDegree - 1 /\ MinKeys \in Nat /\ MaxKeys \in Nat
        /\ MinDegree >= 2
    BY BTreeAssumption DEF MinKeys, MaxKeys
  <1>6. /\ x.keys \in Seq(Int) /\ x.children \in Seq(Nat) /\ Len(x.keys) = MaxKeys
        /\ y.keys \in Seq(Int) /\ y.children \in Seq(Nat)
        /\ Len(y.keys) < MaxKeys
        /\ i \in 1..Len(y.children)
    <2>1. x.keys \in Seq(Int) /\ x.children \in Seq(Nat)
      BY <1>1, PagesOf
    <2>2. y.keys \in Seq(Int) /\ y.children \in Seq(Nat)
      BY <1>1, PagesOf
    <2>3. Len(x.keys) = MaxKeys /\ Len(y.keys) < MaxKeys
      BY DEF KeyCount
    <2>4. i \in DOMAIN y.children
      OBVIOUS
    <2> HIDE DEF x, y
    <2> QED BY <2>1, <2>2, <2>3, <2>4
  <1>7. x.kind = "leaf" <=> IsLeaf(t, c)
    BY DEF IsLeaf
  <1> HIDE DEF c, n, u, s, x, y
  \* Sizes, and the children one by one.
  <1>8. Len(s.page[c].keys) = MinKeys /\ Len(s.page[n].keys) = MinKeys
    <2>1. Len(SubSeq(x.keys, 1, MinKeys)) = MinKeys
      BY <1>5, <1>6, PartOf DEF IsPart
    <2>2. Len(SubSeq(x.keys, MinDegree + 1, MaxKeys)) = MinKeys
      BY <1>5, <1>6, PartOf DEF IsPart
    <2> QED BY <1>4, <2>1, <2>2
  <1>9. Len(s.page[p].keys) = Len(y.keys) + 1
    <2>1. x.keys[MinDegree] \in Int
      <3>1. MinDegree \in 1..Len(x.keys)
        BY <1>5, <1>6
      <3> QED BY <1>6, <3>1
    <2>2. i \in 1..Len(y.keys) + 1
      BY <1>1, <1>6
    <2>3. HasInserted(Int, y.keys, i, x.keys[MinDegree], InsertAt(y.keys, i, x.keys[MinDegree]))
      BY <1>6, <2>1, <2>2, Inserting
    <2> QED BY <1>4, <2>3 DEF HasInserted
  <1>10. /\ Len(s.page[p].children) = Len(y.children) + 1
         /\ s.page[p].children \in Seq(Nat)
         /\ s.page[p].children[i] = c /\ s.page[p].children[i + 1] = n
    <2>1. i + 1 \in 1..Len(y.children) + 1 /\ i \in 1..(i + 1) - 1 /\ n \in Nat
      BY <1>3, <1>6
    <2>2. HasInserted(Nat, y.children, i + 1, n, s.page[p].children)
      BY <1>4, <1>6, <2>1, Inserting
    <2>3. y.children[i] = c
      BY DEF c, y, Child
    <2>4. s.page[p].children[i] = y.children[i]
      BY <2>1, <2>2 DEF HasInserted
    <2> QED BY <2>2, <2>3, <2>4 DEF HasInserted
  <1>11. /\ s.page[c].children \in Seq(Nat) /\ s.page[n].children \in Seq(Nat)
         /\ Len(s.page[c].children) = IF IsLeaf(t, c) THEN 0 ELSE MinDegree
         /\ Len(s.page[n].children) = IF IsLeaf(t, c) THEN 0 ELSE MinDegree
         /\ \A j \in 1..Len(s.page[c].children) : s.page[c].children[j] = x.children[j]
         /\ \A j \in 1..Len(s.page[n].children) :
               s.page[n].children[j] = x.children[Len(s.page[c].children) + j]
    <2>1. CASE IsLeaf(t, c)
      <3>1. x.children = <<>> /\ Len(x.children) = 0
        BY <1>1, <2>1
      <3>2. s.page[c].children = <<>>
        BY <1>4, <2>1, <3>1
      <3>3. s.page[n].children = <<>>
        <4>1. SubSeq(<<>>, MinDegree + 1, 0) = <<>>
          BY <1>5
        <4> QED BY <1>4, <3>1, <4>1
      <3> QED BY <2>1, <3>2, <3>3
    <2>2. CASE ~IsLeaf(t, c)
      <3>1. Len(x.children) = 2 * MinDegree
        BY <1>1, <1>5, <2>2
      <3>2. s.page[c].children = SubSeq(x.children, 1, MinDegree)
        BY <1>4, <2>2
      <3>3. /\ s.page[c].children \in Seq(Nat) /\ Len(s.page[c].children) = MinDegree
            /\ \A j \in 1..MinDegree : s.page[c].children[j] = x.children[j]
        <4>1. 1 \in Nat \ {0} /\ MinDegree \in Nat /\ MinDegree <= Len(x.children)
          BY <1>5, <3>1
        <4>2. IsPart(Nat, x.children, 1, MinDegree, s.page[c].children)
          BY <1>6, <3>2, <4>1, PartOf
        <4>3. MinDegree - 1 + 1 = MinDegree /\ 1 <= MinDegree
              /\ \A j \in 1..MinDegree : 1 + j - 1 = j
          BY <1>5
        <4> QED BY <4>2, <4>3 DEF IsPart
      <3>4. /\ s.page[n].children \in Seq(Nat) /\ Len(s.page[n].children) = MinDegree
            /\ \A j \in 1..MinDegree : s.page[n].children[j] = x.children[MinDegree + j]
        <4>1. MinDegree + 1 \in Nat \ {0} /\ Len(x.children) \in Nat
              /\ Len(x.children) <= Len(x.children)
          BY <1>5, <3>1
        <4>2. IsPart(Nat, x.children, MinDegree + 1, Len(x.children), s.page[n].children)
          BY <1>4, <1>6, <4>1, PartOf
        <4>3. /\ MinDegree + 1 <= Len(x.children)
              /\ Len(x.children) - (MinDegree + 1) + 1 = MinDegree
              /\ \A j \in 1..MinDegree : MinDegree + 1 + j - 1 = MinDegree + j
          BY <1>5, <3>1
        <4> QED BY <4>2, <4>3 DEF IsPart
      <3> QED BY <2>2, <3>3, <3>4
    <2> QED BY <2>1, <2>2
  <1>12. PICK by, at, level : SoundBy(u, r, {n}, by, at, level)
    BY <1>2, <1>3, SoundIs
  <1> DEFINE T == InTree(u, {n})
             D == DOMAIN u.page
             kids == Kids(u)
             kids1 == [q \in D |-> IF q = n THEN <<>>
                                   ELSE IF q = p THEN InsertAt(y.children, i + 1, n)
                                   ELSE kids[q]]
             kids2 == Kids(s)
  <1>13. /\ p \in T /\ c \in T /\ n \in D \ T /\ p # c /\ n # c /\ n # p
         /\ p \in D /\ c \in D
         /\ kids[p] = y.children /\ kids[c] = x.children
    <2>1. p \in T /\ c \in T /\ n \in D \ T /\ p # c /\ n # c /\ n # p /\ p \in D /\ c \in D
      BY <1>1, <1>2, <1>3
    <2> QED BY <1>3, <2>1 DEF Kids
  <1>14. /\ Names(D, T, by, at, level) /\ Forest(T, r, kids, by, at, level)
         /\ PagesFit(u, r, {n}, level) /\ ListHolds(u, {n}, by, level)
    BY <1>12 DEF SoundBy
  <1>15. InTree(s, {}) = T \cup {n} /\ OnList(s, {}) = OnList(u, {n})
    <2>1. s.page[n].kind = x.kind /\ s.page[p].kind = y.kind /\ s.page[c].kind = x.kind
      BY <1>3, <1>4 DEF MakePage
    <2>12. s.page[n].kind # "free"
      BY <1>1, <2>1
    <2>2. \A q \in D : /\ q = n => s.page[q].kind # "free"
                      /\ q # n => s.page[q].kind = u.page[q].kind
      BY <1>1, <1>3, <1>4, <2>1
    <2>3. n \in D /\ DOMAIN s.page = D /\ DOMAIN u.page = D
      BY <1>4, <1>13
    <2> HIDE DEF D
    <2>4. \A q : q \in T <=> q \in D /\ q # n /\ u.page[q].kind # "free"
      BY <2>3 DEF InTree
    <2>5. \A q : q \in OnList(u, {n}) <=> q \in D /\ q # n /\ u.page[q].kind = "free"
      BY <2>3 DEF OnList
    <2>6. \A q : q \in InTree(s, {}) <=> q \in D /\ s.page[q].kind # "free"
      BY <2>3 DEF InTree
    <2>7. \A q : q \in OnList(s, {}) <=> q \in D /\ s.page[q].kind = "free"
      BY <2>3 DEF OnList
    <2> HIDE DEF T
    <2>10. ASSUME NEW q \in D, q # n PROVE s.page[q].kind = u.page[q].kind
      BY <2>2, <2>10
    <2>11. n \in InTree(s, {}) /\ n \notin OnList(s, {})
      <3>1. n \in D /\ s.page[n].kind # "free"
        BY <2>3, <2>12
      <3>2. n \in InTree(s, {})
        BY <2>6, <3>1
      <3>3. n \notin OnList(s, {})
        BY <2>7, <3>1
      <3> QED BY <3>2, <3>3
    <2>8. InTree(s, {}) = T \cup {n}
      <3>1. ASSUME NEW q \in InTree(s, {}), q # n PROVE q \in T
        BY <2>4, <2>6, <2>10, <3>1
      <3>2. ASSUME NEW q \in T PROVE q \in InTree(s, {})
        BY <2>4, <2>6, <2>10
      <3> QED BY <2>11, <3>1, <3>2
    <2>9. OnList(s, {}) = OnList(u, {n})
      <3>1. ASSUME NEW q \in OnList(s, {}) PROVE q \in OnList(u, {n})
        <4>1. q # n
          BY <2>11
        <4> QED BY <2>5, <2>7, <2>10, <4>1
      <3>2. ASSUME NEW q \in OnList(u, {n}) PROVE q \in OnList(s, {})
        BY <2>5, <2>7, <2>10
      <3> QED BY <3>1, <3>2
    <2> QED BY <2>8, <2>9
  \* First the new page is made a child of p ...
  <1>16. PICK by1, at1, level1 :
            /\ Names(D, T \cup {n}, by1, at1, level1)
            /\ Forest(T \cup {n}, r, kids1, by1, at1, level1)
            /\ \A q \in T : level1[q] = level[q]
            /\ level1[n] = level[c]
            /\ \A q \in D \ (T \cup {n}) : by1[q] = by[q] /\ level1[q] = level[q]
    <2>1. level[c] + 1 = level[p] /\ level[c] \in Nat
      <3>1. i \in DOMAIN u.page[p].children /\ Child(u, p, i) = c
        BY <1>3 DEF Child, c, y
      <3> QED BY <1>12, <1>13, <1>3, <3>1, ChildFits, PageFits
    <2>2. Grafts(T, kids, p, i + 1, n, kids1)
      <3>1. T \subseteq D
        BY <1>14 DEF Names
      <3> HIDE DEF T, D, kids
      <3> QED BY <1>13, <3>1 DEF Grafts
    <2>3. kids[p] \in Seq(Nat) /\ i + 1 \in 1..Len(kids[p]) + 1
      BY <1>6, <1>13
    <2> HIDE DEF T, D, kids, kids1
    <2>4. Grown(D, T, r, n, level[c], kids1, by, level)
      BY <1>13, <1>14, <2>1, <2>2, <2>3, ShapeGrafted
    <2> QED BY <2>4 DEF Grown
  \* ... and then it gets its half of the children of c.
  <1>17. Shifts(T \cup {n}, kids1, c, n, kids2)
    <2>1. kids1[c] = x.children /\ kids1[n] = <<>> /\ Len(kids1[n]) = 0
      BY <1>13
    <2>2. kids2[c] = s.page[c].children /\ kids2[n] = s.page[n].children
      BY <1>4, <1>13 DEF Kids
    <2>3. \A q \in (T \cup {n}) \ {c, n} : kids2[q] = kids1[q]
      <3> SUFFICES ASSUME NEW q \in T, q # c, q # n PROVE kids2[q] = kids1[q]
        OBVIOUS
      <3>1. q \in D /\ kids2[q] = s.page[q].children /\ kids[q] = u.page[q].children
        BY <1>4, <1>14 DEF Names, Kids
      <3>2. CASE q = p
        BY <1>4, <1>13, <3>1, <3>2
      <3>3. CASE q # p
        <4>1. s.page[q] = u.page[q]
          BY <1>4, <3>1, <3>3
        <4> QED BY <3>1, <3>3, <4>1
      <3> QED BY <3>2, <3>3
    <2> HIDE DEF T, kids1, kids2
    <2>4. Len(kids2[c]) + Len(kids2[n]) = Len(kids1[c]) + Len(kids1[n])
          /\ Len(kids2[c]) \in Nat /\ Len(kids2[n]) \in Nat
          /\ Len(kids2[c]) + Len(kids2[n]) = Len(kids1[c])
          /\ Len(kids1[c]) \in Nat
      <3>1. CASE IsLeaf(t, c)
        <4>1. Len(kids2[c]) = 0 /\ Len(kids2[n]) = 0 /\ Len(kids1[c]) = 0
          BY <1>1, <1>11, <2>1, <2>2, <3>1
        <4> QED BY <2>1, <4>1
      <3>2. CASE ~IsLeaf(t, c)
        <4>1. /\ Len(kids2[c]) = MinDegree /\ Len(kids2[n]) = MinDegree
              /\ Len(kids1[c]) = MaxKeys + 1
          BY <1>1, <1>11, <2>1, <2>2, <3>2
        <4> QED BY <1>5, <2>1, <4>1
      <3> QED BY <3>1, <3>2
    <2>5. \A j \in 1..Len(kids1[c]) : Both(kids1[c], kids1[n], j) = x.children[j]
      BY <2>1 DEF Both
    <2> DEFINE la == Len(kids2[c])
               lb == Len(kids2[n])
               lc == Len(kids1[c])
    <2>9. la \in Nat /\ lb \in Nat /\ lc \in Nat /\ la + lb = lc
      BY <2>4
    <2>10. /\ \A j \in 1..la : kids2[c][j] = x.children[j]
           /\ \A j \in 1..lb : kids2[n][j] = x.children[la + j]
           /\ \A j \in 1..lc : Both(kids1[c], kids1[n], j) = x.children[j]
      BY <1>11, <2>2, <2>5
    <2> HIDE DEF la, lb, lc
    <2>11. /\ \A j \in 1..la : j \in 1..lc
           /\ \A j \in 1..lb : la + j \in 1..lc
      BY <2>9
    <2>6. \A j \in 1..Len(kids2[c]) : kids2[c][j] = Both(kids1[c], kids1[n], j)
      BY <2>10, <2>11 DEF la
    <2>7. \A j \in 1..Len(kids2[n]) :
             kids2[n][j] = Both(kids1[c], kids1[n], Len(kids2[c]) + j)
      BY <2>10, <2>11 DEF la, lb
    <2>8. kids1[n] \in Seq(Nat)
      BY <2>1
    <2> QED BY <1>6, <1>11, <2>1, <2>2, <2>3, <2>4, <2>6, <2>7, <2>8 DEF Shifts
  <1>18. PICK by2, at2 :
            /\ Names(D, T \cup {n}, by2, at2, level1)
            /\ Forest(T \cup {n}, r, kids2, by2, at2, level1)
            /\ \A q \in D \ (T \cup {n}) : by2[q] = by1[q]
    <2>1. c \in T \cup {n} /\ n \in T \cup {n} /\ c # n /\ level1[c] = level1[n]
      BY <1>13, <1>16
    <2> HIDE DEF T, D, kids1, kids2
    <2> QED BY <1>16, <1>17, <2>1, ShapeShifted
  <1>19. PagesFit(s, r, {}, level1)
    <2> SUFFICES ASSUME NEW q \in T \cup {n}
                 PROVE  Fits(s, r, q) /\ (s.page[q].kind = "leaf" => level1[q] = 0)
      BY <1>15 DEF PagesFit
    <2>1. q \in T => Fits(u, r, q) /\ (u.page[q].kind = "leaf" => level[q] = 0)
      BY <1>14 DEF PagesFit
    <2>2. CASE q = n
      <3>1. s.page[n].kind = x.kind /\ s.page[n].link = NoPage
        BY <1>3, <1>4 DEF MakePage
      <3>2. x.kind = "leaf" => level[c] = 0
        BY <1>3, <1>13, <1>14 DEF PagesFit
      <3>3. /\ x.kind = "leaf" => s.page[n].children = <<>>
            /\ x.kind = "internal" => Len(s.page[n].children) = Len(s.page[n].keys) + 1
        BY <1>5, <1>7, <1>8, <1>11, SMTT(60)
      <3> QED BY <1>5, <1>8, <1>16, <2>2, <3>1, <3>2, <3>3 DEF Fits
    <2>3. CASE q = c
      <3>1. s.page[c].kind = x.kind /\ s.page[c].link = NoPage
        BY <1>1, <1>3, <1>4
      <3>2. x.kind = "leaf" => level1[c] = 0
        BY <1>3, <1>13, <1>14, <1>16 DEF PagesFit
      <3>3. /\ x.kind = "leaf" => s.page[c].children = <<>>
            /\ x.kind = "internal" => Len(s.page[c].children) = Len(s.page[c].keys) + 1
        BY <1>5, <1>7, <1>8, <1>11
      <3> QED BY <1>5, <1>8, <2>3, <3>1, <3>2, <3>3 DEF Fits
    <2>4. CASE q = p
      <3>1. s.page[p].kind = "internal" /\ s.page[p].link = NoPage
        BY <1>1, <1>3, <1>4
      <3>2. Len(s.page[p].children) = Len(s.page[p].keys) + 1
        BY <1>1, <1>9, <1>10
      <3>3. Len(y.keys) \in Nat /\ (p # r => Len(y.keys) >= MinKeys)
        BY <1>3, <1>6, <1>13, <2>1, <2>4 DEF Fits
      <3>4. Len(s.page[p].keys) <= MaxKeys
        BY <1>5, <1>6, <1>9, <3>3
      <3>5. p # r => Len(s.page[p].keys) >= MinKeys
        BY <1>5, <1>9, <3>3
      <3> QED BY <2>4, <3>1, <3>2, <3>4, <3>5 DEF Fits
    <2>5. CASE q \notin {n, c, p}
      <3>1. q \in T /\ q \in D
        BY <1>14, <2>5 DEF Names
      <3>2. s.page[q] = u.page[q] /\ level1[q] = level[q]
        BY <1>4, <1>16, <2>5, <3>1
      <3> QED BY <2>1, <3>1, <3>2 DEF Fits
    <2> QED BY <2>2, <2>3, <2>4, <2>5
  <1>20. ListHolds(s, {}, by2, level1)
    <2>1. \A q \in OnList(u, {n}) : /\ q \in D \ (T \cup {n})
                                    /\ q \notin {c, n, p}
      BY <1>13 DEF InTree, OnList
    <2>2. SameList(u, {n}, by, level, s, {}, by2, level1)
      BY <1>4, <1>15, <1>16, <1>18, <2>1 DEF SameList, Marks
    <2> QED BY <1>3, <1>4, <1>14, <2>2, ListKept
  <1>21. SoundBy(s, r, {}, by2, at2, level1)
    BY <1>4, <1>15, <1>18, <1>19, <1>20 DEF SoundBy
  <1>22. Sound(s, r, {})
    BY <1>4, <1>21, SoundIs
  <1>23. ASSUME NEW j \in {i, i + 1}
         PROVE  /\ j \in DOMAIN s.page[p].children
                /\ Child(s, p, j) \in InTree(s, {})
                /\ KeyCount(s, Child(s, p, j)) = MinKeys
    <2>1. j \in DOMAIN s.page[p].children
      BY <1>6, <1>10, SMTT(60)
    <2>2. Child(s, p, j) \in {c, n}
      BY <1>10 DEF Child
    <2> QED BY <1>8, <1>13, <1>15, <2>1, <2>2 DEF KeyCount
  <1>24. p \in InTree(s, {}) /\ KeyCount(s, p) = KeyCount(t, p) + 1
    BY <1>9, <1>13, <1>15 DEF KeyCount, y
  <1>26. Tracks(t, s) /\ s.wild = t.wild
    <2>1. /\ s.dirty = (t.dirty \cup {n}) \cup {c, n, p}
          /\ s.header = TRUE /\ s.wild = t.wild
      BY <1>3, <1>4 DEF Marks, MarksHeader
    <2>2. DOMAIN s.page = DOMAIN t.page \cup {n}
      BY <1>3, <1>4
    <2>3. \A q \in DOMAIN s.page \ {c, n, p} : q \in DOMAIN t.page /\ s.page[q] = t.page[q]
      BY <1>3, <1>4, <2>2
    <2> QED BY <2>1, <2>2, <2>3 DEF Tracks
  <1>25. SplitDone(t, r, p, i, s)
    BY <1>4, <1>22, <1>23, <1>24, <1>26 DEF SplitDone
  <1> QED BY <1>25 DEF s

-----------------------------------------------------------------------------
(* Two sequences in a row, parted anew.                                     *)

Parted(S, s, u, v, w) ==
    /\ v \in Seq(S) /\ w \in Seq(S)
    /\ Len(v) + Len(w) = Len(s) + Len(u)
    /\ \A j \in 1..Len(v) : v[j] = Both(s, u, j)
    /\ \A j \in 1..Len(w) : w[j] = Both(s, u, Len(v) + j)

LEMMA GiveLast ==
  ASSUME NEW S, NEW s \in Seq(S), NEW u \in Seq(S), NEW moved \in Seq(S),
         \/ moved = <<>>
         \/ s # <<>> /\ moved = <<Last(s)>>
  PROVE  Parted(S, s, u, SubSeq(s, 1, Len(s) - Len(moved)), moved \o u)
  <1> DEFINE v == SubSeq(s, 1, Len(s) - Len(moved))
             w == moved \o u
  <1>1. CASE moved = <<>>
    <2>1. Len(moved) = 0 /\ v = s /\ w = u
      BY <1>1
    <2> HIDE DEF v, w
    <2>2. /\ Len(s) \in Nat /\ Len(u) \in Nat
          /\ \A j \in 1..Len(u) : Len(s) + j - Len(s) = j /\ ~(Len(s) + j <= Len(s))
      OBVIOUS
    <2>3. \A j \in 1..Len(w) : w[j] = Both(s, u, Len(v) + j)
      BY <2>1, <2>2 DEF Both
    <2>4. \A j \in 1..Len(v) : v[j] = Both(s, u, j)
      BY <2>1 DEF Both
    <2>5. Parted(S, s, u, v, w)
      BY <2>1, <2>3, <2>4 DEF Parted
    <2> QED BY <2>5 DEF v, w
  <1>2. CASE s # <<>> /\ moved = <<Last(s)>>
    <2> DEFINE n == Len(s)
    <2>1. n \in Nat \ {0} /\ Len(moved) = 1 /\ moved[1] = s[n] /\ Len(u) \in Nat
      BY <1>2 DEF Last
    <2>2. v \in Seq(S) /\ Len(v) = n - 1 /\ \A j \in 1..n - 1 : v[j] = s[j]
      <3>1. IsPart(S, s, 1, n - 1, SubSeq(s, 1, n - 1))
        BY <2>1, PartOf
      <3>2. v = SubSeq(s, 1, n - 1)
        BY <2>1
      <3>3. /\ (IF 1 <= n - 1 THEN n - 1 - 1 + 1 ELSE 0) = n - 1
            /\ \A j \in 1..n - 1 : 1 + j - 1 = j
        BY <2>1
      <3> HIDE DEF n, v
      <3> QED BY <3>1, <3>2, <3>3 DEF IsPart
    <2>3. /\ w \in Seq(S) /\ Len(w) = Len(u) + 1 /\ w[1] = s[n]
          /\ \A j \in 1..Len(u) : w[1 + j] = u[j]
      <3> HIDE DEF n
      <3>1. /\ w \in Seq(S) /\ Len(w) = Len(moved) + Len(u)
            /\ \A j \in 1..Len(moved) : w[j] = moved[j]
            /\ \A j \in 1..Len(u) : w[Len(moved) + j] = u[j]
        BY Joined
      <3> HIDE DEF w
      <3> QED BY <2>1, <3>1
    <2> HIDE DEF v, w
    <2>4. \A j \in 1..Len(v) : v[j] = Both(s, u, j)
      <3> HIDE DEF n
      <3>1. \A j \in 1..n - 1 : j <= n
        BY <2>1
      <3> QED BY <2>2, <3>1 DEF Both, n
    <2>5. \A j \in 1..Len(w) : w[j] = Both(s, u, Len(v) + j)
      <3> SUFFICES ASSUME NEW j \in 1..Len(w) PROVE w[j] = Both(s, u, Len(v) + j)
        OBVIOUS
      <3>1. CASE j = 1
        <4>1. Len(v) + j = n
          BY <2>1, <2>2, <3>1
        <4>2. Both(s, u, n) = s[n]
          BY <2>1 DEF Both
        <4> QED BY <2>3, <3>1, <4>1, <4>2
      <3>2. CASE j # 1
        <4> DEFINE m == Len(u)
        <4> HIDE DEF n, m
        <4>1. j \in 1..m + 1 /\ m \in Nat /\ n \in Nat
          BY <2>1, <2>3 DEF m
        <4>2. /\ j - 1 \in 1..m /\ 1 + (j - 1) = j
              /\ n - 1 + j = n + (j - 1) /\ ~(n + (j - 1) <= n)
              /\ n + (j - 1) - n = j - 1
          BY <3>2, <4>1
        <4>3. w[j] = u[j - 1]
          <5>1. w[1 + (j - 1)] = u[j - 1]
            BY <2>3, <4>2 DEF m
          <5> QED BY <4>2, <5>1
        <4>4. Len(v) + j = n + (j - 1)
          BY <2>2, <4>2
        <4>5. Both(s, u, n + (j - 1)) = u[j - 1]
          BY <4>2 DEF Both, n
        <4> QED BY <4>3, <4>4, <4>5
      <3> QED BY <3>1, <3>2
    <2>6. Len(v) + Len(w) = Len(s) + Len(u)
      BY <2>1, <2>2, <2>3
    <2>7. Parted(S, s, u, v, w)
      BY <2>2, <2>3, <2>4, <2>5, <2>6 DEF Parted
    <2> QED BY <2>7 DEF v, w
  <1> QED BY <1>1, <1>2

LEMMA GiveFirst ==
  ASSUME NEW S, NEW s \in Seq(S), NEW u \in Seq(S), NEW moved \in Seq(S),
         \/ moved = <<>>
         \/ u # <<>> /\ moved = <<Head(u)>>
  PROVE  Parted(S, s, u, s \o moved, SubSeq(u, Len(moved) + 1, Len(u)))
  <1> DEFINE v == s \o moved
             w == SubSeq(u, Len(moved) + 1, Len(u))
             n == Len(s)
             m == Len(u)
             o == Len(moved)
  <1>1. /\ n \in Nat /\ m \in Nat /\ o \in Nat /\ o <= m
        /\ \A j \in 1..o : moved[j] = u[j]
    <2>1. CASE moved = <<>>
      BY <2>1
    <2>2. CASE u # <<>> /\ moved = <<Head(u)>>
      BY <2>2
    <2> QED BY <2>1, <2>2
  <1>2. /\ v \in Seq(S) /\ Len(v) = n + o
        /\ \A j \in 1..n : v[j] = s[j]
        /\ \A j \in 1..o : v[n + j] = u[j]
    <2>1. /\ v \in Seq(S) /\ Len(v) = Len(s) + Len(moved)
          /\ \A j \in 1..Len(s) : v[j] = s[j]
          /\ \A j \in 1..Len(moved) : v[Len(s) + j] = moved[j]
      BY Joined
    <2> HIDE DEF v
    <2> QED BY <1>1, <2>1
  <1>3. /\ w \in Seq(S) /\ Len(w) = m - o
        /\ \A j \in 1..m - o : w[j] = u[o + j]
    <2> HIDE DEF n, o
    <2>1. IsPart(S, u, o + 1, m, SubSeq(u, o + 1, m))
      <3>1. o + 1 \in Nat \ {0} /\ m \in Nat /\ m <= Len(u)
        BY <1>1
      <3> QED BY <3>1, PartOf
    <2>2. w = SubSeq(u, o + 1, m)
      BY DEF o
    <2> HIDE DEF w, m
    <2>3. /\ (IF o + 1 <= m THEN m - (o + 1) + 1 ELSE 0) = m - o
          /\ \A j \in 1..m - o : o + 1 + j - 1 = o + j
      BY <1>1
    <2> QED BY <2>1, <2>2, <2>3 DEF IsPart
  <1> HIDE DEF v, w, o
  <1>4. \A j \in 1..Len(v) : v[j] = Both(s, u, j)
    <2> SUFFICES ASSUME NEW j \in 1..n + o PROVE v[j] = Both(s, u, j)
      BY <1>2
    <2>1. CASE j <= n
      BY <1>1, <1>2, <2>1 DEF Both
    <2>2. CASE ~(j <= n)
      <3> HIDE DEF n, m
      <3>1. j - n \in 1..o /\ n + (j - n) = j
        BY <1>1, <2>2
      <3>2. v[n + (j - n)] = u[j - n]
        BY <1>2, <3>1
      <3> QED BY <2>2, <3>1, <3>2 DEF Both, n
    <2> QED BY <2>1, <2>2
  <1>5. \A j \in 1..Len(w) : w[j] = Both(s, u, Len(v) + j)
    <2> SUFFICES ASSUME NEW j \in 1..m - o PROVE w[j] = Both(s, u, n + o + j)
      BY <1>2, <1>3
    <2> HIDE DEF n, m
    <2>1. ~(n + o + j <= n) /\ (n + o + j) - n = o + j
      BY <1>1
    <2> DEFINE x == n + o + j
    <2>4. ~(x <= n) /\ x - n = o + j
      BY <2>1
    <2>5. n = Len(s)
      BY DEF n
    <2> HIDE DEF x
    <2>2. Both(s, u, x) = u[o + j]
      BY <2>4, <2>5 DEF Both
    <2>3. w[j] = u[o + j]
      BY <1>3
    <2> QED BY <2>2, <2>3 DEF x
  <1>6. Len(v) + Len(w) = Len(s) + Len(u)
    BY <1>1, <1>2, <1>3
  <1>7. Parted(S, s, u, v, w)
    BY <1>2, <1>3, <1>4, <1>5, <1>6 DEF Parted
  <1> QED BY <1>7 DEF v, w, o

LEMMA GiveAll ==
  ASSUME NEW S, NEW s \in Seq(S), NEW u \in Seq(S)
  PROVE  Parted(S, s, u, s \o u, <<>>)
  <1> DEFINE v == s \o u
             n == Len(s)
             m == Len(u)
  <1>1. /\ v \in Seq(S) /\ Len(v) = n + m /\ n \in Nat /\ m \in Nat
        /\ \A j \in 1..n : v[j] = s[j]
        /\ \A j \in 1..m : v[n + j] = u[j]
    BY Joined
  <1> HIDE DEF v
  <1>2. \A j \in 1..Len(v) : v[j] = Both(s, u, j)
    <2> SUFFICES ASSUME NEW j \in 1..n + m PROVE v[j] = Both(s, u, j)
      BY <1>1
    <2>1. CASE j <= n
      BY <1>1, <2>1 DEF Both
    <2>2. CASE ~(j <= n)
      <3> HIDE DEF n, m
      <3>1. j - n \in 1..m /\ n + (j - n) = j
        BY <1>1, <2>2
      <3>2. v[n + (j - n)] = u[j - n]
        BY <1>1, <3>1
      <3> QED BY <2>2, <3>1, <3>2 DEF Both, n
    <2> QED BY <2>1, <2>2
  <1>3. Len(v) + Len(<<>>) = Len(s) + Len(u)
    BY <1>1
  <1>4. Parted(S, s, u, v, <<>>)
    BY <1>1, <1>2, <1>3 DEF Parted
  <1> QED BY <1>4 DEF v

-----------------------------------------------------------------------------
(* Changes that leave every page of the tree in the tree.                  *)

Kept(t, r, s) ==
    s \in Cache /\ Sound(s, r, {}) /\ InTree(s, {}) = InTree(t, {})

\* The pages and their kinds are as they were.
LEMMA SameKinds ==
  ASSUME NEW t, NEW s, NEW hand, DOMAIN s.page = DOMAIN t.page,
         \A q \in DOMAIN t.page \ hand : s.page[q].kind = t.page[q].kind
  PROVE  InTree(s, hand) = InTree(t, hand) /\ OnList(s, hand) = OnList(t, hand)
  <1> DEFINE D == DOMAIN t.page \ hand
  <1>1. /\ \A q : q \in InTree(t, hand) <=> q \in D /\ t.page[q].kind # "free"
        /\ \A q : q \in InTree(s, hand) <=> q \in D /\ s.page[q].kind # "free"
    BY DEF InTree
  <1>2. /\ \A q : q \in OnList(t, hand) <=> q \in D /\ t.page[q].kind = "free"
        /\ \A q : q \in OnList(s, hand) <=> q \in D /\ s.page[q].kind = "free"
    BY DEF OnList
  <1>3. \A q \in D : s.page[q].kind = t.page[q].kind
    OBVIOUS
  <1> HIDE DEF D
  <1>4. InTree(s, hand) = InTree(t, hand)
    BY <1>1, <1>3
  <1>5. OnList(s, hand) = OnList(t, hand)
    BY <1>2, <1>3
  <1> QED BY <1>4, <1>5

\* Other keys in a page of the tree.
Rekeys(t, r, p, keys, s) ==
    /\ s \in Cache /\ s.free = t.free
    /\ DOMAIN s.page = DOMAIN t.page
    /\ s.page[p].keys = keys
    /\ s.page[p].children = t.page[p].children
    /\ s.page[p].kind = t.page[p].kind
    /\ s.page[p].link = t.page[p].link
    /\ \A q \in DOMAIN t.page \ {p} : s.page[q] = t.page[q]
    /\ Len(keys) <= MaxKeys
    /\ p # r => Len(keys) >= MinKeys
    /\ t.page[p].kind = "internal" => Len(keys) = Len(t.page[p].keys)

LEMMA RekeyHolds ==
  ASSUME NEW t \in Cache, NEW r, Sound(t, r, {}), NEW p \in InTree(t, {}),
         NEW keys, NEW s, Rekeys(t, r, p, keys, s)
  PROVE  Kept(t, r, s)
  <1>1. PICK by, at, level : SoundBy(t, r, {}, by, at, level)
    BY SoundIs
  <1>2. p \in DOMAIN t.page
    BY <1>1, PageFits
  <1>3. /\ s \in Cache /\ s.free = t.free /\ DOMAIN s.page = DOMAIN t.page
        /\ \A q \in DOMAIN t.page \ {p} : s.page[q] = t.page[q]
    BY DEF Rekeys
  <1>4. InTree(s, {}) = InTree(t, {}) /\ OnList(s, {}) = OnList(t, {})
    <2>1. \A q \in DOMAIN t.page \ {} : s.page[q].kind = t.page[q].kind
      BY DEF Rekeys
    <2> QED BY <1>3, <2>1, SameKinds
  <1>5. Kids(s) = Kids(t)
    BY DEF Rekeys, Kids
  <1>6. PagesFit(s, r, {}, level)
    <2> SUFFICES ASSUME NEW q \in InTree(t, {})
                 PROVE  Fits(s, r, q) /\ (s.page[q].kind = "leaf" => level[q] = 0)
      BY <1>4 DEF PagesFit
    <2>1. Fits(t, r, q) /\ (t.page[q].kind = "leaf" => level[q] = 0) /\ q \in DOMAIN t.page
      BY <1>1, PageFits
    <2>2. CASE q # p
      BY <1>3, <2>1, <2>2 DEF Fits
    <2>3. CASE q = p
      BY <2>1, <2>3 DEF Fits, Rekeys
    <2> QED BY <2>2, <2>3
  <1>7. ListHolds(s, {}, by, level)
    <2>1. \A q \in OnList(t, {}) : s.page[q] = t.page[q]
      BY <1>3 DEF OnList, InTree
    <2>2. SameList(t, {}, by, level, s, {}, by, level)
      BY <1>3, <1>4, <2>1 DEF SameList
    <2>3. ListHolds(t, {}, by, level)
      BY <1>1 DEF SoundBy
    <2> QED BY <1>3, <2>2, <2>3, ListKept
  <1>8. SoundBy(s, r, {}, by, at, level)
    BY <1>1, <1>3, <1>4, <1>5, <1>6, <1>7 DEF SoundBy
  <1>9. Sound(s, r, {})
    BY <1>3, <1>8, SoundIs
  <1> QED BY <1>3, <1>4, <1>9 DEF Kept

\* A leaf is at the bottom, and whoever is at the bottom is a leaf.
LEMMA LeavesAtBottom ==
  ASSUME NEW t \in Cache, NEW r, NEW hand, NEW by, NEW at, NEW level,
         SoundBy(t, r, hand, by, at, level), NEW p \in InTree(t, hand)
  PROVE  t.page[p].kind = "leaf" <=> level[p] = 0
  <1>1. /\ p \in DOMAIN t.page /\ t.page[p].kind \in {"leaf", "internal"}
        /\ Fits(t, r, p) /\ (t.page[p].kind = "leaf" => level[p] = 0)
    BY PageFits
  <1>2. ASSUME t.page[p].kind = "internal", level[p] = 0 PROVE FALSE
    <2>1. t.page[p].keys \in Seq(Int) /\ t.page[p].children \in Seq(Nat)
      BY <1>1, PagesOf
    <2>2. Len(t.page[p].children) = Len(t.page[p].keys) + 1
      BY <1>1, <1>2 DEF Fits
    <2>3. 1 \in DOMAIN t.page[p].children
      BY <2>1, <2>2
    <2>4. Child(t, p, 1) \in InTree(t, hand) /\ level[Child(t, p, 1)] + 1 = level[p]
      BY <2>3, ChildFits
    <2>5. level[Child(t, p, 1)] \in Nat
      BY <2>4, PageFits
    <2> QED BY <1>2, <2>4, <2>5
  <1> QED BY <1>1, <1>2

\* Two pages of a level part their children anew, and a third, above them,
\* gets other keys.
Shiftable(t, r, level, p, a, ka, ca, b, kb, cb, kp, s) ==
    /\ p \in InTree(t, {}) /\ a \in InTree(t, {}) /\ b \in InTree(t, {})
    /\ p # a /\ p # b /\ a # b /\ level[a] = level[b]
    /\ Rewrites(t, a, ka, ca, b, kb, cb, p, kp, t.page[p].children, s)
    /\ s.free = t.free
    /\ Parted(Nat, t.page[a].children, t.page[b].children, ca, cb)
    /\ ka \in Seq(Int) /\ Len(ka) \in MinKeys..MaxKeys
    /\ kb \in Seq(Int) /\ Len(kb) \in MinKeys..MaxKeys
    /\ Len(kp) = Len(t.page[p].keys)
    /\ t.page[a].kind = "leaf" => ca = <<>> /\ cb = <<>>
    /\ t.page[a].kind = "internal" => Len(ca) = Len(ka) + 1 /\ Len(cb) = Len(kb) + 1

LEMMA ShiftHolds ==
  ASSUME NEW t \in Cache, NEW r, NEW by, NEW at, NEW level,
         SoundBy(t, r, {}, by, at, level),
         NEW p, NEW a, NEW ka, NEW ca, NEW b, NEW kb, NEW cb, NEW kp, NEW s,
         Shiftable(t, r, level, p, a, ka, ca, b, kb, cb, kp, s)
  PROVE  Kept(t, r, s)
  <1> DEFINE T == InTree(t, {})
             D == DOMAIN t.page
             kids == Kids(t)
             kids1 == Kids(s)
  <1>1. /\ p \in T /\ a \in T /\ b \in T /\ p # a /\ p # b /\ a # b /\ level[a] = level[b]
        /\ p \in D /\ a \in D /\ b \in D
    BY DEF Shiftable, InTree
  <1>2. /\ s \in Cache /\ DOMAIN s.page = D /\ s.free = t.free
        /\ s.page[a].keys = ka /\ s.page[a].children = ca
        /\ s.page[b].keys = kb /\ s.page[b].children = cb
        /\ s.page[p].keys = kp /\ s.page[p].children = t.page[p].children
        /\ \A q \in {a, b, p} : /\ s.page[q].kind = t.page[q].kind
                                /\ s.page[q].link = t.page[q].link
        /\ \A q \in D \ {a, b, p} : s.page[q] = t.page[q]
    BY DEF Shiftable, Rewrites
  <1>3. InTree(s, {}) = T /\ OnList(s, {}) = OnList(t, {})
    <2>1. \A q \in D \ {} : s.page[q].kind = t.page[q].kind
      <3> SUFFICES ASSUME NEW q \in D PROVE s.page[q].kind = t.page[q].kind
        OBVIOUS
      <3>1. CASE q \in {a, b, p}
        BY <1>2, <3>1
      <3>2. CASE q \notin {a, b, p}
        BY <1>2, <3>2
      <3> QED BY <3>1, <3>2
    <2> QED BY <1>2, <2>1, SameKinds
  <1>4. t.page[a].kind = "leaf" <=> t.page[b].kind = "leaf"
    BY <1>1, LeavesAtBottom
  <1>5. \A q \in T : q \in D /\ kids[q] = t.page[q].children /\ kids1[q] = s.page[q].children
    BY <1>2 DEF InTree, Kids
  <1> HIDE DEF kids, kids1
  <1>6. Shifts(T, kids, a, b, kids1)
    <2>1. kids[a] \in Seq(Nat) /\ kids[b] \in Seq(Nat)
      BY <1>1, <1>5, PagesOf
    <2>2. kids1[a] = ca /\ kids1[b] = cb
          /\ kids[a] = t.page[a].children /\ kids[b] = t.page[b].children
      BY <1>1, <1>2, <1>5
    <2>3. Parted(Nat, kids[a], kids[b], kids1[a], kids1[b])
      BY <2>2 DEF Shiftable
    <2>4. \A q \in T \ {a, b} : kids1[q] = kids[q]
      <3> SUFFICES ASSUME NEW q \in T, q # a, q # b PROVE kids1[q] = kids[q]
        OBVIOUS
      <3>1. q \in D
        BY <1>5
      <3>2. s.page[q].children = t.page[q].children
        BY <1>2, <3>1
      <3> QED BY <1>5, <3>2
    <2> QED BY <2>1, <2>3, <2>4 DEF Parted, Shifts
  <1>7. PICK by1, at1 : /\ Names(D, T, by1, at1, level)
                        /\ Forest(T, r, kids1, by1, at1, level)
                        /\ \A q \in D \ T : by1[q] = by[q]
    <2>1. Names(D, T, by, at, level) /\ Forest(T, r, kids, by, at, level)
      BY DEF SoundBy, kids
    <2> HIDE DEF D, T
    <2> QED BY <1>1, <1>6, <2>1, ShapeShifted
  <1>8. PagesFit(s, r, {}, level)
    <2> SUFFICES ASSUME NEW q \in T
                 PROVE  Fits(s, r, q) /\ (s.page[q].kind = "leaf" => level[q] = 0)
      BY <1>3 DEF PagesFit
    <2>1. /\ Fits(t, r, q) /\ (t.page[q].kind = "leaf" => level[q] = 0) /\ q \in D
          /\ t.page[q].kind \in {"leaf", "internal"}
      BY PageFits
    <2>2. CASE q \notin {a, b, p}
      <3>1. s.page[q] = t.page[q]
        BY <1>2, <2>1, <2>2
      <3> QED BY <2>1, <3>1 DEF Fits
    <2>3. CASE q = p
      <3>1. Len(kp) = Len(t.page[p].keys)
        BY DEF Shiftable
      <3> QED BY <1>2, <2>1, <2>3, <3>1 DEF Fits
    <2>4. CASE q = a
      <3>1. /\ Len(ka) \in MinKeys..MaxKeys
            /\ t.page[a].kind = "leaf" => ca = <<>>
            /\ t.page[a].kind = "internal" => Len(ca) = Len(ka) + 1
        BY DEF Shiftable
      <3>2. Len(ka) <= MaxKeys /\ Len(ka) >= MinKeys
        BY <3>1
      <3> QED BY <1>2, <2>1, <2>4, <3>1, <3>2 DEF Fits
    <2>5. CASE q = b
      <3>1. /\ Len(kb) \in MinKeys..MaxKeys
            /\ t.page[b].kind = "leaf" => cb = <<>>
            /\ t.page[b].kind = "internal" => Len(cb) = Len(kb) + 1
        <4>1. t.page[a].kind \in {"leaf", "internal"}
          BY <1>1, PagesOf DEF InTree
        <4> QED BY <1>4, <4>1 DEF Shiftable
      <3>2. Len(kb) <= MaxKeys /\ Len(kb) >= MinKeys
        BY <3>1
      <3> QED BY <1>2, <2>1, <2>5, <3>1, <3>2 DEF Fits
    <2> QED BY <2>2, <2>3, <2>4, <2>5
  <1>9. ListHolds(s, {}, by1, level)
    <2>1. \A q \in OnList(t, {}) : /\ q \in D \ T /\ q \notin {a, b, p}
      BY <1>1 DEF OnList, InTree
    <2>2. SameList(t, {}, by, level, s, {}, by1, level)
      BY <1>2, <1>3, <1>7, <2>1 DEF SameList
    <2>3. ListHolds(t, {}, by, level)
      BY DEF SoundBy
    <2> QED BY <1>2, <2>2, <2>3, ListKept
  <1>10. SoundBy(s, r, {}, by1, at1, level)
    BY <1>2, <1>3, <1>7, <1>8, <1>9 DEF SoundBy, kids1
  <1>11. Sound(s, r, {})
    BY <1>2, <1>10, SoundIs
  <1> QED BY <1>2, <1>3, <1>11 DEF Kept

-----------------------------------------------------------------------------
(* Borrowing.                                                              *)

\* Three pages of a cache rewritten, and marked.
Repage(t, a, ka, ca, b, kb, cb, c, kc, cc) ==
    [t.page EXCEPT ![a] = [@ EXCEPT !.keys = ka, !.children = ca],
                   ![b] = [@ EXCEPT !.keys = kb, !.children = cb],
                   ![c] = [@ EXCEPT !.keys = kc, !.children = cc]]

LEMMA Repaged ==
  ASSUME NEW t, NEW a, NEW b, NEW c, NEW ka, NEW kb, NEW kc, NEW ca, NEW cb, NEW cc,
         Rewritable(t, a, ka, ca, b, kb, cb, c, kc, cc),
         NEW s, s = MarkDirty([t EXCEPT !.page = Repage(t, a, ka, ca, b, kb, cb, c, kc, cc)],
                              {a, b, c})
  PROVE  /\ Rewrites(t, a, ka, ca, b, kb, cb, c, kc, cc, s)
         /\ Marks(t, {a, b, c}, s)
  <1> USE DEF Rewritable
  <1> DEFINE pa == [t.page[a] EXCEPT !.keys = ka, !.children = ca]
             pb == [t.page[b] EXCEPT !.keys = kb, !.children = cb]
             pc == [t.page[c] EXCEPT !.keys = kc, !.children = cc]
             page1 == Repage(t, a, ka, ca, b, kb, cb, c, kc, cc)
             page2 == [t.page EXCEPT ![a] = pa, ![b] = pb, ![c] = pc]
             marked == t.dirty \cup {a, b, c}
  <1>1. /\ pa \in Page /\ pa.keys = ka /\ pa.children = ca
        /\ pa.kind = t.page[a].kind /\ pa.link = t.page[a].link
    BY PagesOf DEF Page
  <1>2. /\ pb \in Page /\ pb.keys = kb /\ pb.children = cb
        /\ pb.kind = t.page[b].kind /\ pb.link = t.page[b].link
    BY PagesOf, ZenonT(60) DEF Page
  <1>3. /\ pc \in Page /\ pc.keys = kc /\ pc.children = cc
        /\ pc.kind = t.page[c].kind /\ pc.link = t.page[c].link
    BY PagesOf DEF Page
  <1>4. page1 = page2
    BY PagesOf DEF Repage
  <1> HIDE DEF pa, pb, pc, page1
  <1>11. t.page \in Seq(Page) /\ a \in DOMAIN t.page /\ b \in DOMAIN t.page
         /\ c \in DOMAIN t.page /\ a # b /\ b # c /\ a # c
    BY PagesOf
  <1>5. page2 \in Seq(Page) /\ DOMAIN page2 = DOMAIN t.page
        /\ page2[a] = pa /\ page2[b] = pb /\ page2[c] = pc
        /\ \A q \in DOMAIN t.page \ {a, b, c} : page2[q] = t.page[q]
    BY <1>1, <1>2, <1>3, <1>11
  <1> HIDE DEF page2
  <1>6. marked \in SUBSET Nat
    BY PagesOf DEF Cache
  <1>7. s = [t EXCEPT !.page = page2, !.dirty = marked]
    BY <1>4 DEF MarkDirty, page1, Cache
  <1> HIDE DEF marked
  <1>8. s \in Cache /\ s.page = page2 /\ s.dirty = marked
        /\ s.free = t.free /\ s.wild = t.wild /\ s.header = t.header
    BY <1>5, <1>6, <1>7 DEF Cache
  <1>9. Marks(t, {a, b, c}, s)
    BY <1>8 DEF Marks, marked
  <1>10. Rewrites(t, a, ka, ca, b, kb, cb, c, kc, cc, s)
    BY <1>1, <1>2, <1>3, <1>5, <1>8, ZenonT(60) DEF Rewrites
  <1> QED BY <1>9, <1>10

LEMMA BorrowingPrev ==
  ASSUME NEW t \in Cache, NEW p \in DOMAIN t.page, NEW i \in Nat,
         i - 1 \in DOMAIN t.page[p].keys,
         NEW c \in DOMAIN t.page, c = Child(t, p, i),
         NEW l \in DOMAIN t.page, l = Child(t, p, i - 1),
         p # c, p # l, c # l,
         t.page[l].keys # <<>>, IsLeaf(t, l) \/ t.page[l].children # <<>>,
         NEW moved, moved = IF IsLeaf(t, l) THEN <<>> ELSE <<Last(t.page[l].children)>>
  PROVE  LET x == t.page[l]
             y == t.page[c]
             s == BorrowFromPrev(t, p, i)
         IN  /\ Rewrites(t, c, <<t.page[p].keys[i - 1]>> \o y.keys, moved \o y.children,
                         p, [t.page[p].keys EXCEPT ![i - 1] = Last(x.keys)],
                         t.page[p].children,
                         l, Front(x.keys), SubSeq(x.children, 1, Len(x.children) - Len(moved)), s)
             /\ Marks(t, {c, p, l}, s)
  <1> DEFINE x == t.page[l]
             y == t.page[c]
             z == t.page[p]
             kc == <<z.keys[i - 1]>> \o y.keys
             cc == moved \o y.children
             kp == [z.keys EXCEPT ![i - 1] = Last(x.keys)]
             kl == Front(x.keys)
             cl == SubSeq(x.children, 1, Len(x.children) - Len(moved))
             s == BorrowFromPrev(t, p, i)
             page1 == Repage(t, c, kc, cc, p, kp, z.children, l, kl, cl)
  <1>1. /\ x \in Page /\ y \in Page /\ z \in Page
        /\ x.keys \in Seq(Int) /\ x.children \in Seq(Nat)
        /\ y.keys \in Seq(Int) /\ y.children \in Seq(Nat)
        /\ z.keys \in Seq(Int) /\ z.children \in Seq(Nat)
    BY PagesOf
  <1>2. s = MarkDirty([t EXCEPT !.page = page1], {c, p, l})
    <2> DEFINE v == [t EXCEPT
                       !.page[c].keys = <<z.keys[i - 1]>> \o @,
                       !.page[c].children = moved \o @,
                       !.page[p].keys[i - 1] = Last(x.keys),
                       !.page[l].keys = Front(@),
                       !.page[l].children = SubSeq(@, 1, Len(@) - Len(moved))]
               f1 == [t.page EXCEPT ![c].keys = <<z.keys[i - 1]>> \o @,
                                    ![c].children = moved \o @]
               f2 == [f1 EXCEPT ![p].keys[i - 1] = Last(x.keys)]
               f3 == [f2 EXCEPT ![l].keys = Front(@),
                                ![l].children = SubSeq(@, 1, Len(@) - Len(moved))]
               pc == [y EXCEPT !.keys = kc, !.children = cc]
               pp == [z EXCEPT !.keys = kp, !.children = z.children]
               pl == [x EXCEPT !.keys = kl, !.children = cl]
    <2>1. s = MarkDirty([t EXCEPT !.page = f3], {p, c, l})
      <3>1. s = MarkDirty(v, {p, c, l})
        BY DEF BorrowFromPrev
      <3> DEFINE v1 == [t EXCEPT !.page[c].keys = <<z.keys[i - 1]>> \o @,
                                   !.page[c].children = moved \o @]
                 v2 == [v1 EXCEPT !.page[p].keys[i - 1] = Last(x.keys)]
                 v3 == [v2 EXCEPT !.page[l].keys = Front(@),
                                    !.page[l].children = SubSeq(@, 1, Len(@) - Len(moved))]
      <3>2. v = v3
        BY ZenonT(60)
      <3>3. v1 = [t EXCEPT !.page = f1]
        BY DEF Cache
      <3>4. v2 = [t EXCEPT !.page = f2]
        <4> HIDE DEF v1, f1, x, z
        <4>1. v2 = [v1 EXCEPT !.page = [@ EXCEPT ![p].keys[i - 1] = Last(x.keys)]]
          BY ZenonT(60)
        <4> QED BY <3>3, <4>1 DEF Cache
      <3>5. v3 = [t EXCEPT !.page = f3]
        <4> DEFINE v4 == [v2 EXCEPT !.page[l].keys = Front(@)]
                   f4 == [f2 EXCEPT ![l].keys = Front(@)]
        <4> HIDE DEF v2, f2, x, z
        <4>1. v3 = [v4 EXCEPT !.page[l].children = SubSeq(@, 1, Len(@) - Len(moved))]
          BY ZenonT(60)
        <4>2. f3 = [f4 EXCEPT ![l].children = SubSeq(@, 1, Len(@) - Len(moved))]
          OBVIOUS
        <4>3. v4 = [t EXCEPT !.page = f4]
          BY <3>4 DEF Cache
        <4> HIDE DEF v4, f4, v3, f3
        <4> QED BY <4>1, <4>2, <4>3 DEF Cache
      <3> QED BY <3>1, <3>2, <3>5, ZenonT(60)
    <2>2. f1 = [t.page EXCEPT ![c] = pc]
      BY <1>1, PagesOf DEF Page
    <2>3. f2 = [f1 EXCEPT ![p] = pp]
      <3>1. f1[p] = z /\ p \in DOMAIN f1
        OBVIOUS
      <3> HIDE DEF f1, z
      <3>2. [z EXCEPT !.keys[i - 1] = Last(x.keys)] = pp
        BY <1>1 DEF Page
      <3> HIDE DEF x, pp
      <3> QED BY <3>1, <3>2
    <2>4. f3 = [f2 EXCEPT ![l] = pl]
      <3>1. f2[l] = x /\ l \in DOMAIN f2
        BY ZenonT(60)
      <3> HIDE DEF f2, x
      <3>2. [x EXCEPT !.keys = Front(@), !.children = SubSeq(@, 1, Len(@) - Len(moved))] = pl
        BY <1>1 DEF Page
      <3> QED BY <3>1, <3>2, ZenonT(60)
    <2>5. page1 = [t.page EXCEPT ![c] = pc, ![p] = pp, ![l] = pl]
      BY PagesOf DEF Repage
    <2> HIDE DEF f1, f2, f3, pc, pp, pl, page1, s
    <2>6. f3 = page1
      BY <2>2, <2>3, <2>4, <2>5
    <2>7. {p, c, l} = {c, p, l}
      OBVIOUS
    <2> QED BY <2>1, <2>6, <2>7
  <1>3. kc \in Seq(Int) /\ kp \in Seq(Int) /\ kl \in Seq(Int)
    <2>1. z.keys[i - 1] \in Int
      BY <1>1
    <2>2. kc \in Seq(Int)
      BY <1>1, <2>1
    <2>3. Last(x.keys) \in Int
      BY <1>1 DEF Last
    <2>4. kp \in Seq(Int)
      <3> DEFINE j == i - 1
                 e == Last(x.keys)
      <3>1. j \in DOMAIN z.keys /\ e \in Int
        BY <2>3
      <3> HIDE DEF j, e
      <3>2. [z.keys EXCEPT ![j] = e] \in Seq(Int)
        BY <1>1, <3>1, SMTT(60)
      <3> QED BY <3>2 DEF j, e
    <2>5. kl \in Seq(Int)
      BY <1>1 DEF Front
    <2> QED BY <2>2, <2>4, <2>5
  <1>4. moved \in Seq(Nat) /\ cc \in Seq(Nat) /\ cl \in Seq(Nat)
    <2>1. \/ moved = <<>>
          \/ x.children # <<>> /\ moved = <<Last(x.children)>>
      OBVIOUS
    <2>2. moved \in Seq(Nat)
      BY <1>1, <2>1, SMTT(60) DEF Last
    <2> HIDE DEF x, y
    <2>3. Parted(Nat, x.children, y.children, cl, cc)
      BY <1>1, <2>1, <2>2, GiveLast
    <2> QED BY <2>2, <2>3 DEF Parted
  <1>5. Rewritable(t, c, kc, cc, p, kp, z.children, l, kl, cl)
    BY <1>1, <1>3, <1>4 DEF Rewritable
  <1> HIDE DEF x, y, z, kc, cc, kp, kl, cl, s
  <1>6. /\ Rewrites(t, c, kc, cc, p, kp, z.children, l, kl, cl, s)
        /\ Marks(t, {c, p, l}, s)
    BY <1>2, <1>5, Repaged
  <1> QED BY <1>6 DEF x, y, z, kc, cc, kp, kl, cl, s

LEMMA BorrowingNext ==
  ASSUME NEW t \in Cache, NEW p \in DOMAIN t.page, NEW i \in Nat,
         i \in DOMAIN t.page[p].keys,
         NEW c \in DOMAIN t.page, c = Child(t, p, i),
         NEW n \in DOMAIN t.page, n = Child(t, p, i + 1),
         p # c, p # n, c # n,
         t.page[n].keys # <<>>, IsLeaf(t, n) \/ t.page[n].children # <<>>,
         NEW moved, moved = IF IsLeaf(t, n) THEN <<>> ELSE <<Head(t.page[n].children)>>
  PROVE  LET x == t.page[n]
             y == t.page[c]
             s == BorrowFromNext(t, p, i)
         IN  /\ Rewrites(t, c, Append(y.keys, t.page[p].keys[i]), y.children \o moved,
                         p, [t.page[p].keys EXCEPT ![i] = Head(x.keys)],
                         t.page[p].children,
                         n, Tail(x.keys), SubSeq(x.children, Len(moved) + 1, Len(x.children)), s)
             /\ Marks(t, {c, p, n}, s)
  <1> DEFINE x == t.page[n]
             y == t.page[c]
             z == t.page[p]
             kc == Append(y.keys, z.keys[i])
             cc == y.children \o moved
             kp == [z.keys EXCEPT ![i] = Head(x.keys)]
             kn == Tail(x.keys)
             cn == SubSeq(x.children, Len(moved) + 1, Len(x.children))
             s == BorrowFromNext(t, p, i)
             page1 == Repage(t, c, kc, cc, p, kp, z.children, n, kn, cn)
  <1>1. /\ x \in Page /\ y \in Page /\ z \in Page
        /\ x.keys \in Seq(Int) /\ x.children \in Seq(Nat)
        /\ y.keys \in Seq(Int) /\ y.children \in Seq(Nat)
        /\ z.keys \in Seq(Int) /\ z.children \in Seq(Nat)
    BY PagesOf
  <1>2. s = MarkDirty([t EXCEPT !.page = page1], {c, p, n})
    <2> DEFINE v == [t EXCEPT
                       !.page[c].keys = Append(@, z.keys[i]),
                       !.page[c].children = @ \o moved,
                       !.page[p].keys[i] = Head(x.keys),
                       !.page[n].keys = Tail(@),
                       !.page[n].children = SubSeq(@, Len(moved) + 1, Len(@))]
               f1 == [t.page EXCEPT ![c].keys = Append(@, z.keys[i]),
                                    ![c].children = @ \o moved]
               f2 == [f1 EXCEPT ![p].keys[i] = Head(x.keys)]
               f3 == [f2 EXCEPT ![n].keys = Tail(@),
                                ![n].children = SubSeq(@, Len(moved) + 1, Len(@))]
               pc == [y EXCEPT !.keys = kc, !.children = cc]
               pp == [z EXCEPT !.keys = kp, !.children = z.children]
               pn == [x EXCEPT !.keys = kn, !.children = cn]
    <2>1. s = MarkDirty([t EXCEPT !.page = f3], {p, c, n})
      <3>1. s = MarkDirty(v, {p, c, n})
        BY DEF BorrowFromNext
      <3> DEFINE v1 == [t EXCEPT !.page[c].keys = Append(@, z.keys[i]),
                                   !.page[c].children = @ \o moved]
                 v2 == [v1 EXCEPT !.page[p].keys[i] = Head(x.keys)]
                 v3 == [v2 EXCEPT !.page[n].keys = Tail(@),
                                    !.page[n].children = SubSeq(@, Len(moved) + 1, Len(@))]
      <3>2. v = v3
        BY ZenonT(60)
      <3>3. v1 = [t EXCEPT !.page = f1]
        BY DEF Cache
      <3>4. v2 = [t EXCEPT !.page = f2]
        <4> HIDE DEF v1, f1, x, z
        <4>1. v2 = [v1 EXCEPT !.page = [@ EXCEPT ![p].keys[i] = Head(x.keys)]]
          OBVIOUS
        <4> QED BY <3>3, <4>1 DEF Cache
      <3>5. v3 = [t EXCEPT !.page = f3]
        <4> DEFINE v4 == [v2 EXCEPT !.page[n].keys = Tail(@)]
                   f4 == [f2 EXCEPT ![n].keys = Tail(@)]
        <4> HIDE DEF v2, f2, x, z
        <4>1. v3 = [v4 EXCEPT !.page[n].children = SubSeq(@, Len(moved) + 1, Len(@))]
          BY ZenonT(60)
        <4>2. f3 = [f4 EXCEPT ![n].children = SubSeq(@, Len(moved) + 1, Len(@))]
          OBVIOUS
        <4>3. v4 = [t EXCEPT !.page = f4]
          BY <3>4 DEF Cache
        <4> HIDE DEF v4, f4, v3, f3
        <4> QED BY <4>1, <4>2, <4>3 DEF Cache
      <3> QED BY <3>1, <3>2, <3>5, ZenonT(60)
    <2>2. f1 = [t.page EXCEPT ![c] = pc]
      BY <1>1, PagesOf DEF Page
    <2>3. f2 = [f1 EXCEPT ![p] = pp]
      <3>1. f1[p] = z /\ p \in DOMAIN f1
        OBVIOUS
      <3> HIDE DEF f1, z
      <3>2. [z EXCEPT !.keys[i] = Head(x.keys)] = pp
        BY <1>1 DEF Page
      <3> HIDE DEF x, pp
      <3> QED BY <3>1, <3>2
    <2>4. f3 = [f2 EXCEPT ![n] = pn]
      <3>1. f2[n] = x /\ n \in DOMAIN f2
        OBVIOUS
      <3> HIDE DEF f2, x
      <3>2. [x EXCEPT !.keys = Tail(@), !.children = SubSeq(@, Len(moved) + 1, Len(@))] = pn
        BY <1>1 DEF Page
      <3> QED BY <3>1, <3>2
    <2>5. page1 = [t.page EXCEPT ![c] = pc, ![p] = pp, ![n] = pn]
      BY PagesOf DEF Repage
    <2> HIDE DEF f1, f2, f3, pc, pp, pn, page1, s
    <2>6. f3 = page1
      BY <2>2, <2>3, <2>4, <2>5
    <2>7. {p, c, n} = {c, p, n}
      OBVIOUS
    <2> QED BY <2>1, <2>6, <2>7, ZenonT(60)
  <1>3. kc \in Seq(Int) /\ kp \in Seq(Int) /\ kn \in Seq(Int)
    <2>1. z.keys[i] \in Int
      BY <1>1
    <2>2. kc \in Seq(Int)
      BY <1>1, <2>1
    <2>3. Head(x.keys) \in Int /\ kn \in Seq(Int)
      BY <1>1
    <2>4. kp \in Seq(Int)
      BY <1>1, <2>3
    <2> QED BY <2>2, <2>3, <2>4
  <1>4. moved \in Seq(Nat) /\ cc \in Seq(Nat) /\ cn \in Seq(Nat)
    <2>1. \/ moved = <<>>
          \/ x.children # <<>> /\ moved = <<Head(x.children)>>
      OBVIOUS
    <2>2. moved \in Seq(Nat)
      BY <1>1, <2>1, SMTT(60)
    <2> HIDE DEF x, y
    <2>3. Parted(Nat, y.children, x.children, cc, cn)
      BY <1>1, <2>1, <2>2, GiveFirst
    <2> QED BY <2>2, <2>3 DEF Parted
  <1>5. Rewritable(t, c, kc, cc, p, kp, z.children, n, kn, cn)
    BY <1>1, <1>3, <1>4 DEF Rewritable
  <1> HIDE DEF x, y, z, kc, cc, kp, kn, cn, s
  <1>6. /\ Rewrites(t, c, kc, cc, p, kp, z.children, n, kn, cn, s)
        /\ Marks(t, {c, p, n}, s)
    BY <1>2, <1>5, Repaged
  <1> QED BY <1>6 DEF x, y, z, kc, cc, kp, kn, cn, s

\* Two children of a page.
ArePair(t, r, level, p, a, b) ==
    /\ a \in InTree(t, {}) /\ b \in InTree(t, {}) /\ p \in InTree(t, {})
    /\ a \in DOMAIN t.page /\ b \in DOMAIN t.page /\ p \in DOMAIN t.page
    /\ a # b /\ p # a /\ p # b /\ a # r /\ b # r
    /\ level[a] = level[b] /\ t.page[a].kind = t.page[b].kind
    /\ t.page[a].kind \in {"leaf", "internal"}
    /\ Len(t.page[a].keys) \in MinKeys..MaxKeys
    /\ Len(t.page[b].keys) \in MinKeys..MaxKeys
    /\ t.page[a].kind = "leaf" => t.page[a].children = <<>> /\ t.page[b].children = <<>>
    /\ t.page[a].kind = "internal" =>
          /\ Len(t.page[a].children) = Len(t.page[a].keys) + 1
          /\ Len(t.page[b].children) = Len(t.page[b].keys) + 1

LEMMA Siblings ==
  ASSUME NEW t \in Cache, NEW r, NEW by, NEW at, NEW level,
         SoundBy(t, r, {}, by, at, level), NEW p \in InTree(t, {}),
         NEW i \in DOMAIN t.page[p].children, NEW j \in DOMAIN t.page[p].children, i # j
  PROVE  ArePair(t, r, level, p, Child(t, p, i), Child(t, p, j))
  <1> DEFINE a == Child(t, p, i)
             b == Child(t, p, j)
  <1>1. /\ a \in InTree(t, {}) /\ a \in DOMAIN t.page /\ a # p /\ a # r
        /\ at[a] = i /\ level[a] + 1 = level[p]
    BY ChildFits
  <1>2. /\ b \in InTree(t, {}) /\ b \in DOMAIN t.page /\ b # p /\ b # r
        /\ at[b] = j /\ level[b] + 1 = level[p]
    BY ChildFits
  <1> HIDE DEF a, b
  <1>3. /\ Fits(t, r, a) /\ level[a] \in Nat /\ t.page[a].kind \in {"leaf", "internal"}
    BY <1>1, PageFits
  <1>4. /\ Fits(t, r, b) /\ level[b] \in Nat /\ t.page[b].kind \in {"leaf", "internal"}
    BY <1>2, PageFits
  <1>5. level[a] = level[b] /\ a # b
    BY <1>1, <1>2, <1>3, <1>4
  <1>6. /\ t.page[a].kind = "leaf" <=> level[a] = 0
        /\ t.page[b].kind = "leaf" <=> level[b] = 0
    BY <1>1, <1>2, LeavesAtBottom
  <1>7. t.page[a].kind = t.page[b].kind
    BY <1>3, <1>4, <1>5, <1>6
  <1>8. MinKeys \in Nat /\ MaxKeys \in Nat
    BY BTreeAssumption DEF MinKeys, MaxKeys
  <1>9. t.page[a].keys \in Seq(Int) /\ t.page[b].keys \in Seq(Int)
    BY <1>1, <1>2, PagesOf
  <1>10. Len(t.page[a].keys) \in MinKeys..MaxKeys /\ Len(t.page[b].keys) \in MinKeys..MaxKeys
    BY <1>1, <1>2, <1>3, <1>4, <1>8, <1>9 DEF Fits
  <1>11. /\ t.page[a].kind = "leaf" => t.page[a].children = <<>> /\ t.page[b].children = <<>>
         /\ t.page[a].kind = "internal" =>
               /\ Len(t.page[a].children) = Len(t.page[a].keys) + 1
               /\ Len(t.page[b].children) = Len(t.page[b].keys) + 1
    BY <1>3, <1>4, <1>7 DEF Fits
  <1>12. p \in DOMAIN t.page
    BY DEF InTree
  <1> QED BY <1>1, <1>2, <1>3, <1>5, <1>7, <1>10, <1>11, <1>12 DEF a, b, ArePair

LEMMA RewriteTracks ==
  ASSUME NEW t, NEW a, NEW b, NEW c, NEW ka, NEW kb, NEW kc, NEW ca, NEW cb, NEW cc, NEW s,
         Rewrites(t, a, ka, ca, b, kb, cb, c, kc, cc, s), Marks(t, {a, b, c}, s)
  PROVE  Tracks(t, s)
  BY DEF Rewrites, Marks, Tracks

\* A child that has a key to spare.
HasExtra(t, r, p, s, j) ==
    /\ s \in Cache /\ Sound(s, r, {})
    /\ j \in DOMAIN s.page[p].children
    /\ Child(s, p, j) \in InTree(s, {})
    /\ KeyCount(s, Child(s, p, j)) >= MinDegree
    /\ Tracks(t, s)
    /\ s.wild = t.wild

LEMMA BorrowPrevHolds ==
  ASSUME NEW t \in Cache, NEW r, Sound(t, r, {}), NEW p \in InTree(t, {}),
         NEW i \in DOMAIN t.page[p].children, i - 1 \in DOMAIN t.page[p].children,
         KeyCount(t, Child(t, p, i)) < MinDegree,
         KeyCount(t, Child(t, p, i - 1)) >= MinDegree
  PROVE  HasExtra(t, r, p, BorrowFromPrev(t, p, i), i)
  <1> DEFINE c == Child(t, p, i)
             l == Child(t, p, i - 1)
             x == t.page[l]
             y == t.page[c]
             z == t.page[p]
             s == BorrowFromPrev(t, p, i)
             moved == IF IsLeaf(t, l) THEN <<>> ELSE <<Last(x.children)>>
             kc == <<z.keys[i - 1]>> \o y.keys
             cc == moved \o y.children
             kp == [z.keys EXCEPT ![i - 1] = Last(x.keys)]
             kl == Front(x.keys)
             cl == SubSeq(x.children, 1, Len(x.children) - Len(moved))
  <1>1. PICK by, at, level : SoundBy(t, r, {}, by, at, level)
    BY SoundIs
  <1>2. ArePair(t, r, level, p, l, c)
    <2> DEFINE j == i - 1
    <2>1. j # i /\ j \in DOMAIN z.children /\ i \in DOMAIN z.children
      <3>1. i \in Nat
        BY <1>1, PageFits, PagesOf
      <3> QED BY <3>1
    <2> HIDE DEF j
    <2>2. ArePair(t, r, level, p, Child(t, p, j), c)
      BY <1>1, <2>1, Siblings
    <2> QED BY <2>2 DEF j
  <1>3. /\ l \in DOMAIN t.page /\ c \in DOMAIN t.page /\ p \in DOMAIN t.page
        /\ l # c /\ p # l /\ p # c /\ l # r /\ c # r
    BY <1>2 DEF ArePair
  <1>4. /\ x.keys \in Seq(Int) /\ x.children \in Seq(Nat)
        /\ y.keys \in Seq(Int) /\ y.children \in Seq(Nat)
        /\ z.keys \in Seq(Int) /\ z.children \in Seq(Nat)
    BY <1>3, PagesOf
  <1>5. /\ MinDegree \in Nat /\ MinDegree >= 2 /\ MinKeys = MinDegree - 1
        /\ MaxKeys = 2 * MinDegree - 1
    BY BTreeAssumption DEF MinKeys, MaxKeys
  <1>6. /\ Len(x.keys) \in Nat /\ Len(x.keys) >= MinDegree /\ Len(x.keys) <= MaxKeys
        /\ Len(y.keys) \in Nat /\ Len(y.keys) = MinKeys
    <2>1. Len(x.keys) \in MinKeys..MaxKeys /\ Len(y.keys) \in MinKeys..MaxKeys
      BY <1>2 DEF ArePair
    <2>2. Len(y.keys) < MinDegree /\ Len(x.keys) >= MinDegree
      BY DEF KeyCount
    <2> HIDE DEF x, y
    <2>3. Len(x.keys) \in Nat /\ Len(y.keys) \in Nat
      BY <1>4
    <2> QED BY <1>5, <2>1, <2>2, <2>3
  <1>7. z.kind = "internal" /\ Len(z.children) = Len(z.keys) + 1
    <2>1. z.kind = "internal"
      BY <1>1, ChildFits
    <2>2. Fits(t, r, p)
      BY <1>1, PageFits
    <2> QED BY <2>1, <2>2 DEF Fits
  <1>8. i \in Nat /\ i - 1 \in 1..Len(z.keys) /\ i - 1 \in DOMAIN z.keys
    <2>1. i \in 1..Len(z.children) /\ i - 1 \in 1..Len(z.children)
      BY <1>4, SMTT(60)
    <2>2. Len(z.keys) \in Nat /\ DOMAIN z.keys = 1..Len(z.keys)
      BY <1>4
    <2> HIDE DEF z
    <2> QED BY <1>7, <2>1, <2>2
  <1>9. /\ x.keys # <<>>
        /\ x.kind = y.kind /\ x.kind \in {"leaf", "internal"}
        /\ x.kind = "leaf" <=> IsLeaf(t, l)
        /\ x.kind = "leaf" => x.children = <<>> /\ y.children = <<>>
        /\ x.kind = "internal" => /\ x.children # <<>>
                                  /\ Len(x.children) = Len(x.keys) + 1
                                  /\ Len(y.children) = Len(y.keys) + 1
    <2>1. x.keys # <<>>
      <3> HIDE DEF x
      <3> QED BY <1>5, <1>6
    <2>2. /\ x.kind = y.kind /\ x.kind \in {"leaf", "internal"}
          /\ x.kind = "leaf" => x.children = <<>> /\ y.children = <<>>
          /\ x.kind = "internal" => /\ Len(x.children) = Len(x.keys) + 1
                                    /\ Len(y.children) = Len(y.keys) + 1
      BY <1>2 DEF ArePair
    <2>3. x.kind = "leaf" <=> IsLeaf(t, l)
      BY DEF IsLeaf
    <2> HIDE DEF x, y
    <2>4. x.kind = "internal" => x.children # <<>>
      BY <1>5, <1>6, <2>2
    <2> QED BY <2>1, <2>2, <2>3, <2>4
  <1>10. /\ Rewrites(t, c, kc, cc, p, kp, z.children, l, kl, cl, s)
         /\ Marks(t, {c, p, l}, s)
    <2> HIDE DEF moved
    <2>1. moved = IF IsLeaf(t, l) THEN <<>> ELSE <<Last(t.page[l].children)>>
      BY DEF moved
    <2>2. c = Child(t, p, i) /\ l = Child(t, p, i - 1)
          /\ t.page[l].keys # <<>> /\ (IsLeaf(t, l) \/ t.page[l].children # <<>>)
      BY <1>9
    <2> HIDE DEF c, l
    <2> QED BY <1>3, <1>8, <2>1, <2>2, BorrowingPrev
  <1> HIDE DEF c, l, s
  <1>11. Parted(Nat, x.children, y.children, cl, cc) /\ Len(moved) \in Nat
         /\ (IsLeaf(t, l) => moved = <<>>) /\ (~IsLeaf(t, l) => Len(moved) = 1)
    <2>1. \/ moved = <<>>
          \/ x.children # <<>> /\ moved = <<Last(x.children)>>
      BY <1>9
    <2>3. (IsLeaf(t, l) => moved = <<>>) /\ (~IsLeaf(t, l) => Len(moved) = 1)
      OBVIOUS
    <2>2. moved \in Seq(Nat)
      <3> DEFINE d == x.children
      <3>1. d \in Seq(Nat) /\ (moved = <<>> \/ (d # <<>> /\ moved = <<Last(d)>>))
        BY <1>4, <2>1
      <3> HIDE DEF d, moved
      <3>2. d # <<>> => Last(d) \in Nat
        BY <3>1 DEF Last
      <3> DEFINE e == Last(d)
      <3>3. e \in Nat => <<e>> \in Seq(Nat)
        <4> HIDE DEF e
        <4> QED OBVIOUS
      <3>4. <<>> \in Seq(Nat)
        OBVIOUS
      <3> QED BY <3>1, <3>2, <3>3, <3>4
    <2> HIDE DEF x, y, moved
    <2> QED BY <1>4, <2>1, <2>2, <2>3, GiveLast
  <1>12. kc \in Seq(Int) /\ Len(kc) = MinDegree
    <2>1. z.keys[i - 1] \in Int
      BY <1>4, <1>8
    <2> DEFINE e == z.keys[i - 1]
    <2> HIDE DEF y, e
    <2>2. <<e>> \o y.keys \in Seq(Int) /\ Len(<<e>> \o y.keys) = 1 + Len(y.keys)
      BY <1>4, <2>1 DEF e
    <2> QED BY <1>5, <1>6, <2>2 DEF e
  <1>13. kl \in Seq(Int) /\ Len(kl) = Len(x.keys) - 1
    <2> HIDE DEF x
    <2> DEFINE m == Len(x.keys)
    <2>1. m \in Nat /\ m - 1 \in Nat /\ m - 1 <= m /\ 1 <= m - 1
      BY <1>5, <1>6
    <2>2. IsPart(Int, x.keys, 1, m - 1, kl)
      BY <1>4, <2>1, PartOf DEF Front
    <2>3. m - 1 - 1 + 1 = m - 1
      BY <2>1
    <2> HIDE DEF m, kl
    <2> QED BY <2>1, <2>2, <2>3 DEF IsPart, m
  <1>14. Len(kp) = Len(z.keys)
    <2> DEFINE j == i - 1
               e == Last(x.keys)
    <2>1. j \in DOMAIN z.keys
      BY <1>8
    <2>2. e \in Int
      <3> HIDE DEF x
      <3> QED BY <1>4, <1>5, <1>6 DEF Last
    <2> HIDE DEF z, j, e
    <2>3. Len([z.keys EXCEPT ![j] = e]) = Len(z.keys)
      BY <1>4, <2>1, <2>2
    <2> QED BY <2>3 DEF j, e
  <1>15. /\ x.kind = "leaf" => cl = <<>> /\ cc = <<>>
         /\ x.kind = "internal" => Len(cl) = Len(kl) + 1 /\ Len(cc) = Len(kc) + 1
    <2>1. ASSUME x.kind = "leaf" PROVE cl = <<>> /\ cc = <<>>
      <3>1. moved = <<>> /\ x.children = <<>> /\ y.children = <<>>
        BY <1>9, <1>11, <2>1
      <3> HIDE DEF x, y, moved
      <3>2. Len(moved) = 0 /\ Len(x.children) = 0
        BY <3>1
      <3> QED BY <3>1, <3>2
    <2>2. ASSUME x.kind = "internal" PROVE Len(cl) = Len(kl) + 1 /\ Len(cc) = Len(kc) + 1
      <3>1. Len(moved) = 1 /\ Len(x.children) = Len(x.keys) + 1 /\ Len(y.children) = Len(y.keys) + 1
        BY <1>9, <1>11, <2>2
      <3> HIDE DEF x, y, moved, kc, kl
      <3>2. Len(cl) = Len(x.children) - 1
        BY <1>4, <1>6, <3>1
      <3>3. Len(cl) + Len(cc) = Len(x.children) + Len(y.children) /\ cc \in Seq(Nat)
        BY <1>11 DEF Parted
      <3>4. Len(cc) \in Nat
        BY <3>3
      <3> HIDE DEF cl, cc
      <3> QED BY <1>5, <1>6, <1>12, <1>13, <3>1, <3>2, <3>3, <3>4
    <2> QED BY <2>1, <2>2
  <1>16. Shiftable(t, r, level, p, l, kl, cl, c, kc, cc, kp, s)
    <2>1. Rewrites(t, l, kl, cl, c, kc, cc, p, kp, t.page[p].children, s)
      <3> HIDE DEF kl, cl, kc, cc, kp
      <3> QED BY <1>3, <1>10 DEF Rewrites
    <2>2. Parted(Nat, t.page[l].children, t.page[c].children, cl, cc)
      BY <1>11
    <2>3. Len(kp) = Len(t.page[p].keys)
      BY <1>14
    <2>4. s.free = t.free
      BY <1>10 DEF Marks
    <2>5. kl \in Seq(Int) /\ kc \in Seq(Int)
          /\ Len(kl) \in MinKeys..MaxKeys /\ Len(kc) \in MinKeys..MaxKeys
      <3> HIDE DEF kl, kc
      <3> QED BY <1>5, <1>6, <1>12, <1>13, SMTT(60)
    <2>6. /\ t.page[l].kind = "leaf" => cl = <<>> /\ cc = <<>>
          /\ t.page[l].kind = "internal" => Len(cl) = Len(kl) + 1 /\ Len(cc) = Len(kc) + 1
      BY <1>15
    <2> HIDE DEF kl, cl, kc, cc, kp
    <2> QED BY <1>2, <2>1, <2>2, <2>3, <2>4, <2>5, <2>6 DEF Shiftable, ArePair
  <1> HIDE DEF kl, cl, kc, cc, kp
  <1>17. Kept(t, r, s)
    BY <1>1, <1>16, ShiftHolds
  <1>18. Tracks(t, s) /\ s.wild = t.wild
    BY <1>10, RewriteTracks DEF Marks
  <1>19. /\ i \in DOMAIN s.page[p].children /\ Child(s, p, i) = c
         /\ KeyCount(s, c) = MinDegree
    BY <1>10, <1>12 DEF Rewrites, Child, KeyCount, c
  <1>20. c \in InTree(s, {}) /\ KeyCount(s, c) >= MinDegree
    BY <1>2, <1>5, <1>17, <1>19 DEF Kept, ArePair
  <1>21. HasExtra(t, r, p, s, i)
    BY <1>17, <1>18, <1>19, <1>20 DEF HasExtra, Kept
  <1> QED BY <1>21 DEF s

LEMMA BorrowNextHolds ==
  ASSUME NEW t \in Cache, NEW r, Sound(t, r, {}), NEW p \in InTree(t, {}),
         NEW i \in DOMAIN t.page[p].children, i + 1 \in DOMAIN t.page[p].children,
         KeyCount(t, Child(t, p, i)) < MinDegree,
         KeyCount(t, Child(t, p, i + 1)) >= MinDegree
  PROVE  HasExtra(t, r, p, BorrowFromNext(t, p, i), i)
  <1> DEFINE c == Child(t, p, i)
             n == Child(t, p, i + 1)
             x == t.page[n]
             y == t.page[c]
             z == t.page[p]
             s == BorrowFromNext(t, p, i)
             moved == IF IsLeaf(t, n) THEN <<>> ELSE <<Head(x.children)>>
             kc == Append(y.keys, z.keys[i])
             cc == y.children \o moved
             kp == [z.keys EXCEPT ![i] = Head(x.keys)]
             kn == Tail(x.keys)
             cn == SubSeq(x.children, Len(moved) + 1, Len(x.children))
  <1>1. PICK by, at, level : SoundBy(t, r, {}, by, at, level)
    BY SoundIs
  <1>2. ArePair(t, r, level, p, c, n)
    <2> DEFINE j == i + 1
    <2>1. j # i /\ j \in DOMAIN z.children /\ i \in DOMAIN z.children
      <3>1. i \in Nat
        BY <1>1, PageFits, PagesOf
      <3> QED BY <3>1
    <2> HIDE DEF j
    <2>2. ArePair(t, r, level, p, c, Child(t, p, j))
      BY <1>1, <2>1, Siblings
    <2> QED BY <2>2 DEF j
  <1>3. /\ n \in DOMAIN t.page /\ c \in DOMAIN t.page /\ p \in DOMAIN t.page
        /\ n # c /\ p # n /\ p # c /\ n # r /\ c # r
    BY <1>2 DEF ArePair
  <1>4. /\ x.keys \in Seq(Int) /\ x.children \in Seq(Nat)
        /\ y.keys \in Seq(Int) /\ y.children \in Seq(Nat)
        /\ z.keys \in Seq(Int) /\ z.children \in Seq(Nat)
    BY <1>3, PagesOf
  <1>5. /\ MinDegree \in Nat /\ MinDegree >= 2 /\ MinKeys = MinDegree - 1
        /\ MaxKeys = 2 * MinDegree - 1
    BY BTreeAssumption DEF MinKeys, MaxKeys
  <1>6. /\ Len(x.keys) \in Nat /\ Len(x.keys) >= MinDegree /\ Len(x.keys) <= MaxKeys
        /\ Len(y.keys) \in Nat /\ Len(y.keys) = MinKeys
    <2>1. Len(x.keys) \in MinKeys..MaxKeys /\ Len(y.keys) \in MinKeys..MaxKeys
      BY <1>2 DEF ArePair
    <2>2. Len(y.keys) < MinDegree /\ Len(x.keys) >= MinDegree
      BY DEF KeyCount
    <2> HIDE DEF x, y
    <2>3. Len(x.keys) \in Nat /\ Len(y.keys) \in Nat
      BY <1>4
    <2> QED BY <1>5, <2>1, <2>2, <2>3
  <1>7. z.kind = "internal" /\ Len(z.children) = Len(z.keys) + 1
    <2>1. z.kind = "internal"
      BY <1>1, ChildFits
    <2>2. Fits(t, r, p)
      BY <1>1, PageFits
    <2> QED BY <2>1, <2>2 DEF Fits
  <1>8. i \in Nat /\ i \in DOMAIN z.keys
    <2>1. i \in 1..Len(z.children) /\ i + 1 \in 1..Len(z.children)
      BY <1>4, SMTT(60)
    <2>2. Len(z.keys) \in Nat /\ DOMAIN z.keys = 1..Len(z.keys)
      BY <1>4
    <2> HIDE DEF z
    <2> QED BY <1>7, <2>1, <2>2
  <1>9. /\ x.keys # <<>>
        /\ x.kind = y.kind /\ x.kind \in {"leaf", "internal"}
        /\ x.kind = "leaf" <=> IsLeaf(t, n)
        /\ x.kind = "leaf" => x.children = <<>> /\ y.children = <<>>
        /\ x.kind = "internal" => /\ x.children # <<>>
                                  /\ Len(x.children) = Len(x.keys) + 1
                                  /\ Len(y.children) = Len(y.keys) + 1
    <2>1. x.keys # <<>>
      <3> HIDE DEF x
      <3> QED BY <1>5, <1>6
    <2>2. /\ x.kind = y.kind /\ x.kind \in {"leaf", "internal"}
          /\ x.kind = "leaf" => x.children = <<>> /\ y.children = <<>>
          /\ x.kind = "internal" => /\ Len(x.children) = Len(x.keys) + 1
                                    /\ Len(y.children) = Len(y.keys) + 1
      BY <1>2 DEF ArePair
    <2>3. x.kind = "leaf" <=> IsLeaf(t, n)
      BY DEF IsLeaf
    <2> HIDE DEF x, y
    <2>4. x.kind = "internal" => x.children # <<>>
      BY <1>5, <1>6, <2>2
    <2> QED BY <2>1, <2>2, <2>3, <2>4
  <1>10. /\ Rewrites(t, c, kc, cc, p, kp, z.children, n, kn, cn, s)
         /\ Marks(t, {c, p, n}, s)
    <2> HIDE DEF moved
    <2>1. moved = IF IsLeaf(t, n) THEN <<>> ELSE <<Head(t.page[n].children)>>
      BY DEF moved
    <2>2. c = Child(t, p, i) /\ n = Child(t, p, i + 1)
          /\ t.page[n].keys # <<>> /\ (IsLeaf(t, n) \/ t.page[n].children # <<>>)
      BY <1>9
    <2> HIDE DEF c, n
    <2> QED BY <1>3, <1>8, <2>1, <2>2, BorrowingNext
  <1> HIDE DEF c, n, s
  <1>11. Parted(Nat, y.children, x.children, cc, cn) /\ Len(moved) \in Nat
         /\ (IsLeaf(t, n) => moved = <<>>) /\ (~IsLeaf(t, n) => Len(moved) = 1)
    <2>1. \/ moved = <<>>
          \/ x.children # <<>> /\ moved = <<Head(x.children)>>
      BY <1>9
    <2>2. moved \in Seq(Nat)
      <3> DEFINE d == x.children
                 e == Head(d)
      <3>1. d \in Seq(Nat) /\ (moved = <<>> \/ (d # <<>> /\ moved = <<e>>))
        BY <1>4, <2>1
      <3> HIDE DEF d, moved
      <3>2. d # <<>> => e \in Nat
        BY <3>1
      <3>3. e \in Nat => <<e>> \in Seq(Nat)
        <4> HIDE DEF e
        <4> QED OBVIOUS
      <3>4. <<>> \in Seq(Nat)
        OBVIOUS
      <3> HIDE DEF e
      <3> QED BY <3>1, <3>2, <3>3, <3>4
    <2>3. (IsLeaf(t, n) => moved = <<>>) /\ (~IsLeaf(t, n) => Len(moved) = 1)
      OBVIOUS
    <2> HIDE DEF x, y, moved
    <2> QED BY <1>4, <2>1, <2>2, <2>3, GiveFirst
  <1>12. kc \in Seq(Int) /\ Len(kc) = MinDegree
    <2> DEFINE e == z.keys[i]
    <2>1. e \in Int
      BY <1>4, <1>8
    <2> HIDE DEF y, e
    <2>2. Append(y.keys, e) \in Seq(Int) /\ Len(Append(y.keys, e)) = Len(y.keys) + 1
      BY <1>4, <2>1
    <2> QED BY <1>5, <1>6, <2>2 DEF e
  <1>13. kn \in Seq(Int) /\ Len(kn) = Len(x.keys) - 1
    <2> HIDE DEF x
    <2> QED BY <1>4, <1>9
  <1>14. Len(kp) = Len(z.keys)
    <2> DEFINE e == Head(x.keys)
    <2>1. e \in Int
      <3> HIDE DEF x
      <3> QED BY <1>4, <1>9
    <2> HIDE DEF z, e
    <2>2. Len([z.keys EXCEPT ![i] = e]) = Len(z.keys)
      BY <1>4, <1>8, <2>1
    <2> QED BY <2>2 DEF e
  <1>15. /\ y.kind = "leaf" => cc = <<>> /\ cn = <<>>
         /\ y.kind = "internal" => Len(cc) = Len(kc) + 1 /\ Len(cn) = Len(kn) + 1
    <2>1. ASSUME y.kind = "leaf" PROVE cc = <<>> /\ cn = <<>>
      <3>1. moved = <<>> /\ x.children = <<>> /\ y.children = <<>>
        BY <1>9, <1>11, <2>1
      <3> HIDE DEF x, y, moved
      <3>2. Len(moved) = 0 /\ Len(x.children) = 0
        BY <3>1
      <3> QED BY <3>1, <3>2
    <2>2. ASSUME y.kind = "internal" PROVE Len(cc) = Len(kc) + 1 /\ Len(cn) = Len(kn) + 1
      <3>1. /\ Len(moved) = 1 /\ moved \in Seq(Nat)
            /\ Len(x.children) = Len(x.keys) + 1 /\ Len(y.children) = Len(y.keys) + 1
        <4>1. Len(moved) = 1 /\ ~IsLeaf(t, n)
          BY <1>9, <1>11, <2>2
        <4>2. moved = <<Head(x.children)>> /\ x.children # <<>>
          BY <1>9, <2>2, <4>1
        <4>3. Head(x.children) \in Nat
          <5> HIDE DEF x
          <5> QED BY <1>4, <4>2
        <4>4. moved \in Seq(Nat)
          <5> DEFINE e == Head(x.children)
          <5>1. moved = <<e>> /\ e \in Nat
            BY <4>2, <4>3
          <5> HIDE DEF moved, e
          <5> QED BY <5>1
        <4> QED BY <1>9, <2>2, <4>1, <4>4
      <3> HIDE DEF x, y, moved, kc, kn
      <3>2. Len(cc) = Len(y.children) + 1
        <4> DEFINE d == y.children
        <4>1. d \in Seq(Nat) /\ moved \in Seq(Nat) /\ Len(moved) = 1
          BY <1>4, <3>1
        <4> HIDE DEF d
        <4>2. Len(d \o moved) = Len(d) + Len(moved)
          BY <4>1, Joined
        <4> QED BY <4>1, <4>2 DEF d
      <3>3. Len(cc) + Len(cn) = Len(y.children) + Len(x.children) /\ cn \in Seq(Nat)
        BY <1>11 DEF Parted
      <3>4. Len(cn) \in Nat
        BY <3>3
      <3> HIDE DEF cn, cc
      <3> QED BY <1>5, <1>6, <1>12, <1>13, <3>1, <3>2, <3>3, <3>4
    <2> QED BY <2>1, <2>2
  <1>16. Shiftable(t, r, level, p, c, kc, cc, n, kn, cn, kp, s)
    <2>1. Rewrites(t, c, kc, cc, n, kn, cn, p, kp, t.page[p].children, s)
      <3> HIDE DEF kn, cn, kc, cc, kp
      <3> QED BY <1>3, <1>10 DEF Rewrites
    <2>2. Parted(Nat, t.page[c].children, t.page[n].children, cc, cn)
      BY <1>11
    <2>3. Len(kp) = Len(t.page[p].keys)
      BY <1>14
    <2>4. s.free = t.free
      BY <1>10 DEF Marks
    <2>5. kn \in Seq(Int) /\ kc \in Seq(Int)
          /\ Len(kn) \in MinKeys..MaxKeys /\ Len(kc) \in MinKeys..MaxKeys
      <3> HIDE DEF kn, kc
      <3> QED BY <1>5, <1>6, <1>12, <1>13, SMTT(60)
    <2>6. /\ t.page[c].kind = "leaf" => cc = <<>> /\ cn = <<>>
          /\ t.page[c].kind = "internal" => Len(cc) = Len(kc) + 1 /\ Len(cn) = Len(kn) + 1
      BY <1>15
    <2> HIDE DEF kn, cn, kc, cc, kp
    <2> QED BY <1>2, <2>1, <2>2, <2>3, <2>4, <2>5, <2>6 DEF Shiftable, ArePair
  <1> HIDE DEF kn, cn, kc, cc, kp
  <1>17. Kept(t, r, s)
    BY <1>1, <1>16, ShiftHolds
  <1>18. Tracks(t, s) /\ s.wild = t.wild
    BY <1>10, RewriteTracks DEF Marks
  <1>19. /\ i \in DOMAIN s.page[p].children /\ Child(s, p, i) = c
         /\ KeyCount(s, c) = MinDegree
    BY <1>10, <1>12 DEF Rewrites, Child, KeyCount, c
  <1>20. c \in InTree(s, {}) /\ KeyCount(s, c) >= MinDegree
    BY <1>2, <1>5, <1>17, <1>19 DEF Kept, ArePair
  <1>21. HasExtra(t, r, p, s, i)
    BY <1>17, <1>18, <1>19, <1>20 DEF HasExtra, Kept
  <1> QED BY <1>21 DEF s

-----------------------------------------------------------------------------
(* Merging.                                                                *)

\* Two pages of a cache rewritten, and marked.
Merges(t, l, kl, cl, p, kp, cp, u) ==
    /\ u \in Cache
    /\ DOMAIN u.page = DOMAIN t.page
    /\ u.page[l].keys = kl /\ u.page[l].children = cl
    /\ u.page[p].keys = kp /\ u.page[p].children = cp
    /\ \A q \in {l, p} : /\ u.page[q].kind = t.page[q].kind
                         /\ u.page[q].link = t.page[q].link
    /\ \A q \in DOMAIN t.page \ {l, p} : u.page[q] = t.page[q]
    /\ Marks(t, {l, p}, u)

LEMMA Merging ==
  ASSUME NEW t \in Cache, NEW p \in DOMAIN t.page, NEW i \in Nat \ {0},
         i \in DOMAIN t.page[p].keys, i + 1 \in DOMAIN t.page[p].children,
         NEW l \in DOMAIN t.page, l = Child(t, p, i),
         NEW n \in DOMAIN t.page, n = Child(t, p, i + 1), p # l
  PROVE  \E u : /\ MergeChildren(t, p, i) = ReleasePage(u, n)
                /\ Merges(t, l, Append(t.page[l].keys, t.page[p].keys[i]) \o t.page[n].keys,
                          t.page[l].children \o t.page[n].children,
                          p, RemoveAt(t.page[p].keys, i),
                          RemoveAt(t.page[p].children, i + 1), u)
  <1> DEFINE x == t.page[l]
             y == t.page[n]
             z == t.page[p]
             kl == Append(x.keys, z.keys[i]) \o y.keys
             cl == x.children \o y.children
             kp == RemoveAt(z.keys, i)
             cp == RemoveAt(z.children, i + 1)
             pl == [x EXCEPT !.keys = kl, !.children = cl]
             pp == [z EXCEPT !.keys = kp, !.children = cp]
             page2 == [t.page EXCEPT ![l] = pl, ![p] = pp]
             marked == t.dirty \cup {l, p}
             v == [t EXCEPT !.page[l].keys = Append(@, z.keys[i]) \o y.keys,
                            !.page[l].children = @ \o y.children,
                            !.page[p].keys = RemoveAt(@, i),
                            !.page[p].children = RemoveAt(@, i + 1)]
             u == MarkDirty(v, {l, p})
  <1>1. /\ x \in Page /\ y \in Page /\ z \in Page
        /\ x.keys \in Seq(Int) /\ x.children \in Seq(Nat)
        /\ y.keys \in Seq(Int) /\ y.children \in Seq(Nat)
        /\ z.keys \in Seq(Int) /\ z.children \in Seq(Nat)
    BY PagesOf
  <1>2. MergeChildren(t, p, i) = ReleasePage(u, n)
    BY DEF MergeChildren
  <1>3. v = [t EXCEPT !.page = page2]
    <2> DEFINE f1 == [t.page EXCEPT ![l].keys = Append(@, z.keys[i]) \o y.keys,
                                    ![l].children = @ \o y.children]
               f2 == [f1 EXCEPT ![p].keys = RemoveAt(@, i)]
               f3 == [f2 EXCEPT ![p].children = RemoveAt(@, i + 1)]
               v1 == [t EXCEPT !.page[l].keys = Append(@, z.keys[i]) \o y.keys,
                               !.page[l].children = @ \o y.children]
               v2 == [v1 EXCEPT !.page[p].keys = RemoveAt(@, i)]
               v3 == [v2 EXCEPT !.page[p].children = RemoveAt(@, i + 1)]
    <2> DEFINE v4 == [v1 EXCEPT !.page[p].keys = RemoveAt(@, i),
                                !.page[p].children = RemoveAt(@, i + 1)]
    <2>7. v = v4
      OBVIOUS
    <2>8. v4 = v3
      <3> HIDE DEF v1, x, y, z
      <3> QED OBVIOUS
    <2>1. v = v3
      BY <2>7, <2>8, ZenonT(60)
    <2>2. v1 = [t EXCEPT !.page = f1]
      BY DEF Cache
    <2>3. v2 = [t EXCEPT !.page = f2]
      <3> HIDE DEF v1, f1, x, y, z
      <3> QED BY <2>2 DEF Cache
    <2>4. v3 = [t EXCEPT !.page = f3]
      <3> HIDE DEF v2, f2, x, y, z
      <3> QED BY <2>3 DEF Cache
    <2>5. f1 = [t.page EXCEPT ![l] = pl]
      BY <1>1, PagesOf DEF Page
    <2>6. f3 = [f1 EXCEPT ![p] = pp]
      <3>1. f1[p] = z /\ p \in DOMAIN f1
        OBVIOUS
      <3>2. f3 = [f1 EXCEPT ![p].keys = RemoveAt(@, i), ![p].children = RemoveAt(@, i + 1)]
        <4> HIDE DEF f1, x, y, z
        <4> QED OBVIOUS
      <3> HIDE DEF f1, f3, z
      <3>3. [z EXCEPT !.keys = RemoveAt(@, i), !.children = RemoveAt(@, i + 1)] = pp
        BY <1>1 DEF Page
      <3> HIDE DEF pp
      <3> QED BY <3>1, <3>2, <3>3
    <2> HIDE DEF f1, f2, f3, v, v1, v2, v3, pl, pp
    <2> QED BY <2>1, <2>4, <2>5, <2>6, SMTT(60)
  <1>4. kl \in Seq(Int) /\ cl \in Seq(Nat) /\ kp \in Seq(Int) /\ cp \in Seq(Nat)
    <2>1. z.keys[i] \in Int
      BY <1>1
    <2>2. i \in 1..Len(z.keys) /\ i + 1 \in 1..Len(z.children)
      BY <1>1, SMTT(60)
    <2> DEFINE e == z.keys[i]
    <2> HIDE DEF x, y, z, e
    <2>3. Append(x.keys, e) \in Seq(Int)
      BY <1>1, <2>1 DEF e
    <2>4. kl \in Seq(Int) /\ cl \in Seq(Nat)
      BY <1>1, <2>3, Joined DEF e
    <2>5. kp \in Seq(Int) /\ cp \in Seq(Nat)
      BY <1>1, <2>2, Removing DEF HasRemoved
    <2> QED BY <2>4, <2>5
  <1>5. /\ pl \in Page /\ pl.keys = kl /\ pl.children = cl
        /\ pl.kind = x.kind /\ pl.link = x.link
    <2> HIDE DEF x, kl, cl
    <2> QED BY <1>1, <1>4 DEF Page
  <1>6. /\ pp \in Page /\ pp.keys = kp /\ pp.children = cp
        /\ pp.kind = z.kind /\ pp.link = z.link
    <2> HIDE DEF z, kp, cp
    <2> QED BY <1>1, <1>4 DEF Page
  <1> HIDE DEF pl, pp
  <1>7. t.page \in Seq(Page) /\ l \in DOMAIN t.page /\ p \in DOMAIN t.page /\ p # l
        /\ {l, p} \subseteq Nat
    BY PagesOf, SMTT(60)
  <1>8. page2 \in Seq(Page) /\ DOMAIN page2 = DOMAIN t.page
        /\ page2[l] = pl /\ page2[p] = pp
        /\ \A q \in DOMAIN t.page \ {l, p} : page2[q] = t.page[q]
    BY <1>5, <1>6, <1>7
  <1> HIDE DEF page2, v
  <1>9. marked \in SUBSET Nat
    BY <1>7 DEF Cache
  <1>10. u = [t EXCEPT !.page = page2, !.dirty = marked]
    BY <1>3 DEF MarkDirty, Cache
  <1> HIDE DEF marked, u
  <1>11. u \in Cache /\ u.page = page2 /\ u.dirty = marked
         /\ u.free = t.free /\ u.wild = t.wild /\ u.header = t.header
    BY <1>8, <1>9, <1>10 DEF Cache
  <1>12. Marks(t, {l, p}, u)
    BY <1>11 DEF Marks, marked
  <1> HIDE DEF kl, cl, kp, cp
  <1>13. Merges(t, l, kl, cl, p, kp, cp, u)
    BY <1>5, <1>6, <1>8, <1>11, <1>12 DEF Merges
  <1> QED BY <1>2, <1>13 DEF kl, cl, kp, cp

LEMMA MergeHolds ==
  ASSUME NEW t \in Cache, NEW r, Sound(t, r, {}), NEW p \in InTree(t, {}),
         NEW i \in DOMAIN t.page[p].children, i + 1 \in DOMAIN t.page[p].children,
         KeyCount(t, Child(t, p, i)) < MinDegree,
         KeyCount(t, Child(t, p, i + 1)) < MinDegree,
         p # r => KeyCount(t, p) >= MinDegree
  PROVE  /\ HasExtra(t, r, p, MergeChildren(t, p, i), i)
         /\ Child(MergeChildren(t, p, i), p, i) = Child(t, p, i)
  <1> DEFINE l == Child(t, p, i)
             n == Child(t, p, i + 1)
             x == t.page[l]
             y == t.page[n]
             z == t.page[p]
             s == MergeChildren(t, p, i)
             kl == Append(x.keys, z.keys[i]) \o y.keys
             cl == x.children \o y.children
             kp == RemoveAt(z.keys, i)
             cp == RemoveAt(z.children, i + 1)
             T == InTree(t, {})
             D == DOMAIN t.page
             kids == Kids(t)
             kids1 == [q \in D |-> IF q = l THEN cl ELSE IF q = n THEN <<>> ELSE kids[q]]
  <1>1. PICK by, at, level : SoundBy(t, r, {}, by, at, level)
    BY SoundIs
  <1>2. ArePair(t, r, level, p, l, n)
    <2> DEFINE j == i + 1
    <2>1. j # i /\ j \in DOMAIN z.children /\ i \in DOMAIN z.children
      <3>1. i \in Nat
        BY <1>1, PageFits, PagesOf
      <3> QED BY <3>1
    <2> HIDE DEF j
    <2>2. ArePair(t, r, level, p, l, Child(t, p, j))
      BY <1>1, <2>1, Siblings
    <2> QED BY <2>2 DEF j
  <1>3. /\ n \in D /\ l \in D /\ p \in D /\ n \in T /\ l \in T /\ p \in T
        /\ n # l /\ p # n /\ p # l /\ n # r /\ l # r /\ level[l] = level[n]
    BY <1>2 DEF ArePair
  <1>4. /\ x.keys \in Seq(Int) /\ x.children \in Seq(Nat)
        /\ y.keys \in Seq(Int) /\ y.children \in Seq(Nat)
        /\ z.keys \in Seq(Int) /\ z.children \in Seq(Nat)
    BY <1>3, PagesOf
  <1>5. /\ MinDegree \in Nat /\ MinDegree >= 2 /\ MinKeys = MinDegree - 1
        /\ MaxKeys = 2 * MinDegree - 1
    BY BTreeAssumption DEF MinKeys, MaxKeys
  <1>6. Len(x.keys) = MinKeys /\ Len(y.keys) = MinKeys
    <2>1. Len(x.keys) \in MinKeys..MaxKeys /\ Len(y.keys) \in MinKeys..MaxKeys
      BY <1>2 DEF ArePair
    <2>2. Len(y.keys) < MinDegree /\ Len(x.keys) < MinDegree
      BY DEF KeyCount
    <2> HIDE DEF x, y
    <2>3. Len(x.keys) \in Nat /\ Len(y.keys) \in Nat
      BY <1>4, SMTT(60)
    <2> QED BY <1>5, <2>1, <2>2, <2>3
  <1>7. /\ z.kind = "internal" /\ Len(z.children) = Len(z.keys) + 1
        /\ Len(z.keys) <= MaxKeys /\ z.link = NoPage /\ Len(z.keys) \in Nat
        /\ p # r => Len(z.keys) >= MinDegree
    <2>1. z.kind = "internal"
      BY <1>1, ChildFits
    <2>2. Fits(t, r, p)
      BY <1>1, PageFits
    <2>3. p # r => Len(z.keys) >= MinDegree
      BY DEF KeyCount
    <2>4. Len(z.keys) \in Nat
      BY <1>4, SMTT(60)
    <2> QED BY <2>1, <2>2, <2>3, <2>4 DEF Fits
  <1>8. /\ i \in Nat \ {0} /\ i \in DOMAIN z.keys /\ i \in 1..Len(z.keys)
        /\ i \in 1..Len(z.children) /\ i + 1 \in 1..Len(z.children)
    <2>1. i \in 1..Len(z.children) /\ i + 1 \in 1..Len(z.children)
      BY <1>4, SMTT(60)
    <2>2. Len(z.keys) \in Nat /\ DOMAIN z.keys = 1..Len(z.keys)
      BY <1>4, SMTT(60)
    <2> HIDE DEF z
    <2> QED BY <1>7, <2>1, <2>2
  <1>9. PICK u : /\ s = ReleasePage(u, n)
                 /\ Merges(t, l, kl, cl, p, kp, cp, u)
    <2>1. l = Child(t, p, i) /\ n = Child(t, p, i + 1)
      BY SMTT(60)
    <2> HIDE DEF l, n
    <2> QED BY <1>3, <1>8, <2>1, Merging
  <1> HIDE DEF s
  <1>10. /\ u \in Cache /\ DOMAIN u.page = D
         /\ u.page[l].keys = kl /\ u.page[l].children = cl
         /\ u.page[p].keys = kp /\ u.page[p].children = cp
         /\ \A q \in {l, p} : /\ u.page[q].kind = t.page[q].kind
                              /\ u.page[q].link = t.page[q].link
         /\ \A q \in D \ {l, p} : u.page[q] = t.page[q]
         /\ u.free = t.free /\ u.wild = t.wild /\ u.header = t.header
         /\ u.dirty = t.dirty \cup {l, p}
    BY <1>9 DEF Merges, Marks
  <1>11. /\ x.kind = y.kind /\ x.kind \in {"leaf", "internal"}
         /\ x.kind = "leaf" => x.children = <<>> /\ y.children = <<>>
         /\ x.kind = "internal" => /\ Len(x.children) = Len(x.keys) + 1
                                   /\ Len(y.children) = Len(y.keys) + 1
    BY <1>2 DEF ArePair
  <1>12. z.children[i] = l /\ z.children[i + 1] = n
    BY DEF Child
  <1> HIDE DEF l, n
  <1>13. kl \in Seq(Int) /\ Len(kl) = MaxKeys
    <2> DEFINE e == z.keys[i]
    <2>1. e \in Int
      BY <1>4, <1>8
    <2> HIDE DEF x, y, e
    <2> DEFINE a == Append(x.keys, e)
    <2>2. a \in Seq(Int) /\ Len(a) = Len(x.keys) + 1
      BY <1>4, <2>1
    <2>3. kl = a \o y.keys
      BY DEF e
    <2> HIDE DEF kl, a
    <2>4. a \o y.keys \in Seq(Int) /\ Len(a \o y.keys) = Len(a) + Len(y.keys)
      BY <1>4, <2>2, Joined, ZenonT(60)
    <2>5. Len(kl) = (MinKeys + 1) + MinKeys
      BY <1>6, <2>2, <2>3, <2>4
    <2> QED BY <1>5, <2>3, <2>4, <2>5
  <1>14. Parted(Nat, x.children, y.children, cl, <<>>)
    BY <1>4, GiveAll
  <1>15. /\ x.kind = "leaf" => cl = <<>>
         /\ x.kind = "internal" => Len(cl) = Len(kl) + 1
    <2>1. x.kind = "leaf" => cl = <<>>
      BY <1>11
    <2> HIDE DEF kl
    <2>2. ASSUME x.kind = "internal" PROVE Len(cl) = Len(kl) + 1
      <3>1. Len(x.children) = Len(x.keys) + 1 /\ Len(y.children) = Len(y.keys) + 1
        BY <1>11, <2>2
      <3> HIDE DEF x, y
      <3>2. Len(cl) = Len(x.children) + Len(y.children)
        BY <1>4, Joined
      <3> QED BY <1>5, <1>6, <1>13, <3>1, <3>2
    <2> QED BY <2>1, <2>2
  <1>16. /\ HasRemoved(Int, z.keys, i, kp) /\ Len(kp) = Len(z.keys) - 1
    BY <1>4, <1>8, Removing, ZenonT(60) DEF HasRemoved
  <1>17. /\ HasRemoved(Nat, z.children, i + 1, cp)
         /\ Len(cp) = Len(z.children) - 1 /\ cp \in Seq(Nat)
    BY <1>4, <1>8, Removing, ZenonT(60) DEF HasRemoved
  <1> HIDE DEF kl, cl, kp, cp
  <1>18. cp[i] = l /\ i \in DOMAIN cp
    <2>1. i \in 1..(i + 1) - 1
      BY <1>8
    <2>2. cp[i] = z.children[i]
      BY <1>17, <2>1 DEF HasRemoved
    <2>3. i \in 1..Len(cp)
      <3> HIDE DEF z
      <3> QED BY <1>7, <1>8, <1>17
    <2> QED BY <1>12, <1>17, <2>2, <2>3
  <1>19. InTree(u, {n}) = T \ {n} /\ OnList(u, {n}) = OnList(t, {})
    <2>1. \A q \in D : u.page[q].kind = t.page[q].kind
      <3> SUFFICES ASSUME NEW q \in D PROVE u.page[q].kind = t.page[q].kind
        OBVIOUS
      <3>1. CASE q \in {l, p}
        BY <1>10, <3>1
      <3>2. CASE q \notin {l, p}
        BY <1>10, <3>2
      <3> QED BY <3>1, <3>2
    <2>2. InTree(u, {}) = T /\ OnList(u, {}) = OnList(t, {})
      BY <1>10, <2>1, SameKinds
    <2>3. InTree(u, {n}) = InTree(u, {}) \ {n}
      BY DEF InTree
    <2>4. OnList(u, {n}) = OnList(u, {}) \ {n}
      BY DEF OnList
    <2>5. n \notin OnList(t, {})
      BY <1>3 DEF InTree, OnList
    <2> QED BY <2>2, <2>3, <2>4, <2>5
  \* First the left child takes the children of the right one ...
  <1>20. \A q \in T : q \in D /\ kids[q] = t.page[q].children
    BY DEF InTree, Kids
  <1>21. /\ kids1[l] = cl /\ kids1[n] = <<>> /\ kids1[p] = z.children
         /\ kids[l] = x.children /\ kids[n] = y.children
         /\ \A q \in T \ {l, n} : kids1[q] = kids[q]
    BY <1>3, <1>20
  <1> HIDE DEF kids1, kids
  <1>22. Shifts(T, kids, l, n, kids1)
    <2> HIDE DEF x, y, T
    <2>1. Parted(Nat, kids[l], kids[n], kids1[l], kids1[n])
      BY <1>14, <1>21
    <2> QED BY <1>4, <1>21, <2>1 DEF Parted, Shifts
  <1>23. PICK by1, at1 : /\ Names(D, T, by1, at1, level)
                         /\ Forest(T, r, kids1, by1, at1, level)
                         /\ \A q \in D \ T : by1[q] = by[q]
    <2>1. Names(D, T, by, at, level) /\ Forest(T, r, kids, by, at, level)
      BY <1>1 DEF SoundBy, kids
    <2> HIDE DEF D, T
    <2> QED BY <1>3, <1>22, <2>1, ShapeShifted
  \* ... and then the right one leaves the tree.
  <1>24. Prunes(T, kids1, p, i + 1, Kids(u))
    <2>1. kids1[p][i + 1] = n
      BY <1>12, <1>21
    <2>2. Kids(u)[p] = cp
      BY <1>3, <1>10 DEF Kids
    <2>3. cp = RemoveAt(kids1[p], i + 1)
      BY <1>21 DEF cp
    <2>4. \A q \in T \ {p, n} : Kids(u)[q] = kids1[q]
      <3> SUFFICES ASSUME NEW q \in T, q # p, q # n PROVE Kids(u)[q] = kids1[q]
        OBVIOUS
      <3>1. Kids(u)[q] = u.page[q].children /\ q \in D
        BY <1>10, <1>20 DEF Kids
      <3>2. CASE q = l
        BY <1>10, <1>21, <3>1, <3>2
      <3>3. CASE q # l
        BY <1>10, <1>20, <1>21, <3>1, <3>3
      <3> QED BY <3>2, <3>3
    <2> QED BY <1>21, <2>1, <2>2, <2>3, <2>4 DEF Prunes
  <1>25. PICK at2 : /\ Names(D, T \ {n}, by1, at2, level)
                    /\ Forest(T \ {n}, r, Kids(u), by1, at2, level)
    <2> DEFINE j == i + 1
    <2>1. /\ kids1[p] \in Seq(Nat) /\ j \in 1..Len(kids1[p]) /\ n = kids1[p][j]
      BY <1>4, <1>8, <1>12, <1>21
    <2>2. Prunes(T, kids1, p, j, Kids(u))
      BY <1>24
    <2> HIDE DEF D, T, j
    <2> QED BY <1>3, <1>23, <2>1, <2>2, ShapePruned
  <1>26. PagesFit(u, r, {n}, level)
    <2> SUFFICES ASSUME NEW q \in T, q # n
                 PROVE  Fits(u, r, q) /\ (u.page[q].kind = "leaf" => level[q] = 0)
      BY <1>19 DEF PagesFit
    <2>1. /\ Fits(t, r, q) /\ (t.page[q].kind = "leaf" => level[q] = 0) /\ q \in D
      BY <1>1, PageFits
    <2>2. CASE q \notin {l, p}
      BY <1>10, <2>1, <2>2 DEF Fits
    <2>3. CASE q = l
      <3>1. u.page[l].kind = x.kind /\ u.page[l].link = x.link
        BY <1>10
      <3>2. MaxKeys <= MaxKeys /\ MaxKeys >= MinKeys
        BY <1>5
      <3> QED BY <1>10, <1>13, <1>15, <2>1, <2>3, <3>1, <3>2 DEF Fits
    <2>4. CASE q = p
      <3>1. u.page[p].kind = "internal" /\ u.page[p].link = NoPage
        BY <1>7, <1>10
      <3>2. /\ Len(kp) <= MaxKeys /\ (p # r => Len(kp) >= MinKeys)
            /\ Len(cp) = Len(kp) + 1
        <4> HIDE DEF z
        <4> QED BY <1>5, <1>7, <1>16, <1>17
      <3> QED BY <1>10, <2>4, <3>1, <3>2 DEF Fits
    <2> QED BY <2>2, <2>3, <2>4
  <1>27. ListHolds(u, {n}, by1, level)
    <2>1. \A q \in OnList(t, {}) : /\ q \in D \ T /\ q \notin {l, p}
      BY <1>3 DEF OnList, InTree
    <2>2. SameList(t, {}, by, level, u, {n}, by1, level)
      BY <1>10, <1>19, <1>23, <2>1 DEF SameList
    <2>3. ListHolds(t, {}, by, level)
      BY <1>1 DEF SoundBy
    <2> QED BY <1>10, <2>2, <2>3, ListKept
  <1>28. Sound(u, r, {n})
    <2>1. SoundBy(u, r, {n}, by1, at2, level)
      BY <1>10, <1>19, <1>25, <1>26, <1>27 DEF SoundBy
    <2> QED BY <1>10, <2>1, SoundIs
  <1>29. Sound(s, r, {}) /\ InTree(s, {}) = T \ {n}
    BY <1>3, <1>9, <1>10, <1>19, <1>28, ReleaseHolds
  <1>30. /\ s \in Cache /\ DOMAIN s.page = D
         /\ \A q \in D \ {n} : s.page[q] = u.page[q]
         /\ s.wild = t.wild /\ s.header = TRUE
         /\ s.dirty = t.dirty \cup {l, p} \cup {n}
    <2>1. u \in Cache /\ n \in DOMAIN u.page
      BY <1>3, <1>10
    <2> DEFINE w == ReleasePage(u, n)
    <2>2. /\ w \in Cache
          /\ DOMAIN w.page = DOMAIN u.page
          /\ w.page[n] = [MakePage("free") EXCEPT !.link = u.free]
          /\ \A q \in DOMAIN u.page \ {n} : w.page[q] = u.page[q]
          /\ w.free = n
          /\ MarksHeader(u, {n}, w)
      BY <2>1, Releasing
    <2>3. s = w
      BY <1>9
    <2> HIDE DEF w
    <2> QED BY <1>10, <2>2, <2>3 DEF MarksHeader
  <1>31. Tracks(t, s)
    <2>1. \A q \in D : q \in s.dirty \/ s.page[q] = t.page[q]
      BY <1>10, <1>30
    <2> QED BY <1>30, <2>1 DEF Tracks
  <1>32. /\ s.page[p].children = cp /\ Child(s, p, i) = l /\ i \in DOMAIN s.page[p].children
         /\ KeyCount(s, l) = MaxKeys /\ l \in InTree(s, {})
    BY <1>3, <1>10, <1>13, <1>18, <1>29, <1>30 DEF Child, KeyCount
  <1>33. HasExtra(t, r, p, s, i)
    <2>1. MaxKeys >= MinDegree
      BY <1>5
    <2> QED BY <1>29, <1>30, <1>31, <1>32, <2>1 DEF HasExtra
  <1> QED BY <1>32, <1>33 DEF s, l

-----------------------------------------------------------------------------
(* A child with a key to spare, and the ends of a subtree.                 *)

\* What ensure_child_has_extra leaves, if it finds a sibling to turn to.
Ensured(t, r, p, e) ==
    /\ e.t \in Cache
    /\ e.t.wild = FALSE => HasExtra(t, r, p, e.t, e.at)

LEMMA EnsureHolds ==
  ASSUME NEW t \in Cache, NEW r, Sound(t, r, {}), NEW p \in InTree(t, {}),
         NEW i \in DOMAIN t.page[p].children,
         p # r => KeyCount(t, p) >= MinDegree
  PROVE  Ensured(t, r, p, EnsureChildHasExtra(t, p, i))
  <1> DEFINE rich(j) == /\ j \in DOMAIN t.page[p].children
                        /\ KeyCount(t, Child(t, p, j)) >= MinDegree
             m == Len(t.page[p].children)
             e == EnsureChildHasExtra(t, p, i)
  <1>1. PICK by, at, level : SoundBy(t, r, {}, by, at, level)
    BY SoundIs
  <1>2. /\ DOMAIN t.page[p].children = 1..m /\ m \in Nat /\ i \in 1..m
        /\ t.page[p].children \in Seq(Nat)
    <2>1. t.page[p].children \in Seq(Nat)
      BY <1>1, PageFits, PagesOf
    <2> QED BY <2>1
  <1>3. \A j \in 1..m : Child(t, p, j) \in InTree(t, {}) /\ KeyCount(t, Child(t, p, j)) \in Nat
    <2> SUFFICES ASSUME NEW j \in 1..m
                 PROVE  Child(t, p, j) \in InTree(t, {}) /\ KeyCount(t, Child(t, p, j)) \in Nat
      OBVIOUS
    <2> DEFINE c == Child(t, p, j)
    <2>1. c \in InTree(t, {}) /\ c \in DOMAIN t.page
      BY <1>1, <1>2, ChildFits
    <2> HIDE DEF c
    <2>2. t.page[c].keys \in Seq(Int)
      BY <2>1, PagesOf
    <2>3. KeyCount(t, c) \in Nat
      BY <2>2 DEF KeyCount
    <2> QED BY <2>1, <2>3 DEF c
  <1>4. MinDegree \in Nat
    BY BTreeAssumption
  <1>5. \A j \in 1..m : ~rich(j) => KeyCount(t, Child(t, p, j)) < MinDegree
    <2> SUFFICES ASSUME NEW j \in 1..m, ~rich(j)
                 PROVE  KeyCount(t, Child(t, p, j)) < MinDegree
      OBVIOUS
    <2> DEFINE k == KeyCount(t, Child(t, p, j))
    <2>1. k \in Nat /\ ~(k >= MinDegree)
      BY <1>2, <1>3
    <2> HIDE DEF k
    <2>2. k < MinDegree
      BY <1>4, <2>1
    <2> QED BY <2>2 DEF k
  <1>6. CASE rich(i)
    <2>1. e = [t |-> t, at |-> i]
      BY <1>6 DEF EnsureChildHasExtra
    <2>2. HasExtra(t, r, p, t, i)
      BY <1>2, <1>3, <1>6, TracksSame DEF HasExtra
    <2> HIDE DEF e
    <2>3. Ensured(t, r, p, e)
      BY <2>1, <2>2 DEF Ensured
    <2> QED BY <2>3 DEF e
  <1>7. CASE ~rich(i) /\ rich(i - 1)
    <2>1. e = [t |-> BorrowFromPrev(t, p, i), at |-> i]
      BY <1>7 DEF EnsureChildHasExtra
    <2>2. KeyCount(t, Child(t, p, i)) < MinDegree
      BY <1>2, <1>5, <1>7
    <2>3. HasExtra(t, r, p, BorrowFromPrev(t, p, i), i)
      BY <1>7, <2>2, BorrowPrevHolds
    <2> HIDE DEF e
    <2>4. Ensured(t, r, p, e)
      BY <2>1, <2>3 DEF Ensured, HasExtra
    <2> QED BY <2>4 DEF e
  <1>8. CASE ~rich(i) /\ ~rich(i - 1) /\ rich(i + 1)
    <2>1. e = [t |-> BorrowFromNext(t, p, i), at |-> i]
      BY <1>8 DEF EnsureChildHasExtra
    <2>2. KeyCount(t, Child(t, p, i)) < MinDegree
      BY <1>2, <1>5, <1>8
    <2>3. HasExtra(t, r, p, BorrowFromNext(t, p, i), i)
      BY <1>8, <2>2, BorrowNextHolds
    <2> HIDE DEF e
    <2>4. Ensured(t, r, p, e)
      BY <2>1, <2>3 DEF Ensured, HasExtra
    <2> QED BY <2>4 DEF e
  <1>9. CASE ~rich(i) /\ ~rich(i - 1) /\ ~rich(i + 1) /\ i < m
    <2>1. e = [t |-> MergeChildren(t, p, i), at |-> i]
      BY <1>9 DEF EnsureChildHasExtra
    <2>2. i + 1 \in 1..m
      BY <1>2, <1>9
    <2>3. KeyCount(t, Child(t, p, i)) < MinDegree /\ KeyCount(t, Child(t, p, i + 1)) < MinDegree
      BY <1>2, <1>5, <1>9, <2>2
    <2>4. HasExtra(t, r, p, MergeChildren(t, p, i), i)
      BY <1>2, <2>2, <2>3, MergeHolds
    <2> HIDE DEF e
    <2>5. Ensured(t, r, p, e)
      BY <2>1, <2>4 DEF Ensured, HasExtra
    <2> QED BY <2>5 DEF e
  <1>10. CASE ~rich(i) /\ ~rich(i - 1) /\ ~rich(i + 1) /\ ~(i < m)
    <2> DEFINE j == i - 1
    <2>1. e = [t |-> MergeChildren(t, p, j), at |-> j]
      BY <1>10 DEF EnsureChildHasExtra
    <2> HIDE DEF e
    <2>2. CASE j = 0
      <3>1. e.t = [t EXCEPT !.wild = TRUE]
        BY <2>1, <2>2 DEF MergeChildren
      <3>2. e.t \in Cache /\ e.t.wild = TRUE
        BY <3>1 DEF Cache
      <3>3. Ensured(t, r, p, e)
        BY <3>2 DEF Ensured
      <3> QED BY <3>3 DEF e
    <2>3. CASE j # 0
      <3>1. j \in 1..m /\ j + 1 = i
        BY <1>2, <2>3
      <3>2. KeyCount(t, Child(t, p, j)) < MinDegree
        BY <1>5, <1>10, <3>1
      <3>3. KeyCount(t, Child(t, p, j + 1)) < MinDegree
        BY <1>2, <1>5, <1>10, <3>1
      <3>4. j \in DOMAIN t.page[p].children /\ j + 1 \in DOMAIN t.page[p].children
        BY <1>2, <3>1
      <3> HIDE DEF j
      <3>5. HasExtra(t, r, p, MergeChildren(t, p, j), j)
        BY <3>2, <3>3, <3>4, MergeHolds
      <3>6. Ensured(t, r, p, e)
        BY <2>1, <3>5 DEF Ensured, HasExtra
      <3> QED BY <3>6 DEF e
    <2> QED BY <2>2, <2>3
  <1> QED BY <1>6, <1>7, <1>8, <1>9, <1>10

\* A page of the tree that is not the root has a key.
LEMMA HasKeys ==
  ASSUME NEW t \in Cache, NEW r, Sound(t, r, {}), NEW q \in InTree(t, {}) \ {r}
  PROVE  Len(t.page[q].keys) \in Nat \ {0} /\ t.page[q].keys \in Seq(Int)
         /\ t.page[q].children \in Seq(Nat) /\ q \in DOMAIN t.page
  <1>1. PICK by, at, level : SoundBy(t, r, {}, by, at, level)
    BY SoundIs
  <1>2. q \in DOMAIN t.page /\ Fits(t, r, q)
    BY <1>1, PageFits
  <1>3. t.page[q].keys \in Seq(Int) /\ t.page[q].children \in Seq(Nat)
    BY <1>2, PagesOf
  <1>4. Len(t.page[q].keys) >= MinKeys
    BY <1>2 DEF Fits
  <1>5. MinKeys \in Nat \ {0}
    BY BTreeAssumption DEF MinKeys
  <1> QED BY <1>2, <1>3, <1>4, <1>5

LEMMA EndsAreKeys ==
  ASSUME NEW t \in Cache, NEW r, Sound(t, r, {}), NEW p \in InTree(t, {}) \ {r}
  PROVE  MinIn(t, p) \in Int /\ MaxIn(t, p) \in Int
  <1> DEFINE D == InTree(t, {}) \ {r}
             first == [q \in DOMAIN t.page |-> LET below == t.page[q].children
                                              IN  IF below = <<>> THEN q ELSE Head(below)]
             last == [q \in DOMAIN t.page |-> LET below == t.page[q].children
                                             IN  IF below = <<>> THEN q ELSE Last(below)]
             n == Len(t.page)
  <1>1. PICK by, at, level : SoundBy(t, r, {}, by, at, level)
    BY SoundIs
  <1>2. ASSUME NEW q \in D PROVE first[q] \in D /\ last[q] \in D
    <2> DEFINE below == t.page[q].children
    <2>1. q \in DOMAIN t.page /\ below \in Seq(Nat)
      BY HasKeys
    <2>2. first[q] = (IF below = <<>> THEN q ELSE Head(below))
          /\ last[q] = (IF below = <<>> THEN q ELSE Last(below))
      BY <2>1
    <2>3. \A i \in DOMAIN below : below[i] \in D
      <3> SUFFICES ASSUME NEW i \in DOMAIN below PROVE below[i] \in D
        OBVIOUS
      <3>1. Child(t, q, i) \in D
        BY <1>1, ChildFits
      <3> QED BY <3>1 DEF Child
    <2> HIDE DEF below, D, first, last
    <2>4. below # <<>> => Head(below) \in D /\ Last(below) \in D
      <3> SUFFICES ASSUME below # <<>> PROVE Head(below) \in D /\ Last(below) \in D
        OBVIOUS
      <3>1. 1 \in DOMAIN below /\ Len(below) \in DOMAIN below
        BY <2>1
      <3>2. Head(below) = below[1] /\ Last(below) = below[Len(below)]
        BY <2>1 DEF Last
      <3> QED BY <2>3, <3>1, <3>2
    <2> QED BY <2>2, <2>4
  <1>3. n \in Nat
    BY PagesOf
  <1>4. MinIn(t, p) = Head(t.page[Follow(first, p, n)].keys)
    BY DEF MinIn
  <1>5. MaxIn(t, p) = Last(t.page[Follow(last, p, n)].keys)
    BY DEF MaxIn
  <1> HIDE DEF first, last, n
  <1>6. Follow(first, p, n) \in D
    <2> HIDE DEF D
    <2>1. p \in D
      BY DEF D
    <2> QED BY <1>2, <1>3, <2>1, FollowStays
  <1>7. Follow(last, p, n) \in D
    <2> HIDE DEF D
    <2>1. p \in D
      BY DEF D
    <2> QED BY <1>2, <1>3, <2>1, FollowStays
  <1>8. MinIn(t, p) \in Int
    <2> DEFINE keys == t.page[Follow(first, p, n)].keys
    <2>1. Len(keys) \in Nat \ {0} /\ keys \in Seq(Int)
      BY <1>6, HasKeys
    <2> HIDE DEF keys
    <2>2. Head(keys) \in Int
      BY <2>1
    <2> QED BY <1>4, <2>2 DEF keys
  <1>9. MaxIn(t, p) \in Int
    <2> DEFINE keys == t.page[Follow(last, p, n)].keys
    <2>1. Len(keys) \in Nat \ {0} /\ keys \in Seq(Int)
      BY <1>7, HasKeys
    <2> HIDE DEF keys
    <2>2. Last(keys) \in Int
      BY <2>1 DEF Last
    <2> QED BY <1>5, <2>2 DEF keys
  <1> QED BY <1>8, <1>9

\* What it does to a cache to give a page other keys.
LEMMA Rekeying ==
  ASSUME NEW t \in Cache, NEW p \in DOMAIN t.page, NEW r, NEW keys \in Seq(Int),
         Len(keys) <= MaxKeys, p # r => Len(keys) >= MinKeys,
         t.page[p].kind = "internal" => Len(keys) = Len(t.page[p].keys),
         NEW s, s = MarkDirty([t EXCEPT !.page[p].keys = keys], {p})
  PROVE  Rekeys(t, r, p, keys, s) /\ Tracks(t, s) /\ s.wild = t.wild
  <1> DEFINE x == t.page[p]
             px == [x EXCEPT !.keys = keys]
             page1 == [t.page EXCEPT ![p] = px]
             marked == t.dirty \cup {p}
  <1>1. t.page \in Seq(Page) /\ x \in Page /\ p \in Nat
    BY PagesOf
  <1>2. /\ px \in Page /\ px.keys = keys /\ px.children = x.children
        /\ px.kind = x.kind /\ px.link = x.link
    <2> HIDE DEF x
    <2> QED BY <1>1 DEF Page
  <1>3. marked \in SUBSET Nat
    BY <1>1 DEF Cache
  <1>4. s = [t EXCEPT !.page = page1, !.dirty = marked]
    BY DEF MarkDirty, Cache
  <1> HIDE DEF px, marked
  <1>5. page1 \in Seq(Page) /\ DOMAIN page1 = DOMAIN t.page /\ page1[p] = px
        /\ \A q \in DOMAIN t.page \ {p} : page1[q] = t.page[q]
    BY <1>1, <1>2
  <1> HIDE DEF page1
  <1>6. /\ s \in Cache /\ s.page = page1 /\ s.dirty = marked
        /\ s.free = t.free /\ s.wild = t.wild /\ s.header = t.header
    BY <1>3, <1>4, <1>5 DEF Cache
  <1>7. Rekeys(t, r, p, keys, s)
    BY <1>2, <1>5, <1>6 DEF Rekeys
  <1>8. Tracks(t, s)
    BY <1>5, <1>6 DEF Tracks, marked
  <1> QED BY <1>6, <1>7, <1>8

-----------------------------------------------------------------------------
(* Insertion, pass by pass.                                                *)

Calls == [todo : {"insert_nonfull", "inserted", "remove_from", "removed", "absent",
                  "shrink_root", "shrunk"},
          t : Cache, at : Nat, key : Int]

\* Calls insert_nonfull comes to, from the cache t: the page it is at has room.
IsInsert(t, r, c) ==
    /\ Sound(c.t, r, {}) /\ Tracks(t, c.t) /\ c.t.wild = t.wild
    /\ c.todo \in {"insert_nonfull", "inserted"}
    /\ c.todo = "insert_nonfull" =>
          c.at \in InTree(c.t, {}) /\ KeyCount(c.t, c.at) < MaxKeys

Inserts(t, r) == {c \in Calls : IsInsert(t, r, c)}

FillsLeaf(c, u, r, p, i, keys, s) ==
    /\ InsertNonfull(c) = [c EXCEPT !.t = s, !.todo = "inserted"]
    /\ HasInserted(Int, u.page[p].keys, i, c.key, keys)
    /\ i \in 1..Len(u.page[p].keys) + 1
    /\ u.page[p].keys \in Seq(Int)
    /\ Rekeys(u, r, p, keys, s) /\ Tracks(u, s) /\ s.wild = u.wild

LEMMA InsertRekeys ==
  ASSUME NEW t, NEW r, NEW c \in Inserts(t, r), c.todo = "insert_nonfull",
         IsLeaf(c.t, c.at),
         NEW i, i = LowerBound(c.t, c.at, c.key),
         NEW keys, keys = InsertAt(c.t.page[c.at].keys, i, c.key),
         NEW s, s = MarkDirty([c.t EXCEPT !.page[c.at].keys = keys], {c.at})
  PROVE  FillsLeaf(c, c.t, r, c.at, i, keys, s)
  <1> DEFINE u == c.t
             p == c.at
             d == InsertNonfull(c)
  <1>1. /\ u \in Cache /\ Sound(u, r, {}) /\ Tracks(t, u) /\ u.wild = t.wild
        /\ p \in InTree(u, {}) /\ KeyCount(u, p) < MaxKeys
    BY DEF Inserts, IsInsert, Calls
  <1>2. c \in Calls /\ c.key \in Int
    BY DEF Inserts, Calls
  <1>3. d = [c EXCEPT !.t = s, !.todo = "inserted"]
    BY DEF InsertNonfull
  <1> HIDE DEF d, u, p
  <1>4. PICK by, at, level : SoundBy(u, r, {}, by, at, level)
    BY <1>1, SoundIs
  <1>5. /\ p \in DOMAIN u.page /\ Fits(u, r, p)
        /\ u.page[p].kind \in {"leaf", "internal"}
    BY <1>1, <1>4, PageFits
  <1>6. u.page[p].kind = "leaf"
    BY DEF IsLeaf, u, p
  <1>7. u.page[p].keys \in Seq(Int) /\ keys = InsertAt(u.page[p].keys, i, c.key)
    BY <1>1, <1>5, PagesOf DEF u, p
  <1>8. i \in 1..Len(u.page[p].keys) + 1
    <2>1. i = LowerBound(u, p, c.key)
      BY DEF u, p
    <2> QED BY <1>1, <1>5, <2>1, BoundInPage DEF KeyCount
  <1>9. keys \in Seq(Int) /\ Len(keys) = Len(u.page[p].keys) + 1
        /\ HasInserted(Int, u.page[p].keys, i, c.key, keys)
    <2>1. HasInserted(Int, u.page[p].keys, i, c.key, keys)
      BY <1>2, <1>7, <1>8, Inserting
    <2> QED BY <2>1 DEF HasInserted
  <1>10. Len(keys) <= MaxKeys /\ (p # r => Len(keys) >= MinKeys)
    <2>1. p # r => Len(u.page[p].keys) >= MinKeys
      BY <1>5 DEF Fits
    <2>2. Len(u.page[p].keys) \in Nat /\ Len(u.page[p].keys) < MaxKeys
      BY <1>1, <1>7 DEF KeyCount
    <2>3. MinKeys \in Nat /\ MaxKeys \in Nat
      BY BTreeAssumption DEF MinKeys, MaxKeys
    <2> QED BY <1>9, <2>1, <2>2, <2>3
  <1>11. Rekeys(u, r, p, keys, s) /\ Tracks(u, s) /\ s.wild = u.wild
    <2> DEFINE s1 == MarkDirty([u EXCEPT !.page[p].keys = keys], {p})
    <2>1. s = s1
      BY DEF u, p
    <2> HIDE DEF s1
    <2>2. Rekeys(u, r, p, keys, s1) /\ Tracks(u, s1) /\ s1.wild = u.wild
      BY ONLY <1>1, <1>5, <1>6, <1>9, <1>10, Rekeying DEF s1
    <2> QED BY <2>1, <2>2
  <1>12. FillsLeaf(c, u, r, p, i, keys, s)
    BY <1>3, <1>7, <1>8, <1>9, <1>11, Zenon DEF FillsLeaf, d
  <1> QED BY <1>12 DEF u, p

LEMMA InsertLeaf ==
  ASSUME NEW t, NEW r, NEW c \in Inserts(t, r), c.todo = "insert_nonfull",
         IsLeaf(c.t, c.at)
  PROVE  InsertNonfull(c) \in Inserts(t, r)
  <1> DEFINE u == c.t
             p == c.at
             i == LowerBound(u, p, c.key)
             keys == InsertAt(u.page[p].keys, i, c.key)
             s == MarkDirty([u EXCEPT !.page[p].keys = keys], {p})
             d == InsertNonfull(c)
  <1>1. /\ u \in Cache /\ Sound(u, r, {}) /\ Tracks(t, u) /\ u.wild = t.wild
        /\ p \in InTree(u, {}) /\ c \in Calls
    BY DEF Inserts, IsInsert, Calls
  <1>2. d = [c EXCEPT !.t = s, !.todo = "inserted"]
    BY DEF InsertNonfull
  <1>3. Rekeys(u, r, p, keys, s) /\ Tracks(u, s) /\ s.wild = u.wild
    <2>1. PICK s1 : s1 = s
      OBVIOUS
    <2>2. PICK keys1 : keys1 = keys
      OBVIOUS
    <2>3. s1 = MarkDirty([c.t EXCEPT !.page[c.at].keys = keys1], {c.at})
      BY <2>1, <2>2
    <2>4. PICK i1 : i1 = LowerBound(c.t, c.at, c.key)
      OBVIOUS
    <2>5. keys1 = InsertAt(c.t.page[c.at].keys, i1, c.key)
      BY <2>2, <2>4
    <2>6. FillsLeaf(c, c.t, r, c.at, i1, keys1, s1)
      BY <2>3, <2>4, <2>5, InsertRekeys
    <2>7. Rekeys(u, r, p, keys1, s1) /\ Tracks(u, s1) /\ s1.wild = u.wild
      BY <2>6, Zenon DEF FillsLeaf
    <2> QED BY <2>1, <2>2, <2>7
  <1> HIDE DEF d, u, p, s
  <1>4. Kept(u, r, s)
    BY <1>1, <1>3, RekeyHolds
  <1>5. s \in Cache /\ Sound(s, r, {}) /\ Tracks(t, s) /\ s.wild = t.wild
    BY <1>1, <1>3, <1>4, TracksOn DEF Kept
  <1>6. d \in Calls /\ d.t = s /\ d.todo = "inserted"
    BY <1>1, <1>2, <1>5 DEF Calls
  <1>7. d \in Inserts(t, r)
    BY <1>5, <1>6 DEF Inserts, IsInsert
  <1> QED BY <1>7 DEF d

LEMMA InsertBelow ==
  ASSUME NEW t, NEW r, NEW c \in Inserts(t, r), c.todo = "insert_nonfull",
         ~IsLeaf(c.t, c.at)
  PROVE  InsertNonfull(c) \in Inserts(t, r)
  <1> DEFINE u == c.t
             p == c.at
             i == LowerBound(u, p, c.key)
             x == Child(u, p, i)
             s == SplitChild(u, p, i)
             j == IF s.page[p].keys[i] < c.key THEN i + 1 ELSE i
             d == InsertNonfull(c)
  <1>1. /\ u \in Cache /\ Sound(u, r, {}) /\ Tracks(t, u) /\ u.wild = t.wild
        /\ p \in InTree(u, {}) /\ KeyCount(u, p) < MaxKeys
    BY DEF Inserts, IsInsert, Calls
  <1>2. c \in Calls
    BY DEF Inserts
  <1>3. d = IF KeyCount(u, x) = MaxKeys
            THEN [c EXCEPT !.t = s, !.at = Child(s, p, j)]
            ELSE [c EXCEPT !.at = x]
    BY DEF InsertNonfull
  <1>4. PICK by, at, level : SoundBy(u, r, {}, by, at, level)
    BY <1>1, SoundIs
  <1>5. i \in DOMAIN u.page[p].children
    <2> HIDE DEF u, p, i
    <2>1. /\ p \in DOMAIN u.page /\ Fits(u, r, p)
          /\ u.page[p].kind \in {"leaf", "internal"}
      BY <1>1, <1>4, PageFits
    <2>2. u.page[p].kind = "internal"
      BY <2>1 DEF IsLeaf, u, p
    <2>3. Len(u.page[p].children) = Len(u.page[p].keys) + 1
      BY <2>1, <2>2 DEF Fits
    <2>4. i \in 1..Len(u.page[p].keys) + 1
      BY <1>1, <2>1, BoundInPage DEF KeyCount, i
    <2>5. u.page[p].children \in Seq(Nat)
      BY <1>1, <2>1, PagesOf
    <2> QED BY <2>3, <2>4, <2>5
  <1>6. x \in InTree(u, {}) /\ x \in DOMAIN u.page
    BY <1>1, <1>4, <1>5, ChildFits
  <1> HIDE DEF d, u, p, i, s, j
  <1>7. MinKeys \in Nat /\ MaxKeys \in Nat /\ MinKeys < MaxKeys
    BY BTreeAssumption DEF MinKeys, MaxKeys
  <1>8. CASE KeyCount(u, x) = MaxKeys
    <2>1. SplitDone(u, r, p, i, s)
      BY <1>1, <1>5, <1>8, SplitHolds DEF s
    <2>2. /\ s \in Cache /\ Sound(s, r, {}) /\ Tracks(t, s) /\ s.wild = t.wild
      BY <1>1, <2>1, TracksOn DEF SplitDone
    <2>3. j \in {i, i + 1}
      BY DEF j
    <2> DEFINE y == Child(s, p, j)
    <2>4. y \in InTree(s, {}) /\ KeyCount(s, y) = MinKeys
      BY <2>1, <2>3 DEF SplitDone
    <2> HIDE DEF y
    <2>5. y \in Nat
      BY <2>2, <2>4, PagesOf DEF InTree
    <2>6. d = [c EXCEPT !.t = s, !.at = y]
      BY <1>3, <1>8 DEF y
    <2>7. d \in Calls /\ d.t = s /\ d.at = y /\ d.todo = "insert_nonfull"
      BY <1>2, <2>2, <2>5, <2>6 DEF Calls
    <2>8. KeyCount(d.t, d.at) < MaxKeys
      BY <1>7, <2>4, <2>7
    <2>9. d \in Inserts(t, r)
      BY <2>2, <2>4, <2>7, <2>8 DEF Inserts, IsInsert
    <2> QED BY <2>9 DEF d
  <1>9. CASE KeyCount(u, x) # MaxKeys
    <2> HIDE DEF x
    <2>1. KeyCount(u, x) < MaxKeys
      <3>1. Fits(u, r, x) /\ u.page[x].keys \in Seq(Int)
        BY <1>1, <1>4, <1>6, PageFits, PagesOf
      <3>2. KeyCount(u, x) \in Nat /\ KeyCount(u, x) <= MaxKeys
        BY <3>1 DEF Fits, KeyCount
      <3> QED BY <1>7, <1>9, <3>2
    <2>2. d = [c EXCEPT !.at = x]
      BY <1>3, <1>9 DEF x
    <2>3. x \in Nat
      BY <1>1, <1>6, PagesOf
    <2>4. d \in Calls /\ d.t = u /\ d.at = x /\ d.todo = "insert_nonfull"
      BY <1>2, <2>2, <2>3 DEF Calls, u
    <2>5. d \in Inserts(t, r)
      BY <1>1, <1>6, <2>1, <2>4 DEF Inserts, IsInsert
    <2> QED BY <2>5 DEF d
  <1> QED BY <1>8, <1>9

\* What a call of insert_nonfull returns.
LEMMA InsertCallHolds ==
  ASSUME NEW t \in Cache, NEW r, Sound(t, r, {}), NEW p \in InTree(t, {}),
         KeyCount(t, p) < MaxKeys, NEW k \in Int
  PROVE  Call("insert_nonfull", t, p, k) \in Inserts(t, r)
  <1> DEFINE D == Inserts(t, r)
             c == [todo |-> "insert_nonfull", t |-> t, at |-> p, key |-> k]
             n == Len(t.page)
  <1>1. p \in Nat /\ n \in Nat
    BY PagesOf DEF InTree
  <1>2. c \in Calls /\ c.t = t /\ c.at = p /\ c.todo = "insert_nonfull"
    BY <1>1 DEF Calls
  <1> HIDE DEF c, n
  <1>3. c \in D
    BY <1>2, TracksSame DEF Inserts, IsInsert
  <1>4. ASSUME NEW x \in D PROVE Pass(x) \in D
    <2>1. x.todo \in {"insert_nonfull", "inserted"}
      BY DEF Inserts, IsInsert
    <2>2. CASE x.todo = "inserted"
      BY <2>2 DEF Pass
    <2>3. CASE x.todo = "insert_nonfull"
      <3>1. Pass(x) = InsertNonfull(x)
        BY <2>3 DEF Pass
      <3>2. InsertNonfull(x) \in D
        BY <2>3, InsertLeaf, InsertBelow
      <3> QED BY <3>1, <3>2
    <2> QED BY <2>1, <2>2, <2>3
  <1> HIDE DEF D
  <1>5. Passes(c, n) \in D
    BY <1>1, <1>3, <1>4, PassesStay
  <1> QED BY <1>5 DEF Call, c, n, D

-----------------------------------------------------------------------------
(* Removal, pass by pass.                                                  *)

\* Calls remove_from comes to, from the cache t: the page it is at is the root
\* or has a key to spare.
IsRemove(t, r, c) ==
    /\ c.todo \in {"remove_from", "removed", "absent"}
    /\ c.todo # "absent" => c.t.wild = FALSE
    /\ c.t.wild = FALSE => Sound(c.t, r, {}) /\ Tracks(t, c.t)
    /\ c.todo = "remove_from" =>
          /\ c.at \in InTree(c.t, {})
          /\ c.at # r => KeyCount(c.t, c.at) >= MinDegree

Removes(t, r) == {c \in Calls : IsRemove(t, r, c)}

\* The call goes on at x in s.
GoesOn(c, r, s, x, d) ==
    /\ s \in Cache /\ Sound(s, r, {}) /\ Tracks(c.t, s) /\ s.wild = c.t.wild
    /\ x \in InTree(s, {}) /\ KeyCount(s, x) >= MinDegree
    /\ d.t = s /\ d.at = x /\ d.todo = c.todo /\ d.key \in Int
    /\ d = [todo |-> d.todo, t |-> d.t, at |-> d.at, key |-> d.key]

LEMMA RemoveGoesOn ==
  ASSUME NEW t, NEW r, NEW c \in Removes(t, r), c.todo = "remove_from",
         NEW s, NEW x, NEW d, GoesOn(c, r, s, x, d)
  PROVE  d \in Removes(t, r)
  <1>1. /\ s \in Cache /\ Sound(s, r, {}) /\ Tracks(c.t, s) /\ s.wild = c.t.wild
        /\ x \in InTree(s, {}) /\ KeyCount(s, x) >= MinDegree
        /\ d.t = s /\ d.at = x /\ d.todo = "remove_from" /\ d.key \in Int
        /\ d = [todo |-> d.todo, t |-> d.t, at |-> d.at, key |-> d.key]
    BY DEF GoesOn
  <1>2. Tracks(t, c.t) /\ c.t.wild = FALSE
    BY DEF Removes, IsRemove
  <1>3. Tracks(t, s)
    BY <1>1, <1>2, TracksOn
  <1>4. x \in Nat
    BY <1>1, PagesOf DEF InTree
  <1>5. d \in Calls
    BY <1>1, <1>4 DEF Calls
  <1> QED BY <1>1, <1>2, <1>3, <1>5 DEF Removes, IsRemove

\* What a page remove_from comes to is like.
AtPage(u, r, p, c) ==
    /\ u \in Cache /\ Sound(u, r, {}) /\ u.wild = FALSE
    /\ c \in Calls /\ c.t = u /\ c.at = p /\ c.key \in Int
    /\ p \in InTree(u, {}) /\ p \in DOMAIN u.page /\ Fits(u, r, p)
    /\ p # r => KeyCount(u, p) >= MinDegree
    /\ u.page[p].keys \in Seq(Int) /\ u.page[p].children \in Seq(Nat)
    /\ KeyCount(u, p) = Len(u.page[p].keys)
    /\ LowerBound(u, p, c.key) \in 1..Len(u.page[p].keys) + 1
    /\ ~IsLeaf(u, p) => /\ Len(u.page[p].children) = Len(u.page[p].keys) + 1
                        /\ LowerBound(u, p, c.key) \in DOMAIN u.page[p].children

LEMMA RemoveAtPage ==
  ASSUME NEW t, NEW r, NEW c \in Removes(t, r), c.todo = "remove_from"
  PROVE  AtPage(c.t, r, c.at, c)
  <1> DEFINE u == c.t
             p == c.at
  <1>1. /\ u \in Cache /\ Sound(u, r, {}) /\ u.wild = FALSE
        /\ c \in Calls /\ c.key \in Int
        /\ p \in InTree(u, {})
        /\ p # r => KeyCount(u, p) >= MinDegree
    BY DEF Removes, IsRemove, Calls
  <1> HIDE DEF u, p
  <1>2. PICK by, at, level : SoundBy(u, r, {}, by, at, level)
    BY <1>1, SoundIs
  <1>3. /\ p \in DOMAIN u.page /\ Fits(u, r, p)
        /\ u.page[p].kind \in {"leaf", "internal"}
    BY <1>1, <1>2, PageFits
  <1>4. u.page[p].keys \in Seq(Int) /\ u.page[p].children \in Seq(Nat)
    BY <1>1, <1>3, PagesOf
  <1>5. LowerBound(u, p, c.key) \in 1..Len(u.page[p].keys) + 1
    BY <1>1, <1>3, BoundInPage DEF KeyCount
  <1>6. ASSUME ~IsLeaf(u, p)
        PROVE  /\ Len(u.page[p].children) = Len(u.page[p].keys) + 1
               /\ LowerBound(u, p, c.key) \in DOMAIN u.page[p].children
    <2>1. u.page[p].kind = "internal"
      BY <1>3, <1>6 DEF IsLeaf
    <2>2. Len(u.page[p].children) = Len(u.page[p].keys) + 1
      BY <1>3, <2>1 DEF Fits
    <2> QED BY <1>4, <1>5, <2>2
  <1>7. AtPage(u, r, p, c)
    BY <1>1, <1>3, <1>4, <1>5, <1>6 DEF AtPage, KeyCount, u, p
  <1> QED BY <1>7 DEF u, p

\* The key is in a leaf: place i of its keys is taken out.
LeavesLeaf(c, u, r, p, i, keys, s) ==
    /\ RemoveFrom(c) = [c EXCEPT !.t = s, !.todo = "removed"]
    /\ u.page[p].keys \in Seq(Int) /\ i \in 1..Len(u.page[p].keys)
    /\ u.page[p].keys[i] = c.key
    /\ HasRemoved(Int, u.page[p].keys, i, keys)
    /\ Rekeys(u, r, p, keys, s) /\ Tracks(u, s) /\ s.wild = u.wild

LEMMA RemoveRekeys ==
  ASSUME NEW t, NEW r, NEW c \in Removes(t, r), c.todo = "remove_from",
         IsLeaf(c.t, c.at),
         NEW i, i = LowerBound(c.t, c.at, c.key), HasKeyAt(c.t, c.at, i, c.key),
         NEW keys, keys = RemoveAt(c.t.page[c.at].keys, i),
         NEW s, s = MarkDirty([c.t EXCEPT !.page[c.at].keys = keys], {c.at})
  PROVE  LeavesLeaf(c, c.t, r, c.at, i, keys, s)
  <1> DEFINE u == c.t
             p == c.at
  <1>1. RemoveFrom(c) = [c EXCEPT !.t = s, !.todo = "removed"]
    BY DEF RemoveFrom
  <1>2. AtPage(u, r, p, c)
    BY RemoveAtPage
  <1>3. u.page[p].kind = "leaf" /\ i <= KeyCount(u, p) /\ u.page[p].keys[i] = c.key
    BY DEF IsLeaf, HasKeyAt
  <1>4. s = MarkDirty([u EXCEPT !.page[p].keys = keys], {p})
        /\ keys = RemoveAt(u.page[p].keys, i) /\ i = LowerBound(u, p, c.key)
    OBVIOUS
  <1> HIDE DEF u, p
  <1>5. u.page[p].keys \in Seq(Int) /\ i \in 1..Len(u.page[p].keys)
    BY <1>2, <1>3, <1>4 DEF AtPage
  <1>6. HasRemoved(Int, u.page[p].keys, i, keys)
    BY <1>4, <1>5, Removing
  <1>7. keys \in Seq(Int) /\ Len(keys) = Len(u.page[p].keys) - 1
    BY <1>6 DEF HasRemoved
  <1>8. Len(keys) <= MaxKeys /\ (p # r => Len(keys) >= MinKeys)
    <2>1. Len(u.page[p].keys) \in Nat /\ Len(u.page[p].keys) <= MaxKeys
      BY <1>2 DEF AtPage, Fits
    <2>2. p # r => Len(u.page[p].keys) >= MinDegree
      BY <1>2 DEF AtPage, KeyCount
    <2>3. MinDegree \in Nat /\ MinKeys = MinDegree - 1 /\ MaxKeys \in Nat
      BY BTreeAssumption DEF MinKeys, MaxKeys
    <2> QED BY <1>7, <2>1, <2>2, <2>3
  <1>9. Rekeys(u, r, p, keys, s) /\ Tracks(u, s) /\ s.wild = u.wild
    <2>1. u \in Cache /\ p \in DOMAIN u.page
      BY <1>2 DEF AtPage
    <2> QED BY <1>3, <1>4, <1>7, <1>8, <2>1, Rekeying
  <1>10. LeavesLeaf(c, u, r, p, i, keys, s)
    BY <1>1, <1>3, <1>5, <1>6, <1>9, Zenon DEF LeavesLeaf
  <1> QED BY <1>10 DEF u, p

LEMMA RemoveFromLeaf ==
  ASSUME NEW t, NEW r, NEW c \in Removes(t, r), c.todo = "remove_from",
         IsLeaf(c.t, c.at),
         HasKeyAt(c.t, c.at, LowerBound(c.t, c.at, c.key), c.key)
  PROVE  RemoveFrom(c) \in Removes(t, r)
  <1> DEFINE u == c.t
             p == c.at
             d == RemoveFrom(c)
  <1>1. PICK i : i = LowerBound(u, p, c.key)
    OBVIOUS
  <1>2. PICK keys : keys = RemoveAt(u.page[p].keys, i)
    OBVIOUS
  <1>3. PICK s : s = MarkDirty([u EXCEPT !.page[p].keys = keys], {p})
    OBVIOUS
  <1>4. LeavesLeaf(c, u, r, p, i, keys, s)
    BY <1>1, <1>2, <1>3, RemoveRekeys
  <1>5. AtPage(u, r, p, c) /\ Tracks(t, u)
    BY RemoveAtPage DEF Removes, IsRemove
  <1> HIDE DEF u, p, d
  <1>6. /\ RemoveFrom(c) = [c EXCEPT !.t = s, !.todo = "removed"]
        /\ Rekeys(u, r, p, keys, s) /\ Tracks(u, s) /\ s.wild = u.wild
    BY <1>4, Zenon DEF LeavesLeaf
  <1>7. Kept(u, r, s)
    BY <1>5, <1>6, RekeyHolds DEF AtPage
  <1>8. s \in Cache /\ Sound(s, r, {}) /\ Tracks(t, s) /\ s.wild = FALSE
    BY <1>5, <1>6, <1>7, TracksOn DEF Kept, AtPage
  <1>9. d \in Calls /\ d.t = s /\ d.todo = "removed"
    BY <1>5, <1>6, <1>8 DEF Calls, AtPage, d
  <1>10. d \in Removes(t, r)
    BY <1>8, <1>9 DEF Removes, IsRemove
  <1> QED BY <1>10 DEF d

\* A key of an internal page gives way to another.
LEMMA Replacing ==
  ASSUME NEW u, NEW r, NEW p, NEW c, AtPage(u, r, p, c),
         NEW i \in 1..KeyCount(u, p), NEW k \in Int,
         NEW x \in InTree(u, {}) \ {p}, KeyCount(u, x) >= MinDegree,
         NEW keys, keys = [u.page[p].keys EXCEPT ![i] = k],
         NEW s, s = MarkDirty([u EXCEPT !.page[p].keys[i] = k], {p})
  PROVE  /\ Rekeys(u, r, p, keys, s)
         /\ s \in Cache /\ Sound(s, r, {}) /\ Tracks(u, s) /\ s.wild = u.wild
         /\ x \in InTree(s, {}) /\ KeyCount(s, x) >= MinDegree
  <1>1. /\ u \in Cache /\ Sound(u, r, {}) /\ p \in DOMAIN u.page /\ p \in InTree(u, {})
        /\ u.page[p].keys \in Seq(Int) /\ i \in 1..Len(u.page[p].keys) /\ Fits(u, r, p)
    BY DEF AtPage
  <1>2. keys \in Seq(Int) /\ Len(keys) = Len(u.page[p].keys)
    BY <1>1
  <1>3. s = MarkDirty([u EXCEPT !.page[p].keys = keys], {p})
    <2>1. [u EXCEPT !.page[p].keys[i] = k] =
             [u EXCEPT !.page[p].keys = [u.page[p].keys EXCEPT ![i] = k]]
      BY ZenonT(60)
    <2>2. [u EXCEPT !.page[p].keys[i] = k] = [u EXCEPT !.page[p].keys = keys]
      BY ONLY <2>1, keys = [u.page[p].keys EXCEPT ![i] = k], Zenon
    <2> QED BY ONLY <2>2, s = MarkDirty([u EXCEPT !.page[p].keys[i] = k], {p}), Zenon
  <1>4. Len(keys) <= MaxKeys /\ (p # r => Len(keys) >= MinKeys)
    BY <1>1, <1>2 DEF Fits
  <1>5. Rekeys(u, r, p, keys, s) /\ Tracks(u, s) /\ s.wild = u.wild
    BY ONLY <1>1, <1>2, <1>3, <1>4, Rekeying, ZenonT(60)
  <1>6. Kept(u, r, s)
    BY <1>1, <1>5, RekeyHolds
  <1>7. s.page[x] = u.page[x]
    BY <1>5 DEF Rekeys, InTree
  <1> QED BY <1>5, <1>6, <1>7 DEF Kept, KeyCount

\* The key is in an internal page.
LEMMA RemoveReplaces ==
  ASSUME NEW t, NEW r, NEW c \in Removes(t, r), c.todo = "remove_from",
         ~IsLeaf(c.t, c.at),
         HasKeyAt(c.t, c.at, LowerBound(c.t, c.at, c.key), c.key)
  PROVE  RemoveFrom(c) \in Removes(t, r)
  <1> DEFINE u == c.t
             p == c.at
             i == LowerBound(u, p, c.key)
             x == Child(u, p, i)
             y == Child(u, p, i + 1)
             s(k) == MarkDirty([u EXCEPT !.page[p].keys[i] = k], {p})
             d == RemoveFrom(c)
  <1>1. d = IF KeyCount(u, x) >= MinDegree
            THEN [c EXCEPT !.t = s(MaxIn(u, x)), !.at = x, !.key = MaxIn(u, x)]
            ELSE IF KeyCount(u, y) >= MinDegree
            THEN [c EXCEPT !.t = s(MinIn(u, y)), !.at = y, !.key = MinIn(u, y)]
            ELSE [c EXCEPT !.t = MergeChildren(u, p, i), !.at = x]
    BY DEF RemoveFrom
  <1>2. AtPage(u, r, p, c)
    BY RemoveAtPage
  <1>3. i <= KeyCount(u, p) /\ ~IsLeaf(u, p)
    BY DEF HasKeyAt
  <1> HIDE DEF u, p, i, d
  <1>4. /\ u \in Cache /\ Sound(u, r, {}) /\ p \in InTree(u, {})
        /\ p # r => KeyCount(u, p) >= MinDegree
        /\ c \in Calls /\ c.t = u /\ c.key \in Int
    BY <1>2 DEF AtPage
  <1>5. /\ i \in 1..KeyCount(u, p)
        /\ i \in DOMAIN u.page[p].children /\ i + 1 \in DOMAIN u.page[p].children
    BY <1>2, <1>3 DEF AtPage, i
  <1>6. PICK by, at, level : SoundBy(u, r, {}, by, at, level)
    BY <1>4, SoundIs
  <1>7. /\ x \in InTree(u, {}) /\ x # p /\ x # r /\ x \in DOMAIN u.page
        /\ y \in InTree(u, {}) /\ y # p /\ y # r /\ y \in DOMAIN u.page
    <2> DEFINE j == i + 1
    <2>1. j \in DOMAIN u.page[p].children
      BY <1>5
    <2> HIDE DEF j
    <2>2. /\ Child(u, p, j) \in InTree(u, {}) /\ Child(u, p, j) # p /\ Child(u, p, j) # r
          /\ Child(u, p, j) \in DOMAIN u.page
      BY <1>4, <1>6, <2>1, ChildFits
    <2>3. x \in InTree(u, {}) /\ x # p /\ x # r /\ x \in DOMAIN u.page
      BY <1>4, <1>5, <1>6, ChildFits
    <2> QED BY <2>2, <2>3 DEF j
  <1> HIDE DEF x, y, s
  <1>8. KeyCount(u, x) \in Nat /\ KeyCount(u, y) \in Nat
    BY <1>4, <1>7, PagesOf DEF KeyCount
  <1>9. CASE KeyCount(u, x) >= MinDegree
    <2> DEFINE k == MaxIn(u, x)
    <2>1. k \in Int
      BY <1>4, <1>7, EndsAreKeys
    <2>2. d = [c EXCEPT !.t = s(k), !.at = x, !.key = k]
      BY <1>1, <1>9
    <2> HIDE DEF k
    <2> DEFINE keys == [u.page[p].keys EXCEPT ![i] = k]
    <2>3. /\ Rekeys(u, r, p, keys, s(k))
          /\ s(k) \in Cache /\ Sound(s(k), r, {}) /\ Tracks(u, s(k)) /\ s(k).wild = u.wild
          /\ x \in InTree(s(k), {}) /\ KeyCount(s(k), x) >= MinDegree
      BY <1>2, <1>5, <1>7, <1>9, <2>1, Replacing DEF s
    <2>4. GoesOn(c, r, s(k), x, d)
      BY <1>4, <2>1, <2>2, <2>3 DEF GoesOn, Calls
    <2>5. d \in Removes(t, r)
      BY <2>4, RemoveGoesOn
    <2> QED BY <2>5 DEF d
  <1>10. CASE ~(KeyCount(u, x) >= MinDegree) /\ KeyCount(u, y) >= MinDegree
    <2> DEFINE k == MinIn(u, y)
    <2>1. k \in Int
      BY <1>4, <1>7, EndsAreKeys
    <2>2. d = [c EXCEPT !.t = s(k), !.at = y, !.key = k]
      BY <1>1, <1>10
    <2> HIDE DEF k
    <2> DEFINE keys == [u.page[p].keys EXCEPT ![i] = k]
    <2>3. /\ Rekeys(u, r, p, keys, s(k))
          /\ s(k) \in Cache /\ Sound(s(k), r, {}) /\ Tracks(u, s(k)) /\ s(k).wild = u.wild
          /\ y \in InTree(s(k), {}) /\ KeyCount(s(k), y) >= MinDegree
      BY <1>2, <1>5, <1>7, <1>10, <2>1, Replacing DEF s
    <2>4. GoesOn(c, r, s(k), y, d)
      BY <1>4, <2>1, <2>2, <2>3 DEF GoesOn, Calls
    <2>5. d \in Removes(t, r)
      BY <2>4, RemoveGoesOn
    <2> QED BY <2>5 DEF d
  <1>11. CASE ~(KeyCount(u, x) >= MinDegree) /\ ~(KeyCount(u, y) >= MinDegree)
    <2> DEFINE m == MergeChildren(u, p, i)
    <2>1. d = [c EXCEPT !.t = m, !.at = x]
      BY <1>1, <1>11
    <2>2. KeyCount(u, x) < MinDegree /\ KeyCount(u, y) < MinDegree
      BY <1>8, <1>11, BTreeAssumption
    <2>3. HasExtra(u, r, p, m, i) /\ Child(m, p, i) = x
      BY <1>4, <1>5, <2>2, MergeHolds DEF x, y
    <2> HIDE DEF m
    <2>4. GoesOn(c, r, m, x, d)
      BY <1>4, <2>1, <2>3 DEF GoesOn, Calls, HasExtra
    <2>5. d \in Removes(t, r)
      BY <2>4, RemoveGoesOn
    <2> QED BY <2>5 DEF d
  <1> QED BY <1>9, <1>10, <1>11

\* The key is not in the page.
LEMMA RemoveBelow ==
  ASSUME NEW t, NEW r, NEW c \in Removes(t, r), c.todo = "remove_from",
         ~HasKeyAt(c.t, c.at, LowerBound(c.t, c.at, c.key), c.key)
  PROVE  RemoveFrom(c) \in Removes(t, r)
  <1> DEFINE u == c.t
             p == c.at
             i == LowerBound(u, p, c.key)
             e == EnsureChildHasExtra(u, p, i)
             d == RemoveFrom(c)
  <1>1. d = IF IsLeaf(u, p) THEN [c EXCEPT !.todo = "absent"]
            ELSE IF e.t.wild THEN [c EXCEPT !.t = e.t, !.todo = "absent"]
            ELSE [c EXCEPT !.t = e.t, !.at = Child(e.t, p, e.at)]
    BY DEF RemoveFrom
  <1>2. AtPage(u, r, p, c) /\ Tracks(t, u)
    BY RemoveAtPage DEF Removes, IsRemove
  <1> HIDE DEF u, p, d
  <1>3. /\ u \in Cache /\ Sound(u, r, {}) /\ p \in InTree(u, {}) /\ u.wild = FALSE
        /\ p # r => KeyCount(u, p) >= MinDegree
        /\ c \in Calls /\ c.t = u /\ c.key \in Int
    BY <1>2 DEF AtPage
  <1>4. CASE IsLeaf(u, p)
    <2>1. d = [c EXCEPT !.todo = "absent"]
      BY <1>1, <1>4
    <2>2. d \in Calls /\ d.t = u /\ d.todo = "absent"
      BY <1>3, <2>1 DEF Calls
    <2>3. d \in Removes(t, r)
      BY <1>2, <1>3, <2>2 DEF Removes, IsRemove
    <2> QED BY <2>3 DEF d
  <1>5. CASE ~IsLeaf(u, p)
    <2>1. i \in DOMAIN u.page[p].children
      BY <1>2, <1>5 DEF AtPage
    <2>2. Ensured(u, r, p, e)
      BY <1>3, <2>1, EnsureHolds
    <2> HIDE DEF e, i
    <2>3. e.t \in Cache /\ (e.t.wild = FALSE => HasExtra(u, r, p, e.t, e.at))
      BY <2>2 DEF Ensured
    <2>4. e.t.wild \in BOOLEAN
      BY <2>3 DEF Cache
    <2>5. CASE e.t.wild = TRUE
      <3>1. d = [c EXCEPT !.t = e.t, !.todo = "absent"]
        BY <1>1, <1>5, <2>5
      <3>2. d \in Calls /\ d.t = e.t /\ d.todo = "absent"
        BY <1>3, <2>3, <3>1 DEF Calls
      <3>3. d \in Removes(t, r)
        BY <2>5, <3>2 DEF Removes, IsRemove
      <3> QED BY <3>3 DEF d
    <2>6. CASE e.t.wild = FALSE
      <3> DEFINE x == Child(e.t, p, e.at)
      <3>1. d = [c EXCEPT !.t = e.t, !.at = x]
        BY <1>1, <1>5, <2>6
      <3>2. HasExtra(u, r, p, e.t, e.at)
        BY <2>3, <2>6
      <3>3. /\ e.t \in Cache /\ Sound(e.t, r, {}) /\ Tracks(u, e.t) /\ e.t.wild = u.wild
            /\ x \in InTree(e.t, {}) /\ KeyCount(e.t, x) >= MinDegree
        BY <3>2 DEF HasExtra
      <3> HIDE DEF x
      <3>4. GoesOn(c, r, e.t, x, d)
        BY <1>3, <3>1, <3>3 DEF GoesOn, Calls
      <3>5. d \in Removes(t, r)
        BY <3>4, RemoveGoesOn
      <3> QED BY <3>5 DEF d
    <2> QED BY <2>4, <2>5, <2>6
  <1> QED BY <1>4, <1>5

\* What a call of remove_from returns.
LEMMA RemoveCallHolds ==
  ASSUME NEW t \in Cache, NEW r, Sound(t, r, {}), r # NoPage, t.wild = FALSE, NEW k \in Int
  PROVE  Call("remove_from", t, r, k) \in Removes(t, r)
  <1> DEFINE D == Removes(t, r)
             c == [todo |-> "remove_from", t |-> t, at |-> r, key |-> k]
             n == Len(t.page)
  <1>1. r \in InTree(t, {}) /\ n \in Nat
    BY PagesOf DEF Sound, Holds, TreeHolds
  <1>2. r \in Nat
    BY <1>1, PagesOf DEF InTree
  <1>3. c \in Calls /\ c.t = t /\ c.at = r /\ c.todo = "remove_from"
    BY <1>2 DEF Calls
  <1> HIDE DEF c, n
  <1>4. c \in D
    BY <1>1, <1>3, TracksSame DEF Removes, IsRemove
  <1>5. ASSUME NEW x \in D PROVE Pass(x) \in D
    <2>1. x.todo \in {"remove_from", "removed", "absent"}
      BY DEF Removes, IsRemove
    <2>2. CASE x.todo # "remove_from"
      BY <2>1, <2>2 DEF Pass
    <2>3. CASE x.todo = "remove_from"
      <3>1. Pass(x) = RemoveFrom(x)
        BY <2>3 DEF Pass
      <3>2. RemoveFrom(x) \in D
        BY <2>3, RemoveFromLeaf, RemoveReplaces, RemoveBelow
      <3> QED BY <3>1, <3>2
    <2> QED BY <2>2, <2>3
  <1> HIDE DEF D
  <1>6. Passes(c, n) \in D
    BY <1>1, <1>4, <1>5, PassesStay
  <1> QED BY <1>6 DEF Call, c, n, D

-----------------------------------------------------------------------------
(* The root gives way to its child.                                        *)

LEMMA ReleaseTracks ==
  ASSUME NEW t \in Cache, NEW x \in DOMAIN t.page
  PROVE  LET s == ReleasePage(t, x)
         IN  s \in Cache /\ Tracks(t, s) /\ s.wild = t.wild /\ s.header = TRUE
  <1> DEFINE s == ReleasePage(t, x)
  <1>1. /\ s \in Cache
        /\ DOMAIN s.page = DOMAIN t.page
        /\ \A p \in DOMAIN t.page \ {x} : s.page[p] = t.page[p]
        /\ MarksHeader(t, {x}, s)
    BY Releasing
  <1> HIDE DEF s
  <1>2. s.wild = t.wild /\ s.header = TRUE /\ s.dirty = t.dirty \cup {x}
    BY <1>1 DEF MarksHeader
  <1>3. Tracks(t, s)
    BY <1>1, <1>2 DEF Tracks
  <1> QED BY <1>1, <1>2, <1>3 DEF s

\* A root that is a leaf, or one that is not, without keys, taken in hand.
LEMMA RootOut ==
  ASSUME NEW t \in Cache, NEW r, Sound(t, r, {}), r # NoPage, t.page[r].keys = <<>>
  PROVE  /\ r \in InTree(t, {}) /\ r \in DOMAIN t.page
         /\ \/ t.page[r].children = <<>> /\ Sound(t, NoPage, {r})
            \/ /\ t.page[r].children # <<>> /\ ~IsLeaf(t, r)
               /\ Child(t, r, 1) \in Nat /\ Sound(t, Child(t, r, 1), {r})
  <1> DEFINE T == InTree(t, {})
             D == DOMAIN t.page
             c == Child(t, r, 1)
  <1>1. PICK by, at, level : SoundBy(t, r, {}, by, at, level)
    BY SoundIs
  <1>2. /\ Names(D, T, by, at, level) /\ Forest(T, r, Kids(t), by, at, level)
        /\ PagesFit(t, r, {}, level) /\ ListHolds(t, {}, by, level)
    BY <1>1 DEF SoundBy
  <1>3. r \in T
    BY <1>2 DEF Forest
  <1>4. /\ r \in D /\ t.page[r].kind \in {"leaf", "internal"} /\ Fits(t, r, r)
        /\ t.page[r].kind = "leaf" => level[r] = 0
        /\ Kids(t)[r] = t.page[r].children /\ t.page[r].children \in Seq(Nat)
    BY <1>1, <1>3, PageFits, PagesOf
  <1>5. InTree(t, {r}) = T \ {r} /\ OnList(t, {r}) = OnList(t, {})
    BY <1>4 DEF InTree, OnList
  <1>6. ASSUME NEW by1, \A q \in D \ T : by1[q] = by[q]
        PROVE  ListHolds(t, {r}, by1, level)
    <2>1. OnList(t, {}) \subseteq D \ T
      BY DEF OnList, InTree
    <2>2. SameList(t, {}, by, level, t, {r}, by1, level)
      BY <1>5, <1>6, <2>1 DEF SameList
    <2> QED BY <1>2, <2>2, ListKept
  <1>7. CASE t.page[r].kind = "leaf"
    <2>1. t.page[r].children = <<>>
      BY <1>4, <1>7 DEF Fits
    <2>2. T = {r}
      BY <1>2, <1>4, <1>7, ShapeAlone
    <2>3. InTree(t, {r}) = {}
      BY <1>5, <2>2
    <2>4. Names(D, {}, by, at, level) /\ Forest({}, NoPage, Kids(t), by, at, level)
      BY <1>2 DEF Names, Forest
    <2>5. PagesFit(t, NoPage, {r}, level)
      BY <2>3 DEF PagesFit
    <2>6. ListHolds(t, {r}, by, level)
      BY <1>6
    <2>7. SoundBy(t, NoPage, {r}, by, at, level)
      BY <2>3, <2>4, <2>5, <2>6 DEF SoundBy
    <2>8. Sound(t, NoPage, {r})
      BY <2>7, SoundIs
    <2> QED BY <1>3, <1>4, <2>1, <2>8
  <1>8. CASE t.page[r].kind = "internal"
    <2>1. Len(t.page[r].children) = 1
      BY <1>4, <1>8 DEF Fits
    <2>2. t.page[r].children = <<c>> /\ c \in Nat
      BY <1>4, <2>1 DEF Child
    <2>3. Kids(t)[r] = <<c>>
      BY <1>4, <2>2
    <2> HIDE DEF c
    <2>4. PICK by1 : /\ Names(D, T \ {r}, by1, at, level)
                     /\ Forest(T \ {r}, c, Kids(t), by1, at, level)
                     /\ \A q \in D \ T : by1[q] = by[q]
      <3> DEFINE kids == Kids(t)
      <3>1. /\ Names(D, T, by, at, level) /\ Forest(T, r, kids, by, at, level)
            /\ HasSole(kids, r, c)
        BY <1>2, <2>3 DEF HasSole
      <3> HIDE DEF kids, D, T
      <3>2. Lowered(D, T, r, c, kids, by, at, level)
        BY <3>1, ShapeLowered
      <3> QED BY <3>2 DEF kids, Lowered
    <2>5. PagesFit(t, c, {r}, level)
      BY <1>2, <1>5 DEF PagesFit, Fits
    <2>6. ListHolds(t, {r}, by1, level)
      BY <1>6, <2>4
    <2>7. SoundBy(t, c, {r}, by1, at, level)
      BY <1>5, <2>4, <2>5, <2>6 DEF SoundBy
    <2>8. Sound(t, c, {r})
      BY <2>7, SoundIs
    <2>9. t.page[r].children # <<>> /\ ~IsLeaf(t, r)
      BY <1>8, <2>2 DEF IsLeaf
    <2> QED BY <1>3, <1>4, <2>2, <2>8, <2>9 DEF c
  <1> QED BY <1>4, <1>7, <1>8

\* The loop at the end of remove, from the cache t.
IsShrink(t, c) ==
    /\ Sound(c.t, c.at, {}) /\ Tracks(t, c.t) /\ c.t.wild = t.wild
    /\ c.todo \in {"shrink_root", "shrunk"}

Shrinks(t) == {c \in Calls : IsShrink(t, c)}

LEMMA ShrinkHolds ==
  ASSUME NEW t, NEW c \in Shrinks(t), c.todo = "shrink_root"
  PROVE  ShrinkRoot(c) \in Shrinks(t)
  <1> DEFINE u == c.t
             p == c.at
             s == ReleasePage(u, p)
             x == IF IsLeaf(u, p) \/ u.page[p].children = <<>> THEN NoPage ELSE Child(u, p, 1)
             d == ShrinkRoot(c)
  <1>1. /\ u \in Cache /\ Sound(u, p, {}) /\ Tracks(t, u) /\ u.wild = t.wild
        /\ c \in Calls /\ c.t = u /\ c.at = p /\ c.todo = "shrink_root"
    BY DEF Shrinks, IsShrink, Calls
  <1>2. d = IF p = NoPage \/ KeyCount(u, p) > 0 THEN [c EXCEPT !.todo = "shrunk"]
            ELSE [c EXCEPT !.t = s, !.at = x]
    BY DEF ShrinkRoot
  <1> HIDE DEF u, p, d, x
  <1>3. CASE p = NoPage \/ KeyCount(u, p) > 0
    <2>1. d = [c EXCEPT !.todo = "shrunk"]
      BY <1>2, <1>3
    <2>2. d \in Calls /\ d.t = u /\ d.at = p /\ d.todo = "shrunk"
      BY <1>1, <2>1 DEF Calls
    <2>3. d \in Shrinks(t)
      BY <1>1, <2>2 DEF Shrinks, IsShrink
    <2> QED BY <2>3 DEF d
  <1>4. CASE p # NoPage /\ ~(KeyCount(u, p) > 0)
    <2>1. p \in InTree(u, {}) /\ p \in DOMAIN u.page
      BY <1>1, <1>4 DEF Sound, Holds, TreeHolds, InTree
    <2>2. u.page[p].keys = <<>>
      <3>1. u.page[p].keys \in Seq(Int)
        BY <1>1, <2>1, PagesOf
      <3> QED BY <1>4, <3>1 DEF KeyCount
    <2>3. \/ u.page[p].children = <<>> /\ Sound(u, NoPage, {p})
          \/ /\ u.page[p].children # <<>> /\ ~IsLeaf(u, p)
             /\ Child(u, p, 1) \in Nat /\ Sound(u, Child(u, p, 1), {p})
      BY <1>1, <1>4, <2>2, RootOut
    <2>4. x \in Nat /\ Sound(u, x, {p})
      BY <2>3 DEF x, NoPage
    <2>5. Sound(s, x, {})
      BY <1>1, <2>1, <2>4, ReleaseHolds
    <2>6. s \in Cache /\ Tracks(u, s) /\ s.wild = u.wild
      BY <1>1, <2>1, ReleaseTracks
    <2> HIDE DEF s
    <2>7. Tracks(t, s)
      BY <1>1, <2>6, TracksOn
    <2>8. d = [c EXCEPT !.t = s, !.at = x]
      BY <1>2, <1>4
    <2>9. d \in Calls /\ d.t = s /\ d.at = x /\ d.todo = "shrink_root"
      BY <1>1, <2>4, <2>6, <2>8 DEF Calls
    <2>10. d \in Shrinks(t)
      BY <1>1, <2>5, <2>6, <2>7, <2>9 DEF Shrinks, IsShrink
    <2> QED BY <2>10 DEF d
  <1> QED BY <1>3, <1>4

LEMMA ShrinkCallHolds ==
  ASSUME NEW t \in Cache, NEW r \in Nat, Sound(t, r, {}), NEW k \in Int
  PROVE  Call("shrink_root", t, r, k) \in Shrinks(t)
  <1> DEFINE D == Shrinks(t)
             c == [todo |-> "shrink_root", t |-> t, at |-> r, key |-> k]
             n == Len(t.page)
  <1>1. n \in Nat
    BY PagesOf
  <1>2. c \in Calls /\ c.t = t /\ c.at = r /\ c.todo = "shrink_root"
    BY DEF Calls
  <1> HIDE DEF c, n
  <1>3. c \in D
    BY <1>2, TracksSame DEF Shrinks, IsShrink
  <1>4. ASSUME NEW x \in D PROVE Pass(x) \in D
    <2>1. x.todo \in {"shrink_root", "shrunk"}
      BY DEF Shrinks, IsShrink
    <2>2. CASE x.todo = "shrunk"
      BY <2>2 DEF Pass
    <2>3. CASE x.todo = "shrink_root"
      <3>1. Pass(x) = ShrinkRoot(x)
        BY <2>3 DEF Pass
      <3> QED BY <2>3, <3>1, ShrinkHolds
    <2> QED BY <2>1, <2>2, <2>3
  <1> HIDE DEF D
  <1>5. Passes(c, n) \in D
    BY <1>1, <1>3, <1>4, PassesStay
  <1> QED BY <1>5 DEF Call, c, n, D

-----------------------------------------------------------------------------
(* The operations.                                                         *)

\* The marks do not make a cache more or less sound.
LEMMA SoundSame ==
  ASSUME NEW t \in Cache, NEW s \in Cache, s.page = t.page, s.free = t.free,
         NEW r, NEW hand, Sound(t, r, hand)
  PROVE  Sound(s, r, hand)
  <1>1. PICK by, at, level : Holds(t, r, hand, by, at, level)
    BY DEF Sound
  <1>2. InTree(s, hand) = InTree(t, hand) /\ OnList(s, hand) = OnList(t, hand)
    BY SameKinds
  <1>3. SameTree(t, hand, by, at, level, s, hand, by, at, level)
    BY <1>2 DEF SameTree
  <1>4. SameList(t, hand, by, level, s, hand, by, level)
    BY <1>2 DEF SameList
  <1>5. TreeHolds(s, r, hand, by, at, level)
    BY <1>1, <1>3, TreeKept DEF Holds
  <1>6. ListHolds(s, hand, by, level)
    BY <1>1, <1>4, ListKept DEF Holds
  <1>7. Witness(s, by, at, level)
    BY <1>1 DEF Holds, Witness
  <1>8. Holds(s, r, hand, by, at, level)
    BY <1>5, <1>6, <1>7 DEF Holds
  <1> QED BY <1>8 DEF Sound

\* What an operation that changes the tree leaves.
Operated(t, s, r) ==
    /\ s \in Cache /\ r \in Nat /\ Sound(s, r, {})
    /\ Tracks(t, s) /\ s.wild = t.wild /\ s.header = TRUE

\* A page taken and then rewritten, still in hand.
Taken(t, r, n, kind, keys, children, s) ==
    /\ s \in Cache /\ n \in DOMAIN s.page /\ n \in Nat \ {0}
    /\ Sound(s, r, {n}) /\ n \notin InTree(t, {}) /\ InTree(s, {n}) = InTree(t, {})
    /\ \A q \in InTree(t, {}) : s.page[q] = t.page[q]
    /\ Tracks(t, s) /\ s.wild = t.wild /\ s.header = TRUE
    /\ s.page[n].kind = kind /\ s.page[n].link = NoPage
    /\ s.page[n].keys = keys /\ s.page[n].children = children

\* Other keys and children for one page of a cache.
WroteOne(u, n, keys, children, s) ==
    /\ s \in Cache
    /\ s.page = [u.page EXCEPT ![n] = [@ EXCEPT !.keys = keys, !.children = children]]
    /\ s.free = u.free /\ s.wild = u.wild /\ s.header = u.header /\ s.dirty = u.dirty

LEMMA Taking ==
  ASSUME NEW t \in Cache, NEW r, Sound(t, r, {}), NEW kind \in {"leaf", "internal"},
         NEW keys \in Seq(Int), NEW children \in Seq(Nat),
         NEW n, n = AllocatedPage(t), NEW u, u = AllocatePage(t, kind),
         NEW s, WroteOne(u, n, keys, children, s)
  PROVE  Taken(t, r, n, kind, keys, children, s)
  <1>1. t.free # NoPage => t.free \in DOMAIN t.page
    BY DEF Sound, Holds, ListHolds, OnList
  <1>2. /\ u \in Cache
        /\ n \in Nat \ {0}
        /\ DOMAIN u.page = DOMAIN t.page \cup {n}
        /\ u.page[n] = MakePage(kind)
        /\ \A p \in DOMAIN t.page \ {n} : u.page[p] = t.page[p]
        /\ n \in DOMAIN t.page => n = t.free
        /\ u.free = IF t.free = NoPage THEN NoPage ELSE t.page[t.free].link
        /\ MarksHeader(t, {n}, u)
    <2> DEFINE u1 == AllocatePage(t, kind)
               n1 == AllocatedPage(t)
    <2>1. /\ u1 \in Cache
          /\ n1 \in Nat \ {0}
          /\ DOMAIN u1.page = DOMAIN t.page \cup {n1}
          /\ u1.page[n1] = MakePage(kind)
          /\ \A p \in DOMAIN t.page \ {n1} : u1.page[p] = t.page[p]
          /\ n1 \in DOMAIN t.page => n1 = t.free
          /\ u1.free = IF t.free = NoPage THEN NoPage ELSE t.page[t.free].link
          /\ MarksHeader(t, {n1}, u1)
      BY <1>1, Allocating
    <2>2. u = u1 /\ n = n1
      OBVIOUS
    <2> HIDE DEF u1, n1
    <2> QED BY <2>1, <2>2
  <1>3. /\ Sound(u, r, {n})
        /\ InTree(u, {n}) = InTree(t, {})
        /\ n \notin InTree(t, {})
    BY AllocateHolds
  <1>4. /\ s \in Cache
        /\ s.free = u.free /\ s.wild = u.wild /\ s.header = u.header /\ s.dirty = u.dirty
    BY DEF WroteOne
  <1>5. /\ DOMAIN s.page = DOMAIN u.page
        /\ \A q \in DOMAIN u.page \ {n} : s.page[q] = u.page[q]
        /\ s.page[n] = [u.page[n] EXCEPT !.keys = keys, !.children = children]
    BY <1>2 DEF WroteOne
  <1>6. /\ s.page[n].kind = kind /\ s.page[n].link = NoPage
        /\ s.page[n].keys = keys /\ s.page[n].children = children
    BY <1>2, <1>5 DEF MakePage
  <1>7. InTree(s, {n}) = InTree(u, {n}) /\ OnList(s, {n}) = OnList(u, {n})
    <2> DEFINE hand == {n}
    <2>1. \A q \in DOMAIN u.page \ hand : s.page[q].kind = u.page[q].kind
      BY <1>5
    <2>2. DOMAIN s.page = DOMAIN u.page
      BY <1>5
    <2> HIDE DEF hand
    <2>3. InTree(s, hand) = InTree(u, hand) /\ OnList(s, hand) = OnList(u, hand)
      BY <2>1, <2>2, SameKinds
    <2> QED BY <2>3 DEF hand
  <1>8. Sound(s, r, {n})
    <2>1. PICK by, at, level : Holds(u, r, {n}, by, at, level)
      BY <1>3 DEF Sound
    <2>2. SameTree(u, {n}, by, at, level, s, {n}, by, at, level)
      BY <1>5, <1>7 DEF SameTree, InTree
    <2>3. SameList(u, {n}, by, level, s, {n}, by, level)
      BY <1>4, <1>5, <1>7 DEF SameList, OnList
    <2>4. TreeHolds(s, r, {n}, by, at, level)
      BY <1>2, <1>4, <2>1, <2>2, TreeKept DEF Holds
    <2>5. ListHolds(s, {n}, by, level)
      BY <1>2, <1>4, <2>1, <2>3, ListKept DEF Holds
    <2>6. Witness(s, by, at, level)
      BY <1>5, <2>1 DEF Holds, Witness
    <2>7. Holds(s, r, {n}, by, at, level)
      BY <2>4, <2>5, <2>6 DEF Holds
    <2> QED BY <1>4, <2>7 DEF Sound
  <1>9. \A q \in InTree(t, {}) : s.page[q] = t.page[q]
    BY <1>2, <1>3, <1>5 DEF InTree
  <1>10. Tracks(t, s) /\ s.wild = t.wild /\ s.header = TRUE
    <2>1. u.wild = t.wild /\ u.header = TRUE /\ u.dirty = t.dirty \cup {n}
      BY <1>2 DEF MarksHeader
    <2>2. \A q \in DOMAIN s.page : q \in s.dirty \/ (q \in DOMAIN t.page /\ s.page[q] = t.page[q])
      BY <1>2, <1>4, <1>5, <2>1
    <2>3. s.wild = t.wild /\ s.header = TRUE /\ t.dirty \subseteq s.dirty
          /\ DOMAIN t.page \subseteq DOMAIN s.page
      BY <1>2, <1>4, <1>5, <2>1
    <2> QED BY <2>2, <2>3 DEF Tracks
  <1>11. n \in DOMAIN s.page
    BY <1>2, <1>5
  <1> QED BY <1>2, <1>3, <1>4, <1>6, <1>7, <1>8, <1>9, <1>10, <1>11 DEF Taken

\* The page in hand goes into the tree, and nothing else changes.
LEMMA HandedIn ==
  ASSUME NEW s \in Cache, NEW n \in DOMAIN s.page, s.page[n].kind # "free"
  PROVE  /\ InTree(s, {}) = InTree(s, {n}) \cup {n} /\ OnList(s, {}) = OnList(s, {n})
         /\ n \notin InTree(s, {n}) /\ n \notin OnList(s, {n})
  BY DEF InTree, OnList

\* A first page.
LEMMA FirstPage ==
  ASSUME NEW t \in Cache, NEW n, NEW k \in Int, NEW s,
         Taken(t, NoPage, n, "leaf", <<k>>, <<>>, s)
  PROVE  Sound(s, n, {}) /\ Tracks(t, s) /\ s.wild = t.wild /\ s.header = TRUE
         /\ s \in Cache /\ n \in Nat
  <1> DEFINE D == DOMAIN s.page
             hand == {n}
  <1>1. /\ s \in Cache /\ n \in D /\ n \in Nat \ {0}
        /\ Sound(s, NoPage, hand)
        /\ Tracks(t, s) /\ s.wild = t.wild /\ s.header = TRUE
        /\ s.page[n].kind = "leaf" /\ s.page[n].link = NoPage
        /\ s.page[n].children = <<>>
    BY DEF Taken
  <1>2. Len(s.page[n].keys) = 1
    BY DEF Taken
  <1>3. PICK by, at, level : SoundBy(s, NoPage, hand, by, at, level)
    BY <1>1, SoundIs
  <1>4. /\ Names(D, InTree(s, hand), by, at, level) /\ ListHolds(s, hand, by, level)
        /\ InTree(s, hand) = {}
    BY <1>3 DEF SoundBy, Forest
  <1>5. /\ InTree(s, {}) = {n} /\ OnList(s, {}) = OnList(s, hand)
        /\ n \notin OnList(s, hand)
    BY <1>1, <1>4, HandedIn
  <1> DEFINE by1 == [q \in D |-> IF q = n THEN 0 ELSE by[q]]
             level1 == [q \in D |-> IF q = n THEN 0 ELSE level[q]]
  <1>6. /\ \A q \in D \ {n} : by1[q] = by[q] /\ level1[q] = level[q]
        /\ by1[n] = 0 /\ level1[n] = 0
    BY <1>1
  <1>7. Names(D, {n}, by1, at, level1)
    <2>1. /\ D \subseteq Nat \ {NoPage} /\ at \in [D -> Nat]
          /\ by \in [D -> Nat] /\ level \in [D -> Nat]
      BY <1>4 DEF Names
    <2>2. by1 \in [D -> Nat] /\ level1 \in [D -> Nat]
      BY <2>1
    <2> HIDE DEF by1, level1, D
    <2> QED BY <1>1, <2>1, <2>2 DEF Names
  <1> HIDE DEF by1, level1
  <1>8. Forest({n}, n, Kids(s), by1, at, level1)
    <2>1. Kids(s)[n] = <<>>
      BY <1>1 DEF Kids
    <2>2. Shaped({n}, Kids(s), by1, at, level1, n)
      BY <2>1 DEF Shaped
    <2> QED BY <1>1, <1>6, <2>2 DEF Forest, NoPage
  <1>9. PagesFit(s, n, {}, level1)
    <2>1. 1 <= MaxKeys
      BY BTreeAssumption DEF MaxKeys
    <2>2. Fits(s, n, n)
      BY <1>1, <1>2, <2>1 DEF Fits
    <2> QED BY <1>5, <1>6, <2>2 DEF PagesFit
  <1>10. ListHolds(s, {}, by1, level1)
    <2>1. \A q \in OnList(s, hand) : q \in D \ {n}
      BY <1>5 DEF OnList
    <2>2. SameList(s, hand, by, level, s, {}, by1, level1)
      BY <1>5, <1>6, <2>1 DEF SameList
    <2> QED BY <1>1, <1>4, <2>2, ListKept
  <1>11. SoundBy(s, n, {}, by1, at, level1)
    BY <1>5, <1>7, <1>8, <1>9, <1>10 DEF SoundBy
  <1>12. Sound(s, n, {})
    BY <1>1, <1>11, SoundIs
  <1> QED BY <1>1, <1>12

\* A page above the root r, which is full.
IsAbove(t, r, n, s) ==
    /\ Sound(s, n, {}) /\ Tracks(t, s) /\ s.wild = t.wild /\ s.header = TRUE
    /\ s \in Cache /\ n \in InTree(s, {}) /\ n \in Nat /\ KeyCount(s, n) = 0
    /\ 1 \in DOMAIN s.page[n].children /\ Child(s, n, 1) = r
    /\ KeyCount(s, r) = MaxKeys

LEMMA NewRoot ==
  ASSUME NEW t \in Cache, NEW r, r # NoPage, Sound(t, r, {}), KeyCount(t, r) = MaxKeys,
         NEW n, NEW s, NEW children, children = <<r>>,
         Taken(t, r, n, "internal", <<>>, children, s)
  PROVE  IsAbove(t, r, n, s)
  <1> DEFINE D == DOMAIN s.page
             hand == {n}
             T == InTree(s, hand)
             kids == Kids(s)
  <1>1. /\ s \in Cache /\ n \in D /\ n \in Nat \ {0}
        /\ Sound(s, r, hand) /\ InTree(s, hand) = InTree(t, {})
        /\ \A q \in InTree(t, {}) : s.page[q] = t.page[q]
        /\ Tracks(t, s) /\ s.wild = t.wild /\ s.header = TRUE
        /\ s.page[n].kind = "internal" /\ s.page[n].link = NoPage
    BY DEF Taken
  <1>2. s.page[n].keys = <<>> /\ s.page[n].children = <<r>>
    BY DEF Taken
  <1>3. KeyCount(s, n) = 0 /\ 1 \in DOMAIN s.page[n].children /\ Child(s, n, 1) = r
        /\ Len(s.page[n].keys) = 0 /\ Len(s.page[n].children) = 1
    BY <1>2 DEF KeyCount, Child
  <1>4. PICK by, at, level : SoundBy(s, r, hand, by, at, level)
    BY <1>1, SoundIs
  <1>5. /\ Names(D, T, by, at, level) /\ Forest(T, r, kids, by, at, level)
        /\ PagesFit(s, r, hand, level) /\ ListHolds(s, hand, by, level)
    BY <1>4 DEF SoundBy
  <1>6. r \in T /\ KeyCount(s, r) = MaxKeys
    BY <1>1, <1>5 DEF Forest, KeyCount
  <1>7. /\ InTree(s, {}) = T \cup {n} /\ OnList(s, {}) = OnList(s, hand)
        /\ n \notin T /\ n \notin OnList(s, hand)
    BY <1>1, HandedIn
  <1>8. kids[n] = <<r>>
    BY <1>1, <1>2 DEF Kids
  <1> DEFINE h == level[r] + 1
  <1>9. Grown(D, T, n, n, h, kids, by, level)
    <2> HIDE DEF D, T, kids
    <2> QED BY <1>1, <1>5, <1>7, <1>8, ShapeRaised
  <1> HIDE DEF h
  <1>10. PICK by1, at1, level1 :
            /\ Names(D, T \cup {n}, by1, at1, level1)
            /\ Forest(T \cup {n}, n, kids, by1, at1, level1)
            /\ \A q \in T : level1[q] = level[q]
            /\ \A q \in D \ (T \cup {n}) : by1[q] = by[q] /\ level1[q] = level[q]
    <2> HIDE DEF D, T, kids
    <2> QED BY <1>9 DEF Grown
  <1>11. PagesFit(s, n, {}, level1)
    <2>1. MaxKeys \in Nat /\ MinKeys <= MaxKeys
      BY BTreeAssumption DEF MinKeys, MaxKeys
    <2>2. Fits(s, n, n)
      BY <1>1, <1>3, <2>1 DEF Fits
    <2>3. ASSUME NEW q \in T PROVE Fits(s, n, q) /\ (s.page[q].kind = "leaf" => level1[q] = 0)
      <3>1. Fits(s, r, q) /\ (s.page[q].kind = "leaf" => level[q] = 0)
        BY <1>5 DEF PagesFit
      <3>2. Len(s.page[q].keys) >= MinKeys
        <4>1. CASE q = r
          BY <1>6, <2>1, <4>1, BTreeAssumption DEF KeyCount, MinKeys, MaxKeys
        <4>2. CASE q # r
          BY <3>1, <4>2 DEF Fits
        <4> QED BY <4>1, <4>2
      <3>3. Fits(s, n, q)
        BY <3>1, <3>2 DEF Fits
      <3> QED BY <1>10, <3>1, <3>3
    <2> HIDE DEF T
    <2> QED BY <1>1, <1>7, <2>2, <2>3 DEF PagesFit
  <1>12. ListHolds(s, {}, by1, level1)
    <2>1. \A q \in OnList(s, hand) : q \in D \ (T \cup {n})
      BY <1>7 DEF OnList, InTree
    <2>2. SameList(s, hand, by, level, s, {}, by1, level1)
      BY <1>7, <1>10, <2>1 DEF SameList
    <2> QED BY <1>1, <1>5, <2>2, ListKept
  <1>13. SoundBy(s, n, {}, by1, at1, level1)
    BY <1>7, <1>10, <1>11, <1>12 DEF SoundBy
  <1>14. Sound(s, n, {})
    BY <1>1, <1>13, SoundIs
  <1> QED BY <1>1, <1>3, <1>6, <1>7, <1>14 DEF IsAbove

\* A page with other keys, or other children.
LEMMA OtherKeys ==
  ASSUME NEW x \in Page, NEW keys
  PROVE  x.children = <<>> => [x EXCEPT !.keys = keys, !.children = <<>>] = [x EXCEPT !.keys = keys]
  BY DEF Page

LEMMA OtherChildren ==
  ASSUME NEW x \in Page, NEW children
  PROVE  x.keys = <<>> => [x EXCEPT !.keys = <<>>, !.children = children] = [x EXCEPT !.children = children]
  BY DEF Page

LEMMA WritesOne ==
  ASSUME NEW u \in Cache, NEW n \in DOMAIN u.page,
         NEW keys \in Seq(Int), NEW children \in Seq(Nat),
         NEW s, s = [u EXCEPT !.page = [u.page EXCEPT
                        ![n] = [@ EXCEPT !.keys = keys, !.children = children]]]
  PROVE  WroteOne(u, n, keys, children, s)
  <1> DEFINE px == [u.page[n] EXCEPT !.keys = keys, !.children = children]
             page1 == [u.page EXCEPT ![n] = px]
  <1>1. u.page \in Seq(Page) /\ u.page[n] \in Page
    BY PagesOf
  <1>2. px \in Page
    BY <1>1 DEF Page
  <1>3. s = [u EXCEPT !.page = page1]
    OBVIOUS
  <1> HIDE DEF px
  <1>4. page1 \in Seq(Page)
    BY <1>1, <1>2
  <1> HIDE DEF page1
  <1>5. /\ s \in Cache /\ s.page = page1 /\ s.free = u.free /\ s.wild = u.wild
        /\ s.header = u.header /\ s.dirty = u.dirty
    BY <1>3, <1>4 DEF Cache
  <1> QED BY <1>5 DEF WroteOne, page1, px

\* The page allocate_page takes is there, and blank.
LEMMA TakenIsThere ==
  ASSUME NEW t \in Cache, NEW r, Sound(t, r, {}), NEW kind \in {"leaf", "internal"},
         NEW n, n = AllocatedPage(t), NEW u, u = AllocatePage(t, kind)
  PROVE  u \in Cache /\ n \in DOMAIN u.page /\ u.page[n] = MakePage(kind)
  <1>1. t.free # NoPage => t.free \in DOMAIN t.page
    BY DEF Sound, Holds, ListHolds, OnList
  <1> DEFINE u1 == AllocatePage(t, kind)
             n1 == AllocatedPage(t)
  <1>2. /\ u1 \in Cache /\ u1.page[n1] = MakePage(kind)
        /\ DOMAIN u1.page = DOMAIN t.page \cup {n1}
    BY <1>1, Allocating
  <1>3. u = u1 /\ n = n1
    OBVIOUS
  <1> HIDE DEF u1, n1
  <1> QED BY <1>2, <1>3

\* The first page of a tree.
LEMMA FirstTaken ==
  ASSUME NEW t \in Cache, Sound(t, NoPage, {}), NEW k \in Int, NEW f, f = Inserted(t, NoPage, k),
         NEW keys, keys = <<k>>
  PROVE  Taken(t, NoPage, f.root, "leaf", keys, <<>>, f.t)
  <1> DEFINE n == AllocatedPage(t)
             u == AllocatePage(t, "leaf")
             s == [u EXCEPT !.page[n].keys = <<k>>]
  <1>1. f.t = s /\ f.root = n
    BY DEF Inserted
  <1>2. u \in Cache /\ n \in DOMAIN u.page /\ u.page[n] = MakePage("leaf")
    BY TakenIsThere
  <1> HIDE DEF n, u
  <1>3. keys \in Seq(Int) /\ <<>> \in Seq(Nat)
    OBVIOUS
  <1>4. WroteOne(u, n, keys, <<>>, s)
    <2> DEFINE px == [u.page[n] EXCEPT !.keys = keys, !.children = <<>>]
               s1 == [u EXCEPT !.page = [u.page EXCEPT ![n] = px]]
    <2>1. WroteOne(u, n, keys, <<>>, s1)
      BY <1>2, <1>3, WritesOne, ZenonT(60)
    <2>2. px = [u.page[n] EXCEPT !.keys = keys]
      <3> DEFINE x == u.page[n]
      <3>1. x \in Page /\ x.children = <<>>
        BY <1>2, MadePage DEF MakePage
      <3> HIDE DEF x
      <3>2. [x EXCEPT !.keys = keys, !.children = <<>>] = [x EXCEPT !.keys = keys]
        BY <3>1, OtherKeys, ZenonT(60)
      <3> QED BY <3>2 DEF x
    <2>3. s = [u EXCEPT !.page = [u.page EXCEPT ![n] = [u.page[n] EXCEPT !.keys = keys]]]
      BY ONLY keys = <<k>>
    <2>4. s = s1
      BY <2>2, <2>3
    <2> QED BY <2>1, <2>4
  <1> HIDE DEF s
  <1>5. Taken(t, NoPage, n, "leaf", keys, <<>>, s)
    BY ONLY t \in Cache, Sound(t, NoPage, {}), <1>3, <1>4, Taking DEF n, u
  <1> QED BY <1>1, <1>5

LEMMA InsertsFirst ==
  ASSUME NEW t \in Cache, Sound(t, NoPage, {}), NEW k \in Int
  PROVE  Operated(t, Inserted(t, NoPage, k).t, Inserted(t, NoPage, k).root)
  <1> DEFINE f == Inserted(t, NoPage, k)
  <1>1. Taken(t, NoPage, f.root, "leaf", <<k>>, <<>>, f.t)
    <2>1. PICK keys : keys = <<k>>
      OBVIOUS
    <2>2. PICK g : g = f
      OBVIOUS
    <2>3. Taken(t, NoPage, g.root, "leaf", keys, <<>>, g.t)
      BY <2>1, <2>2, FirstTaken
    <2> QED BY <2>1, <2>2, <2>3
  <1> HIDE DEF f
  <1>2. Sound(f.t, f.root, {}) /\ Tracks(t, f.t) /\ f.t.wild = t.wild /\ f.t.header = TRUE
        /\ f.t \in Cache /\ f.root \in Nat
    BY <1>1, FirstPage
  <1>3. Operated(t, f.t, f.root)
    BY <1>2 DEF Operated
  <1> QED BY <1>3 DEF f

LEMMA InsertsBelow ==
  ASSUME NEW t \in Cache, NEW p \in Nat, p # NoPage, Sound(t, p, {}), NEW k \in Int,
         KeyCount(t, p) # MaxKeys
  PROVE  Operated(t, Inserted(t, p, k).t, Inserted(t, p, k).root)
  <1> DEFINE c == Call("insert_nonfull", t, p, k)
             s == [c.t EXCEPT !.header = TRUE]
  <1>1. Inserted(t, p, k).t = s /\ Inserted(t, p, k).root = p
    BY DEF Inserted
  <1>2. p \in InTree(t, {})
    BY DEF Sound, Holds, TreeHolds
  <1>3. KeyCount(t, p) < MaxKeys
    <2>1. PICK by, at, level : SoundBy(t, p, {}, by, at, level)
      BY SoundIs
    <2>2. Fits(t, p, p) /\ t.page[p].keys \in Seq(Int)
      BY <1>2, <2>1, PageFits, PagesOf
    <2>3. KeyCount(t, p) \in Nat /\ KeyCount(t, p) <= MaxKeys
      BY <2>2 DEF KeyCount, Fits
    <2>4. MaxKeys \in Nat
      BY BTreeAssumption DEF MaxKeys
    <2> QED BY <2>3, <2>4
  <1>4. c \in Inserts(t, p)
    BY <1>2, <1>3, InsertCallHolds
  <1> HIDE DEF c
  <1>5. c.t \in Cache /\ Sound(c.t, p, {}) /\ Tracks(t, c.t) /\ c.t.wild = t.wild
    BY <1>4 DEF Inserts, IsInsert, Calls
  <1>6. /\ s \in Cache /\ s.page = c.t.page /\ s.free = c.t.free /\ s.wild = c.t.wild
        /\ s.dirty = c.t.dirty /\ s.header = TRUE
    BY <1>5 DEF Cache
  <1> HIDE DEF s
  <1>7. Sound(s, p, {})
    BY <1>5, <1>6, SoundSame
  <1>8. Tracks(t, s)
    BY <1>5, <1>6 DEF Tracks
  <1>9. Operated(t, s, p)
    BY <1>5, <1>6, <1>7, <1>8 DEF Operated
  <1> QED BY <1>1, <1>9

\* A page above the root, that is then split and gone down from.
TakenAbove(t, p, k, n, v) ==
    /\ Taken(t, p, n, "internal", <<>>, <<p>>, v)
    /\ Inserted(t, p, k).t = Call("insert_nonfull", SplitChild(v, n, 1), n, k).t
    /\ Inserted(t, p, k).root = n

LEMMA AboveTaken ==
  ASSUME NEW t \in Cache, NEW p \in Nat, p # NoPage, Sound(t, p, {}), NEW k \in Int,
         KeyCount(t, p) = MaxKeys
  PROVE  \E n, v : TakenAbove(t, p, k, n, v)
  <1> DEFINE n == AllocatedPage(t)
             u == AllocatePage(t, "internal")
             v == [u EXCEPT !.page[n].children = <<p>>]
             w == SplitChild(v, n, 1)
             c == Call("insert_nonfull", w, n, k)
             children == <<p>>
  <1>1. Inserted(t, p, k).t = c.t /\ Inserted(t, p, k).root = n
    BY DEF Inserted
  <1>2. u \in Cache /\ n \in DOMAIN u.page /\ u.page[n] = MakePage("internal")
    BY TakenIsThere
  <1> HIDE DEF n, u
  <1>3. children \in Seq(Nat) /\ <<>> \in Seq(Int)
    OBVIOUS
  <1>4. WroteOne(u, n, <<>>, children, v)
    <2> DEFINE px == [u.page[n] EXCEPT !.keys = <<>>, !.children = children]
               v1 == [u EXCEPT !.page = [u.page EXCEPT ![n] = px]]
    <2>1. WroteOne(u, n, <<>>, children, v1)
      BY <1>2, <1>3, WritesOne, ZenonT(60)
    <2>2. px = [u.page[n] EXCEPT !.children = children]
      <3> DEFINE x == u.page[n]
      <3>1. x \in Page /\ x.keys = <<>>
        BY <1>2, MadePage DEF MakePage
      <3> HIDE DEF x, children
      <3>2. [x EXCEPT !.keys = <<>>, !.children = children] = [x EXCEPT !.children = children]
        BY <3>1, OtherChildren, ZenonT(60)
      <3> QED BY <3>2 DEF x
    <2>3. v = [u EXCEPT !.page = [u.page EXCEPT ![n] = [u.page[n] EXCEPT !.children = children]]]
      BY ZenonT(60)
    <2>4. v = v1
      BY <2>2, <2>3
    <2> QED BY <2>1, <2>4
  <1> HIDE DEF v, w, c
  <1>5. Taken(t, p, n, "internal", <<>>, children, v)
    <2> HIDE DEF children
    <2> QED BY <1>3, <1>4, Taking DEF n, u
  <1>6. Taken(t, p, n, "internal", <<>>, <<p>>, v)
    BY <1>5
  <1>7. TakenAbove(t, p, k, n, v)
    BY <1>1, <1>6 DEF TakenAbove, c, w
  <1> QED BY <1>7

LEMMA InsertsAbove ==
  ASSUME NEW t \in Cache, NEW p \in Nat, p # NoPage, Sound(t, p, {}), NEW k \in Int,
         KeyCount(t, p) = MaxKeys
  PROVE  Operated(t, Inserted(t, p, k).t, Inserted(t, p, k).root)
  <1>1. PICK n, v : TakenAbove(t, p, k, n, v)
    BY AboveTaken
  <1> DEFINE w == SplitChild(v, n, 1)
             c == Call("insert_nonfull", w, n, k)
  <1> HIDE DEF w, c
  <1>6. /\ Sound(v, n, {}) /\ Tracks(t, v) /\ v.wild = t.wild /\ v.header = TRUE
        /\ v \in Cache /\ n \in InTree(v, {}) /\ n \in Nat /\ KeyCount(v, n) = 0
        /\ 1 \in DOMAIN v.page[n].children /\ Child(v, n, 1) = p
        /\ KeyCount(v, p) = MaxKeys
    <2>1. PICK children : children = <<p>>
      OBVIOUS
    <2>2. Taken(t, p, n, "internal", <<>>, children, v)
      BY <1>1, <2>1 DEF TakenAbove
    <2>3. IsAbove(t, p, n, v)
      BY <2>1, <2>2, NewRoot
    <2> QED BY <2>3 DEF IsAbove
  <1>7. MaxKeys \in Nat /\ 1 < MaxKeys /\ 0 < MaxKeys
    BY BTreeAssumption DEF MaxKeys
  <1>8. SplitDone(v, n, n, 1, w)
    <2>1. KeyCount(v, n) < MaxKeys /\ KeyCount(v, Child(v, n, 1)) = MaxKeys
      BY <1>6, <1>7
    <2> QED BY <1>6, <2>1, SplitHolds DEF w
  <1>9. /\ w \in Cache /\ Sound(w, n, {}) /\ Tracks(v, w) /\ w.wild = v.wild
        /\ n \in InTree(w, {}) /\ KeyCount(w, n) = 1
    BY <1>6, <1>8 DEF SplitDone
  <1>10. c \in Inserts(w, n)
    <2>1. KeyCount(w, n) < MaxKeys
      BY <1>7, <1>9
    <2> QED BY <1>9, <2>1, InsertCallHolds DEF c
  <1>11. c.t \in Cache /\ Sound(c.t, n, {}) /\ Tracks(w, c.t) /\ c.t.wild = w.wild
    BY <1>10 DEF Inserts, IsInsert, Calls
  <1>12. Tracks(v, c.t)
    BY <1>9, <1>11, TracksOn
  <1>13. Tracks(t, c.t)
    BY <1>6, <1>12, TracksOn
  <1>14. c.t.header = TRUE
    BY <1>6, <1>12 DEF Tracks
  <1>15. Operated(t, c.t, n)
    BY <1>6, <1>9, <1>11, <1>13, <1>14 DEF Operated
  <1> QED BY <1>1, <1>15 DEF TakenAbove, c, w

LEMMA InsertedHolds ==
  ASSUME NEW t \in Cache, NEW p \in Nat, Sound(t, p, {}), NEW k \in Int
  PROVE  Operated(t, Inserted(t, p, k).t, Inserted(t, p, k).root)
  <1>1. CASE p = NoPage
    BY <1>1, InsertsFirst
  <1>2. CASE p # NoPage
    BY <1>2, InsertsBelow, InsertsAbove
  <1> QED BY <1>1, <1>2

-----------------------------------------------------------------------------
(* The first session: the keys inserted one after the other.               *)

FillPiece(s, n, g) ==
    g = [i \in 0..n |-> IF i = 0 THEN [t |-> EmptyCache, root |-> NoPage]
                        ELSE Inserted(g[i - 1].t, g[i - 1].root, s[i])]

LEMMA FillPieces ==
  ASSUME NEW s
  PROVE  \A n \in Nat : \E g : FillPiece(s, n, g)
  <1> DEFINE Bad == {n \in Nat : ~ \E g : FillPiece(s, n, g)}
             start == [t |-> EmptyCache, root |-> NoPage]
  <1> SUFFICES ASSUME Bad # {} PROVE FALSE
    OBVIOUS
  <1>1. PICK n \in Bad : \A m \in Bad : n <= m
    BY LeastNatural
  <1>2. CASE n = 0
    <2> DEFINE h == [i \in 0..0 |-> start]
               next(i) == Inserted(h[i - 1].t, h[i - 1].root, s[i])
    <2>1. \A i \in 0..0 : i = 0 /\ h[i] = start
      OBVIOUS
    <2>2. h = [i \in 0..0 |-> h[i]]
      OBVIOUS
    <2>3. h = [i \in 0..0 |-> IF i = 0 THEN start ELSE next(i)]
      <3> HIDE DEF h, next, start
      <3> QED BY <2>1, <2>2
    <2>4. FillPiece(s, 0, h)
      BY <2>3 DEF FillPiece
    <2> QED BY <1>1, <1>2, <2>4
  <1>3. CASE n # 0
    <2>1. n - 1 \in Nat /\ n - 1 \notin Bad
      BY <1>1, <1>3
    <2>2. PICK g : FillPiece(s, n - 1, g)
      BY <2>1
    <2> DEFINE new == Inserted(g[n - 1].t, g[n - 1].root, s[n])
               h == [i \in 0..n |-> IF i = n THEN new ELSE g[i]]
               next(i) == Inserted(h[i - 1].t, h[i - 1].root, s[i])
    <2>3. \A i \in 0..n - 1 : g[i] = IF i = 0 THEN start
                                     ELSE Inserted(g[i - 1].t, g[i - 1].root, s[i])
      BY <2>2 DEF FillPiece
    <2>4. \A i \in 0..n : h[i] = IF i = n THEN new ELSE g[i]
      OBVIOUS
    <2>5. ASSUME NEW i \in 0..n
          PROVE  h[i] = IF i = 0 THEN start ELSE next(i)
      <3> HIDE DEF h, new, start
      <3>1. CASE i = 0
        BY <1>3, <2>3, <2>4, <3>1
      <3>2. CASE i # 0
        <4> DEFINE j == i - 1
        <4>1. j \in 0..n - 1 /\ j \in 0..n /\ j # n
          BY <3>2
        <4>2. h[j] = g[j]
          BY <2>4, <4>1
        <4>3. next(i) = Inserted(g[j].t, g[j].root, s[i])
          BY <4>2
        <4>4. h[i] = Inserted(g[j].t, g[j].root, s[i])
          <5>1. CASE i = n
            BY <2>4, <5>1 DEF new
          <5>2. CASE i # n
            <6>1. i \in 0..n - 1 /\ h[i] = g[i]
              BY <2>4, <5>2
            <6> QED BY <2>3, <3>2, <6>1
          <5> QED BY <5>1, <5>2
        <4> QED BY <3>2, <4>3, <4>4
      <3> QED BY <3>1, <3>2
    <2>6. h = [i \in 0..n |-> h[i]]
      OBVIOUS
    <2>7. h = [i \in 0..n |-> IF i = 0 THEN start ELSE next(i)]
      <3> HIDE DEF h, next, start
      <3> QED BY <2>5, <2>6
    <2>8. FillPiece(s, n, h)
      BY <2>7 DEF FillPiece
    <2> QED BY <1>1, <2>8
  <1> QED BY <1>2, <1>3

LEMMA FilledStays ==
  ASSUME NEW D, [t |-> EmptyCache, root |-> NoPage] \in D, NEW S,
         \A x \in D : \A k \in S : Inserted(x.t, x.root, k) \in D,
         NEW s \in Seq(S)
  PROVE  Filled(s) \in D
  <1> DEFINE n == Len(s)
             start == [t |-> EmptyCache, root |-> NoPage]
             after == CHOOSE g : FillPiece(s, n, g)
  <1>1. n \in Nat /\ \A i \in 1..n : s[i] \in S
    OBVIOUS
  <1>2. Filled(s) = after[n]
    BY DEF Filled, FillPiece
  <1>3. FillPiece(s, n, after)
    <2>1. \E g : FillPiece(s, n, g)
      BY <1>1, FillPieces
    <2> QED BY <2>1
  <1> HIDE DEF after, n
  <1>4. \A i \in 0..n : after[i] = IF i = 0 THEN start
                                   ELSE Inserted(after[i - 1].t, after[i - 1].root, s[i])
    BY <1>3 DEF FillPiece
  <1> DEFINE Bad == {i \in 0..n : after[i] \notin D}
  <1> SUFFICES ASSUME Bad # {} PROVE FALSE
    BY <1>1, <1>2
  <1>5. PICK i \in Bad : \A j \in Bad : i <= j
    <2>1. Bad \subseteq Nat
      OBVIOUS
    <2> QED BY <2>1, LeastNatural
  <1>6. i # 0
    BY <1>1, <1>4, <1>5
  <1> DEFINE j == i - 1
  <1>7. j \in 0..n /\ j \notin Bad /\ i \in 1..n
    BY <1>1, <1>5, <1>6
  <1>8. after[i] = Inserted(after[j].t, after[j].root, s[i])
    BY <1>4, <1>6, <1>7
  <1>9. after[j] \in D /\ s[i] \in S
    BY <1>1, <1>7
  <1>10. after[i] \in D
    BY <1>8, <1>9
  <1> QED BY <1>5, <1>10

\* An empty cache is sound.
LEMMA EmptyIsSound ==
  EmptyCache \in Cache /\ Sound(EmptyCache, NoPage, {})
  /\ EmptyCache.page = <<>> /\ EmptyCache.wild = FALSE /\ EmptyCache.header = TRUE
  <1> DEFINE t == EmptyCache
  <1>1. /\ t.page = <<>> /\ t.free = NoPage /\ t.dirty = {} /\ t.header = TRUE
        /\ t.wild = FALSE
    BY DEF EmptyCache
  <1>2. t \in Cache
    BY DEF EmptyCache, Cache, NoPage
  <1>3. DOMAIN t.page = {}
    BY <1>1
  <1>4. InTree(t, {}) = {} /\ OnList(t, {}) = {}
    BY <1>3 DEF InTree, OnList
  <1> DEFINE none == [q \in {} |-> 0]
  <1>5. none \in [{} -> Nat]
    OBVIOUS
  <1> HIDE DEF t, none
  <1>6. TreeHolds(t, NoPage, {}, none, none, none)
    BY <1>4 DEF TreeHolds
  <1>7. ListHolds(t, {}, none, none)
    BY <1>1, <1>4 DEF ListHolds
  <1>8. Witness(t, none, none, none)
    BY <1>3, <1>5 DEF Witness
  <1>9. Sound(t, NoPage, {})
    BY <1>2, <1>6, <1>7, <1>8 DEF Sound, Holds
  <1> QED BY <1>1, <1>2, <1>9 DEF t

\* What the first session leaves.
LEMMA FilledHolds ==
  ASSUME NEW s \in Fillings
  PROVE  LET f == Filled(s)
         IN  f.t \in Cache /\ f.root \in Nat /\ Sound(f.t, f.root, {}) /\ f.t.wild = FALSE
  <1> DEFINE D == {x \in [t : Cache, root : Nat] : Sound(x.t, x.root, {}) /\ x.t.wild = FALSE}
             start == [t |-> EmptyCache, root |-> NoPage]
  <1>1. start \in D
    <2>1. NoPage \in Nat
      BY DEF NoPage
    <2> QED BY <2>1, EmptyIsSound
  <1>2. s \in Seq(Keys) /\ Keys \subseteq Int
    BY BTreeAssumption
  <1>3. ASSUME NEW x \in D, NEW k \in Keys PROVE Inserted(x.t, x.root, k) \in D
    <2> DEFINE y == Inserted(x.t, x.root, k)
    <2>1. k \in Int
      BY <1>2
    <2>2. Operated(x.t, y.t, y.root)
      BY <2>1, InsertedHolds
    <2>3. y = [t |-> y.t, root |-> y.root]
      BY DEF Inserted
    <2> HIDE DEF y
    <2>4. y.t \in Cache /\ y.root \in Nat /\ Sound(y.t, y.root, {}) /\ y.t.wild = x.t.wild
      BY <2>2 DEF Operated
    <2>5. y \in D
      BY <2>3, <2>4
    <2> QED BY <2>5 DEF y
  <1>4. Filled(s) \in D
    <2> HIDE DEF D
    <2> QED BY <1>1, <1>2, <1>3, FilledStays
  <1> QED BY <1>4

-----------------------------------------------------------------------------
(* The inductive invariant: while no index was out of a page, the cache is *)
(* sound, and what is not as the last sync left it is marked.              *)

Covered(t, r, z, s) ==
    /\ \A p \in DOMAIN t.page :
          p \in t.dirty \/ (p \in DOMAIN s.page /\ s.page[p] = t.page[p])
    /\ t.header = TRUE \/ s = [page |-> s.page, free |-> t.free, root |-> r, size |-> z]

BTreeInv ==
    /\ tree \in Cache /\ root \in Nat
    /\ tree.wild = FALSE => Sound(tree, root, {}) /\ Covered(tree, root, size, saved)

LEMMA CoveredOn ==
  ASSUME NEW t, NEW r, NEW z, NEW s, Covered(t, r, z, s), NEW u, Tracks(t, u),
         NEW r1, NEW z1, u.header = TRUE \/ (r1 = r /\ z1 = z)
  PROVE  Covered(u, r1, z1, s)
  <1>1. \A p \in DOMAIN u.page :
           p \in u.dirty \/ (p \in DOMAIN s.page /\ s.page[p] = u.page[p])
    BY DEF Covered, Tracks
  <1>2. u.header = TRUE \/ s = [page |-> s.page, free |-> u.free, root |-> r1, size |-> z1]
    <2>1. CASE u.header = TRUE
      BY <2>1
    <2>2. CASE u.header # TRUE
      <3>1. r1 = r /\ z1 = z /\ u.free = t.free /\ t.header # TRUE
        BY <2>2 DEF Tracks
      <3>2. s = [page |-> s.page, free |-> t.free, root |-> r, size |-> z]
        BY <3>1 DEF Covered
      <3> QED BY <3>1, <3>2
    <2> QED BY <2>1, <2>2
  <1> QED BY <1>1, <1>2 DEF Covered

\* A removal that found its key: the pass down and the loop after it.
LEMMA RemovedHolds ==
  ASSUME NEW t \in Cache, NEW r \in Nat, Sound(t, r, {}), r # NoPage, t.wild = FALSE,
         NEW k \in Int,
         NEW c, c = Call("remove_from", t, r, k), c.todo = "removed",
         NEW d, d = Call("shrink_root", [c.t EXCEPT !.header = TRUE], r, k)
  PROVE  Operated(t, d.t, d.at)
  <1> DEFINE s == [c.t EXCEPT !.header = TRUE]
  <1>1. c \in Removes(t, r)
    BY RemoveCallHolds
  <1>2. c.t \in Cache /\ c.t.wild = FALSE /\ Sound(c.t, r, {}) /\ Tracks(t, c.t)
    BY <1>1 DEF Removes, IsRemove, Calls
  <1>3. /\ s \in Cache /\ s.page = c.t.page /\ s.free = c.t.free /\ s.wild = c.t.wild
        /\ s.dirty = c.t.dirty /\ s.header = TRUE
    BY <1>2 DEF Cache
  <1>4. d = Call("shrink_root", s, r, k)
    OBVIOUS
  <1> HIDE DEF s
  <1>5. Sound(s, r, {})
    BY <1>2, <1>3, SoundSame
  <1>6. Tracks(t, s)
    BY <1>2, <1>3 DEF Tracks
  <1>7. d \in Shrinks(s)
    BY <1>3, <1>4, <1>5, ShrinkCallHolds
  <1>8. /\ d.t \in Cache /\ d.at \in Nat /\ Sound(d.t, d.at, {}) /\ Tracks(s, d.t)
        /\ d.t.wild = s.wild
    BY <1>7 DEF Shrinks, IsShrink, Calls
  <1>9. Tracks(t, d.t)
    BY <1>6, <1>8, TracksOn
  <1>10. d.t.header = TRUE
    BY <1>3, <1>8 DEF Tracks
  <1>11. d.t.wild = t.wild
    BY <1>2, <1>3, <1>8
  <1> QED BY <1>8, <1>9, <1>10, <1>11 DEF Operated

\* What sync does to the marks.
LEMMA Synced ==
  ASSUME NEW t \in Cache, NEW r \in Nat, NEW z, Sound(t, r, {}),
         NEW u, u = [t EXCEPT !.dirty = {}, !.header = FALSE],
         NEW s, s = [page |-> t.page, free |-> t.free, root |-> r, size |-> z]
  PROVE  u \in Cache /\ Sound(u, r, {}) /\ Covered(u, r, z, s) /\ u.wild = t.wild
  <1>1. /\ u \in Cache /\ u.page = t.page /\ u.free = t.free /\ u.wild = t.wild
        /\ u.dirty = {} /\ u.header = FALSE
    BY DEF Cache
  <1>2. Sound(u, r, {})
    BY <1>1, SoundSame
  <1>3. s.page = t.page /\ s = [page |-> s.page, free |-> t.free, root |-> r, size |-> z]
    OBVIOUS
  <1>4. Covered(u, r, z, s)
    BY <1>1, <1>3 DEF Covered
  <1> QED BY <1>1, <1>2, <1>4

LEMMA BTreeInit == Init => BTreeInv
  <1> SUFFICES ASSUME Init PROVE BTreeInv
    OBVIOUS
  <1>1. PICK s \in Fillings :
           /\ tree = [Filled(s).t EXCEPT !.dirty = {}, !.header = FALSE]
           /\ root = Filled(s).root
           /\ size = Len(s)
           /\ saved = [page |-> Filled(s).t.page, free |-> Filled(s).t.free,
                       root |-> Filled(s).root, size |-> Len(s)]
    BY ZenonT(60) DEF Init
  <1> DEFINE t == Filled(s).t
             r == Filled(s).root
             z == Len(s)
  <1>2. t \in Cache /\ r \in Nat /\ Sound(t, r, {})
    BY FilledHolds
  <1>3. /\ tree = [t EXCEPT !.dirty = {}, !.header = FALSE]
        /\ saved = [page |-> t.page, free |-> t.free, root |-> r, size |-> z]
        /\ root = r /\ size = z
    BY <1>1
  <1> HIDE DEF t, r, z
  <1>4. tree \in Cache /\ Sound(tree, r, {}) /\ Covered(tree, r, z, saved)
    BY <1>2, <1>3, Synced, ZenonT(60)
  <1> QED BY <1>2, <1>3, <1>4 DEF BTreeInv

LEMMA BTreeNext == BTreeInv /\ [Next]_vars => BTreeInv'
  <1> SUFFICES ASSUME BTreeInv, [Next]_vars PROVE BTreeInv'
    OBVIOUS
  <1>1. tree \in Cache /\ root \in Nat /\ tree.wild \in BOOLEAN
    BY DEF BTreeInv, Cache
  <1>2. ASSUME tree.wild = FALSE
        PROVE  Sound(tree, root, {}) /\ Covered(tree, root, size, saved)
    BY <1>2 DEF BTreeInv
  <1>3. ASSUME NEW k \in Keys, InsertKey(k) PROVE BTreeInv'
    <2>1. tree.wild = FALSE /\ saved' = saved
      <3>1. ~tree.wild /\ saved' = saved
        BY <1>3 DEF InsertKey, Operate
      <3> QED BY <1>1, <3>1
    <2>2. tree' = Inserted(tree, root, k).t /\ root' = Inserted(tree, root, k).root
      BY <1>3 DEF InsertKey
    <2>3. k \in Int
      BY BTreeAssumption
    <2>4. Operated(tree, tree', root')
      BY <1>1, <1>2, <2>1, <2>2, <2>3, InsertedHolds
    <2>5. /\ tree' \in Cache /\ root' \in Nat /\ Sound(tree', root', {})
          /\ Tracks(tree, tree') /\ tree'.header = TRUE
      BY <2>4 DEF Operated
    <2>6. Covered(tree', root', size', saved)
      BY <1>2, <2>1, <2>5, CoveredOn
    <2> QED BY <2>1, <2>5, <2>6 DEF BTreeInv
  <1>4. ASSUME NEW k \in Keys, RemoveKey(k) PROVE BTreeInv'
    <2> DEFINE c == Call("remove_from", tree, root, k)
               d == Call("shrink_root", [c.t EXCEPT !.header = TRUE], root, k)
    <2>1. tree.wild = FALSE /\ saved' = saved /\ root # NoPage
      <3>1. ~tree.wild /\ saved' = saved /\ root # NoPage
        BY <1>4 DEF RemoveKey, Operate
      <3> QED BY <1>1, <3>1
    <2>2. IF c.todo = "removed" THEN tree' = d.t /\ root' = d.at
          ELSE tree' = c.t /\ root' = root /\ size' = size
      BY <1>4 DEF RemoveKey
    <2>3. k \in Int
      BY BTreeAssumption
    <2> HIDE DEF c, d
    <2>4. CASE c.todo = "removed"
      <3>1. Operated(tree, d.t, d.at)
        BY <1>1, <1>2, <2>1, <2>3, <2>4, RemovedHolds DEF c, d
      <3>2. /\ tree' \in Cache /\ root' \in Nat /\ Sound(tree', root', {})
            /\ Tracks(tree, tree') /\ tree'.header = TRUE
        BY <2>2, <2>4, <3>1 DEF Operated
      <3>3. Covered(tree', root', size', saved)
        BY <1>2, <2>1, <3>2, CoveredOn
      <3> QED BY <2>1, <3>2, <3>3 DEF BTreeInv
    <2>5. CASE c.todo # "removed"
      <3>1. tree' = c.t /\ root' = root /\ size' = size
        BY <2>2, <2>5
      <3>2. c \in Removes(tree, root)
        BY <1>1, <1>2, <2>1, <2>3, RemoveCallHolds DEF c
      <3>3. /\ tree' \in Cache
            /\ tree'.wild = FALSE => Sound(tree', root, {}) /\ Tracks(tree, tree')
        BY <3>1, <3>2 DEF Removes, IsRemove, Calls
      <3>4. tree'.wild = FALSE => Covered(tree', root', size', saved)
        BY <1>2, <2>1, <3>1, <3>3, CoveredOn
      <3> QED BY <1>1, <2>1, <3>1, <3>3, <3>4 DEF BTreeInv
    <2> QED BY <2>4, <2>5
  <1>5. ASSUME ClearTree PROVE BTreeInv'
    <2>1. tree' = EmptyCache /\ root' = NoPage
      BY <1>5 DEF ClearTree
    <2>2. tree' \in Cache /\ Sound(tree', root', {}) /\ root' \in Nat
          /\ tree'.page = <<>> /\ tree'.header = TRUE
      BY <2>1, EmptyIsSound DEF NoPage
    <2>3. Covered(tree', root', size', saved')
      BY <2>2 DEF Covered
    <2> QED BY <2>2, <2>3 DEF BTreeInv
  <1>6. ASSUME Sync PROVE BTreeInv'
    <2>1. tree.wild = FALSE /\ root' = root /\ size' = size
      <3>1. ~tree.wild /\ root' = root /\ size' = size
        BY <1>6 DEF Sync
      <3> QED BY <1>1, <3>1
    <2>2. tree' = [tree EXCEPT !.dirty = {}, !.header = FALSE]
      BY <1>6 DEF Sync
    <2>3. saved' = [page |-> tree.page, free |-> tree.free, root |-> root, size |-> size]
      BY <1>6 DEF Sync, Image
    <2>4. tree' \in Cache /\ Sound(tree', root, {}) /\ Covered(tree', root, size, saved')
      BY <1>1, <1>2, <2>1, <2>2, <2>3, Synced, ZenonT(60)
    <2> QED BY <1>1, <2>1, <2>4 DEF BTreeInv
  <1>7. ASSUME UNCHANGED vars PROVE BTreeInv'
    BY <1>7 DEF vars, BTreeInv
  <1> QED BY <1>3, <1>4, <1>5, <1>6, <1>7 DEF Next

\* The invariant holds in every state of every behaviour.
THEOREM BTreeHolds == Spec => []BTreeInv
  BY BTreeInit, BTreeNext, PTL DEF Spec

\* sync() covers every change: a page or a header field that is not as the last
\* sync wrote it is marked, whatever splits, borrows, merges and releases led
\* there (mark_dirty and header_dirty_ of tpl_file_b_tree.H).
THEOREM DirtyCoversHolds == Spec => []DirtyCovers
  <1>1. BTreeInv => DirtyCovers
    <2> SUFFICES ASSUME BTreeInv, ~tree.wild
                 PROVE  /\ \A p \in DOMAIN tree.page :
                              \/ p \in tree.dirty
                              \/ p \in DOMAIN saved.page /\ saved.page[p] = tree.page[p]
                        /\ \/ tree.header
                           \/ saved = [Image EXCEPT !.page = saved.page]
      BY DEF DirtyCovers
    <2>1. tree \in Cache
      BY DEF BTreeInv
    <2>2. tree.wild \in BOOLEAN
      BY <2>1 DEF Cache
    <2>3. tree.wild = FALSE
      BY <2>2
    <2>4. Covered(tree, root, size, saved)
      BY <2>3 DEF BTreeInv
    <2>5. \A p \in DOMAIN tree.page :
             \/ p \in tree.dirty
             \/ p \in DOMAIN saved.page /\ saved.page[p] = tree.page[p]
      BY <2>4 DEF Covered
    <2>6. tree.header \/ saved = [Image EXCEPT !.page = saved.page]
      <3>1. CASE tree.header = TRUE
        BY <3>1
      <3>2. CASE tree.header # TRUE
        <4>1. saved = [page |-> saved.page, free |-> tree.free, root |-> root, size |-> size]
          BY <2>4, <3>2 DEF Covered
        <4> DEFINE p == saved.page
        <4> HIDE DEF p
        <4>2. [Image EXCEPT !.page = p]
              = [page |-> p, free |-> tree.free, root |-> root, size |-> size]
          BY DEF Image
        <4> QED BY <4>1, <4>2 DEF p
      <3> QED BY <3>1, <3>2
    <2> QED BY <2>5, <2>6
  <1> QED BY <1>1, BTreeHolds, PTL

\* Every page in use has room for its keys, is at least half full unless it is
\* the root, and has a child more than keys unless it is a leaf: what
\* verify_node() tests.
THEOREM NodesFitHolds == Spec => []NodesFit
  <1>1. BTreeInv => NodesFit
    <2> SUFFICES ASSUME BTreeInv, ~tree.wild,
                        NEW p \in DOMAIN tree.page, tree.page[p].kind # "free"
                 PROVE  /\ Len(tree.page[p].keys) <= MaxKeys
                        /\ p # root => Len(tree.page[p].keys) >= MinKeys
                        /\ Len(tree.page[p].children) =
                              IF tree.page[p].kind = "leaf" THEN 0
                              ELSE Len(tree.page[p].keys) + 1
      BY DEF NodesFit
    <2>1. tree \in Cache
      BY DEF BTreeInv
    <2>2. tree.wild \in BOOLEAN
      BY <2>1 DEF Cache
    <2>3. tree.wild = FALSE
      BY <2>2
    <2>4. Sound(tree, root, {})
      BY <2>3 DEF BTreeInv
    <2>5. PICK by, at, level : SoundBy(tree, root, {}, by, at, level)
      BY <2>1, <2>4, SoundIs
    <2>6. p \in InTree(tree, {})
      BY DEF InTree
    <2>7. Fits(tree, root, p) /\ tree.page[p].kind \in {"leaf", "internal"}
      BY <2>1, <2>5, <2>6, PageFits
    <2>8. CASE tree.page[p].kind = "leaf"
      BY <2>7, <2>8 DEF Fits
    <2>9. CASE tree.page[p].kind = "internal"
      BY <2>7, <2>9 DEF Fits
    <2> QED BY <2>7, <2>8, <2>9
  <1> QED BY <1>1, BTreeHolds, PTL

-----------------------------------------------------------------------------
(* Every page has one place.                                               *)

\* Whoever goes to a greater level with each step, until he is at 0, is there
\* after as many steps as there are levels to pass.
LEMMA WalksEnd ==
  ASSUME NEW N \in Nat, NEW up \in [0..N -> 0..N], up[0] = 0,
         NEW level \in [1..N -> Nat],
         \A q \in 1..N : up[q] # 0 => level[q] < level[up[q]],
         NEW p \in 0..N
  PROVE  Follow(up, p, N) = 0
  <1> DEFINE g == [n \in Nat |-> Follow(up, p, n)]
  <1>1. \A n \in Nat : g[n] \in 0..N
    <2>1. \A q \in 0..N : up[q] \in 0..N
      OBVIOUS
    <2> QED BY <2>1, FollowStays
  <1>2. \A n \in Nat : n + 1 \in Nat /\ g[n + 1] = up[g[n]]
    <2>1. \A n \in Nat : Follow(up, p, n + 1) = up[Follow(up, p, n)]
      BY FollowIs, ZenonT(60)
    <2> SUFFICES ASSUME NEW n \in Nat PROVE n + 1 \in Nat /\ g[n + 1] = up[g[n]]
      OBVIOUS
    <2>2. Follow(up, p, n + 1) = up[Follow(up, p, n)]
      BY <2>1
    <2>3. n + 1 \in Nat
      OBVIOUS
    <2>4. g[n] = Follow(up, p, n) /\ g[n + 1] = Follow(up, p, n + 1)
      BY <2>3
    <2> HIDE DEF g
    <2> QED BY <2>2, <2>3, <2>4
  <1>3. g[N] = Follow(up, p, N)
    OBVIOUS
  <1> HIDE DEF g
  <1> SUFFICES ASSUME g[N] # 0 PROVE FALSE
    BY <1>3
  <1>4. \A n \in 0..N : g[n] \in 1..N
    <2> DEFINE Bad == {m \in Nat : m <= N /\ g[N - m] = 0}
    <2>1. ASSUME Bad # {} PROVE FALSE
      <3>1. PICK m \in Bad : \A k \in Bad : m <= k
        BY <2>1, LeastNatural
      <3>2. m \in Nat /\ m <= N /\ g[N - m] = 0 /\ m # 0
        BY <3>1
      <3>3. m - 1 \in Nat /\ m - 1 <= N /\ N - m \in Nat /\ N - (m - 1) = (N - m) + 1
            /\ ~(m <= m - 1)
        BY <3>2
      <3>4. g[N - (m - 1)] = 0
        BY <3>2, <3>3, <1>2
      <3>5. m - 1 \in Bad
        BY <3>3, <3>4
      <3> HIDE DEF Bad
      <3> QED BY <3>1, <3>3, <3>5
    <2>2. ASSUME NEW n \in 0..N PROVE g[n] # 0
      <3>1. N - n \in Nat /\ N - n <= N /\ N - (N - n) = n
        OBVIOUS
      <3>2. N - n \notin Bad
        BY <2>1
      <3> QED BY <3>1, <3>2
    <2>3. ASSUME NEW n \in 0..N PROVE g[n] \in 1..N
      <3>1. g[n] # 0
        BY <2>2
      <3>2. g[n] \in 0..N
        BY <1>1
      <3> QED BY <3>1, <3>2
    <2> QED BY <2>3
  <1>5. ASSUME NEW n \in 0..N
        PROVE  \A d \in 1..N : n + d <= N => level[g[n]] < level[g[n + d]]
    <2> DEFINE Bad == {d \in Nat : /\ d >= 1 /\ n + d <= N
                                   /\ ~(level[g[n]] < level[g[n + d]])}
    <2>1. ASSUME Bad # {} PROVE FALSE
      <3>1. PICK d \in Bad : \A k \in Bad : d <= k
        BY <2>1, LeastNatural
      <3>2. d \in Nat /\ d >= 1 /\ n + d <= N /\ ~(level[g[n]] < level[g[n + d]])
        BY <3>1
      <3>3. PICK e \in Nat : e + 1 = d
        <4>1. d - 1 \in Nat /\ (d - 1) + 1 = d
          BY <3>2
        <4> QED BY <4>1
      <3>4. n + e \in Nat /\ n + e \in 0..N /\ n + d = (n + e) + 1 /\ n + d \in 0..N
            /\ n + e <= N /\ ~(d <= e)
        BY <3>2, <3>3
      <3>5. g[n + d] = up[g[n + e]]
        BY <3>4, <1>2
      <3>6. g[n + e] \in 1..N /\ g[n + d] \in 1..N /\ g[n] \in 1..N
        BY <3>4, <1>4
      <3>7. level[g[n + e]] < level[g[n + d]]
        <4> DEFINE q == g[n + e]
                   r == g[n + d]
        <4>1. q \in 1..N /\ r \in 1..N /\ r = up[q]
          BY <3>5, <3>6
        <4> HIDE DEF q, r
        <4>2. level[q] < level[r]
          BY <4>1
        <4> QED BY <4>2 DEF q, r
      <3>8. e \notin Bad
        <4> HIDE DEF Bad
        <4> QED BY <3>1, <3>4
      <3>9. e = 0 \/ level[g[n]] < level[g[n + e]]
        <4>1. e = 0 \/ e >= 1
          OBVIOUS
        <4> QED BY <3>4, <3>8, <4>1
      <3> DEFINE a == level[g[n]]
                 b == level[g[n + e]]
                 c == level[g[n + d]]
      <3>10. a \in Nat /\ b \in Nat /\ c \in Nat
        BY <3>6
      <3>11. b < c /\ ~(a < c) /\ (e = 0 \/ a < b)
        BY <3>2, <3>7, <3>9
      <3>12. e = 0 => a = b
        OBVIOUS
      <3> HIDE DEF a, b, c, Bad
      <3> QED BY <3>10, <3>11, <3>12
    <2>2. ASSUME NEW d \in 1..N, n + d <= N PROVE level[g[n]] < level[g[n + d]]
      <3>1. d \notin Bad
        BY <2>1
      <3> QED BY <2>2, <3>1
    <2> QED BY <2>2
  <1> DEFINE f == [n \in 0..N |-> g[n]]
  <1>6. f \in [0..N -> 1..N]
    BY <1>4
  <1>7. /\ IsFiniteSet(0..N) /\ Cardinality(0..N) = N + 1
        /\ IsFiniteSet(1..N) /\ Cardinality(1..N) = N
    <2>1. IsFiniteSet(0..N) /\ Cardinality(0..N) = IF 0 > N THEN 0 ELSE N - 0 + 1
      BY FS_Interval
    <2>2. IsFiniteSet(1..N) /\ Cardinality(1..N) = IF 1 > N THEN 0 ELSE N - 1 + 1
      BY FS_Interval
    <2> QED BY <2>1, <2>2
  <1>8. Cardinality(1..N) < Cardinality(0..N)
    BY <1>7
  <1>9. \E x, y \in 0..N : x # y /\ f[x] = f[y]
    <2> DEFINE S == 0..N
               T == 1..N
    <2>1. f \in [S -> T] /\ IsFiniteSet(S) /\ IsFiniteSet(T)
          /\ Cardinality(T) < Cardinality(S)
      BY <1>6, <1>7, <1>8
    <2> HIDE DEF f, S, T
    <2>2. \E x, y \in S : x # y /\ f[x] = f[y]
      BY <2>1, FS_PigeonHole, SMTT(60)
    <2> QED BY <2>2 DEF S
  <1>10. PICK x \in 0..N, y \in 0..N : x < y /\ g[x] = g[y]
    <2>1. PICK x \in 0..N, y \in 0..N : x # y /\ g[x] = g[y]
      BY <1>9
    <2>2. x < y \/ y < x
      BY <2>1
    <2> QED BY <2>1, <2>2
  <1>11. PICK d \in 1..N : x + d = y
    <2>1. y - x \in 1..N /\ x + (y - x) = y
      BY <1>10
    <2> QED BY <2>1
  <1>12. x + d <= N
    BY <1>10, <1>11
  <1>13. level[g[x]] < level[g[x + d]]
    BY <1>5, <1>12
  <1>14. level[g[x]] < level[g[x]]
    BY <1>10, <1>11, <1>13
  <1>15. level[g[x]] \in Nat
    BY <1>4
  <1> QED BY <1>14, <1>15

\* Who names page p, at which place: the header the root and the first free
\* page, a free page the next one, a page of the tree its children.
Place(t, r, by, at, p) ==
    <<by[p], IF t.page[p].kind = "free" THEN 0 ELSE IF p = r THEN 1 ELSE at[p], p>>

LEMMA NamingHasPlace ==
  ASSUME tree \in Cache, root \in Nat,
         NEW by, NEW at, NEW level, Holds(tree, root, {}, by, at, level),
         NEW n \in Namings
  PROVE  n[3] \in DOMAIN tree.page /\ n = Place(tree, root, by, at, n[3])
  <1> USE DEF NoPage
  <1>1. n[3] # 0
    BY DEF Namings
  <1>2. TreeHolds(tree, root, {}, by, at, level) /\ ListHolds(tree, {}, by, level)
    BY DEF Holds
  <1>3. CASE n = <<0, 0, tree.free>>
    <2>1. n[3] = tree.free
      BY <1>3
    <2>2. tree.free \in OnList(tree, {}) /\ by[tree.free] = 0
      BY <1>1, <1>2, <2>1 DEF ListHolds
    <2>3. tree.free \in DOMAIN tree.page /\ tree.page[tree.free].kind = "free"
      BY <2>2 DEF OnList
    <2> QED BY <1>3, <2>1, <2>2, <2>3 DEF Place
  <1>4. CASE n = <<0, 1, root>>
    <2>1. n[3] = root
      BY <1>4
    <2>2. root \in InTree(tree, {}) /\ by[root] = 0
      BY <1>1, <1>2, <2>1 DEF TreeHolds
    <2>3. root \in DOMAIN tree.page /\ tree.page[root].kind # "free"
      BY <2>2 DEF InTree
    <2> QED BY <1>4, <2>1, <2>2, <2>3 DEF Place
  <1>5. ASSUME NEW q \in DOMAIN tree.page, n = <<q, 0, tree.page[q].link>>
        PROVE  n[3] \in DOMAIN tree.page /\ n = Place(tree, root, by, at, n[3])
    <2>1. n[3] = tree.page[q].link
      BY <1>5
    <2>2. q \in OnList(tree, {})
      <3>1. ASSUME q \in InTree(tree, {}) PROVE FALSE
        <4>1. Fits(tree, root, q)
          BY <1>2, <3>1 DEF TreeHolds
        <4>2. tree.page[q].link = 0
          BY <4>1 DEF Fits
        <4> QED BY <1>1, <2>1, <4>2
      <3> QED BY <1>5, <3>1 DEF InTree, OnList
    <2> DEFINE m == tree.page[q].link
    <2>3. m \in OnList(tree, {}) /\ by[m] = q
      BY <1>1, <1>2, <2>1, <2>2 DEF ListHolds
    <2>4. m \in DOMAIN tree.page /\ tree.page[m].kind = "free"
      BY <2>3 DEF OnList
    <2>5. n = <<q, 0, m>> /\ n[3] = m
      BY <1>5
    <2> HIDE DEF m
    <2> QED BY <2>3, <2>4, <2>5 DEF Place
  <1>6. ASSUME NEW q \in DOMAIN tree.page, NEW i \in DOMAIN tree.page[q].children,
               n = <<q, i, Child(tree, q, i)>>
        PROVE  n[3] \in DOMAIN tree.page /\ n = Place(tree, root, by, at, n[3])
    <2> DEFINE m == Child(tree, q, i)
    <2>1. n = <<q, i, m>> /\ n[3] = m
      BY <1>6
    <2>2. q \in InTree(tree, {})
      <3>1. ASSUME q \in OnList(tree, {}) PROVE FALSE
        <4>1. tree.page[q].children = <<>>
          BY <1>2, <3>1 DEF ListHolds, Blank
        <4> QED BY <4>1, <1>6
      <3> QED BY <1>6, <3>1 DEF InTree, OnList
    <2>3. NamesChildren(tree, {}, by, at, level, q)
      BY <1>2, <2>2 DEF TreeHolds
    <2>4. m \in InTree(tree, {}) /\ by[m] = q /\ at[m] = i
      BY <2>3, <1>6 DEF NamesChildren
    <2>5. m # root
      <3>1. ASSUME m = root PROVE FALSE
        <4>1. q \in Nat \ {0} /\ m # 0
          BY <1>1, <1>6, <2>1, PagesOf
        <4>2. by[root] = 0
          BY <1>2, <3>1, <4>1 DEF TreeHolds
        <4> QED BY <2>4, <3>1, <4>1, <4>2
      <3> QED BY <3>1
    <2>6. m \in DOMAIN tree.page /\ tree.page[m].kind # "free"
      BY <2>4 DEF InTree
    <2> HIDE DEF m
    <2> QED BY <2>1, <2>4, <2>5, <2>6 DEF Place
  <1>7. \/ n = <<0, 0, tree.free>>
        \/ n = <<0, 1, root>>
        \/ \E q \in DOMAIN tree.page : n = <<q, 0, tree.page[q].link>>
        \/ \E q \in DOMAIN tree.page : \E i \in DOMAIN tree.page[q].children :
              n = <<q, i, Child(tree, q, i)>>
    BY Zenon DEF Namings
  <1> QED BY <1>3, <1>4, <1>5, <1>6, <1>7, Zenon

LEMMA PlaceIsNaming ==
  ASSUME tree \in Cache, root \in Nat,
         NEW by, NEW at, NEW level, Holds(tree, root, {}, by, at, level),
         NEW p \in DOMAIN tree.page
  PROVE  Place(tree, root, by, at, p) \in Namings
  <1> USE DEF NoPage
  <1>1. TreeHolds(tree, root, {}, by, at, level) /\ ListHolds(tree, {}, by, level)
    BY DEF Holds
  <1>2. p # 0
    BY PagesOf
  <1>3. ASSUME NEW q, NEW i,
               \/ q = 0 /\ i = 0 /\ p = tree.free
               \/ q = 0 /\ i = 1 /\ p = root
               \/ q \in DOMAIN tree.page /\ i = 0 /\ p = tree.page[q].link
               \/ /\ q \in DOMAIN tree.page /\ i \in DOMAIN tree.page[q].children
                  /\ p = Child(tree, q, i)
        PROVE  <<q, i, p>> \in Namings
    <2> DEFINE n == <<q, i, p>>
    <2>1. n[3] # 0
      BY <1>2
    <2>2. CASE q = 0 /\ i = 0 /\ p = tree.free
      BY <2>1, <2>2, Zenon DEF Namings
    <2>3. CASE q = 0 /\ i = 1 /\ p = root
      BY <2>1, <2>3, Zenon DEF Namings
    <2>4. CASE q \in DOMAIN tree.page /\ i = 0 /\ p = tree.page[q].link
      BY <2>1, <2>4, Zenon DEF Namings
    <2>5. CASE /\ q \in DOMAIN tree.page /\ i \in DOMAIN tree.page[q].children
               /\ p = Child(tree, q, i)
      <3> DEFINE S(x) == {<<x, j, Child(tree, x, j)>> : j \in DOMAIN tree.page[x].children}
      <3>1. n = <<q, i, Child(tree, q, i)>>
        BY <2>5
      <3>2. n \in S(q)
        BY <2>5, <3>1, Zenon
      <3> DEFINE F == {S(x) : x \in DOMAIN tree.page}
      <3>3. S(q) \in F
        BY <2>5
      <3> HIDE DEF n, S
      <3>4. n \in UNION F
        BY <3>2, <3>3
      <3>5. UNION F = UNION {{<<x, j, Child(tree, x, j)>> :
                                 j \in DOMAIN tree.page[x].children} :
                                x \in DOMAIN tree.page}
        BY DEF F, S
      <3> HIDE DEF F
      <3> DEFINE G == {<<NoPage, 0, tree.free>>, <<NoPage, 1, root>>}
                         \cup {<<x, 0, tree.page[x].link>> : x \in DOMAIN tree.page}
      <3>6. Namings = {m \in G \cup UNION F : m[3] # NoPage}
        BY <3>5, Zenon DEF Namings
      <3> HIDE DEF G
      <3> QED BY <2>1, <3>4, <3>6 DEF n
    <2> QED BY <1>3, <2>2, <2>3, <2>4, <2>5
  <1>4. CASE tree.page[p].kind = "free"
    <2>1. p \in OnList(tree, {})
      BY <1>4 DEF OnList
    <2>2. IF by[p] = 0 THEN tree.free = p
          ELSE by[p] \in OnList(tree, {}) /\ tree.page[by[p]].link = p
      BY <1>1, <2>1 DEF ListHolds
    <2>3. \/ by[p] = 0 /\ p = tree.free
          \/ by[p] \in DOMAIN tree.page /\ p = tree.page[by[p]].link
      BY <2>2 DEF OnList
    <2>4. <<by[p], 0, p>> \in Namings
      BY <1>3, <2>3
    <2> QED BY <1>4, <2>4 DEF Place
  <1>5. CASE tree.page[p].kind # "free" /\ p = root
    <2>1. by[p] = 0
      BY <1>1, <1>2, <1>5 DEF TreeHolds
    <2>2. <<by[p], 1, p>> \in Namings
      BY <1>3, <1>5, <2>1
    <2> QED BY <1>5, <2>2 DEF Place
  <1>6. CASE tree.page[p].kind # "free" /\ p # root
    <2>1. p \in InTree(tree, {})
      BY <1>6 DEF InTree
    <2>2. IsNamed(tree, {}, by, at, p)
      BY <1>1, <1>6, <2>1 DEF TreeHolds
    <2>3. by[p] \in DOMAIN tree.page /\ at[p] \in DOMAIN tree.page[by[p]].children
          /\ p = Child(tree, by[p], at[p])
      BY <2>2 DEF IsNamed, InTree
    <2>4. <<by[p], at[p], p>> \in Namings
      BY <1>3, <2>3
    <2> QED BY <1>6, <2>4 DEF Place
  <1> QED BY <1>4, <1>5, <1>6

\* allocate_page and release_page: every page of the cache is named exactly
\* once, the free ones by the free list and the others by the tree, and whoever
\* goes from a page to the one that names it comes to the header.
THEOREM PagesAccountedHolds == Spec => []PagesAccounted
  <1>1. BTreeInv => PagesAccounted
    <2> SUFFICES ASSUME BTreeInv, ~tree.wild PROVE PagesAccounted
      BY DEF PagesAccounted
    <2> USE DEF NoPage
    <2>1. tree \in Cache /\ root \in Nat
      BY DEF BTreeInv
    <2>2. tree.wild \in BOOLEAN
      BY <2>1 DEF Cache
    <2>3. tree.wild = FALSE
      BY <2>2
    <2>4. Sound(tree, root, {})
      BY <2>3 DEF BTreeInv
    <2>5. PICK by, at, level : Holds(tree, root, {}, by, at, level)
      BY <2>4 DEF Sound
    <2> DEFINE place(p) == Place(tree, root, by, at, p)
               N == Len(tree.page)
    <2>6. \A n \in Namings : n[3] \in DOMAIN tree.page /\ n = place(n[3])
      BY <2>1, <2>5, NamingHasPlace
    <2>7. \A p \in DOMAIN tree.page : place(p) \in Namings
      BY <2>1, <2>5, PlaceIsNaming
    <2>8. \A p : place(p)[1] = by[p] /\ place(p)[3] = p
      BY DEF Place
    <2>9. DOMAIN tree.page = 1..N /\ N \in Nat
      BY <2>1, PagesOf
    <2>10. \A p \in DOMAIN tree.page :
              /\ tree.page[p].kind = "free" <=> place(p)[2] = 0
              /\ by[p] \in 0..N
              /\ by[p] # 0 => level[p] < level[by[p]]
              /\ level[p] \in Nat
      <3> SUFFICES ASSUME NEW p \in DOMAIN tree.page
                   PROVE  /\ tree.page[p].kind = "free" <=> place(p)[2] = 0
                          /\ by[p] \in 0..N
                          /\ by[p] # 0 => level[p] < level[by[p]]
                          /\ level[p] \in Nat
        OBVIOUS
      <3>1. /\ TreeHolds(tree, root, {}, by, at, level) /\ ListHolds(tree, {}, by, level)
            /\ level \in [DOMAIN tree.page -> Nat]
        BY <2>5 DEF Holds, Witness
      <3>2. place(p)[2] = IF tree.page[p].kind = "free" THEN 0
                          ELSE IF p = root THEN 1 ELSE at[p]
        BY DEF Place
      <3> HIDE DEF place
      <3>3. level[p] \in Nat
        BY <3>1
      <3>4. CASE tree.page[p].kind = "free"
        <4>1. p \in OnList(tree, {})
          BY <3>4 DEF OnList
        <4>2. by[p] = 0 \/ (by[p] \in OnList(tree, {}) /\ tree.page[by[p]].link = p)
          BY <3>1, <4>1 DEF ListHolds
        <4>3. by[p] # 0 => by[p] \in DOMAIN tree.page /\ level[p] < level[by[p]]
          <5> SUFFICES ASSUME by[p] # 0
                       PROVE  by[p] \in DOMAIN tree.page /\ level[p] < level[by[p]]
            OBVIOUS
          <5>1. by[p] \in OnList(tree, {}) /\ tree.page[by[p]].link = p /\ p # 0
            BY <2>9, <4>2
          <5>2. level[p] < level[by[p]]
            BY <3>1, <5>1 DEF ListHolds
          <5> QED BY <5>1, <5>2 DEF OnList
        <4> QED BY <2>9, <3>2, <3>3, <3>4, <4>3
      <3>5. CASE tree.page[p].kind # "free" /\ p = root
        <4>1. by[p] = 0
          BY <2>9, <3>1, <3>5 DEF TreeHolds
        <4> QED BY <2>9, <3>2, <3>3, <3>5, <4>1
      <3>6. CASE tree.page[p].kind # "free" /\ p # root
        <4>1. p \in InTree(tree, {})
          BY <3>6 DEF InTree
        <4>2. IsNamed(tree, {}, by, at, p)
          BY <3>1, <3>6, <4>1 DEF TreeHolds
        <4>3. /\ by[p] \in InTree(tree, {}) /\ at[p] \in DOMAIN tree.page[by[p]].children
              /\ Child(tree, by[p], at[p]) = p
          BY <4>2 DEF IsNamed
        <4>4. NamesChildren(tree, {}, by, at, level, by[p])
          BY <3>1, <4>3 DEF TreeHolds
        <4>5. level[p] + 1 = level[by[p]]
          BY <4>3, <4>4 DEF NamesChildren
        <4>6. by[p] \in DOMAIN tree.page
          BY <4>3 DEF InTree
        <4>7. at[p] # 0
          BY <2>1, <4>3, <4>6, PagesOf
        <4>8. level[p] < level[by[p]]
          BY <3>1, <3>3, <4>5, <4>6
        <4>9. by[p] \in 0..N
          BY <2>9, <4>6
        <4> QED BY <3>2, <3>3, <3>6, <4>7, <4>8, <4>9
      <3> QED BY <3>4, <3>5, <3>6
    <2> HIDE DEF place, N
    <2> DEFINE namer == [p \in {NoPage} \cup DOMAIN tree.page |->
                            IF p = NoPage THEN NoPage
                            ELSE (CHOOSE n \in Namings : n[3] = p)[1]]
    <2>11. DOMAIN tree.page = {n[3] : n \in Namings}
      BY <2>6, <2>7, <2>8
    <2>12. \A n, m \in Namings : n[3] = m[3] => n = m
      BY <2>6
    <2>13. \A n \in Namings : tree.page[n[3]].kind = "free" <=> n[2] = 0
      BY <2>6, <2>10
    <2>14. namer \in [0..N -> 0..N] /\ namer[0] = 0 /\ \A p \in 1..N : namer[p] = by[p]
      <3>1. {NoPage} \cup DOMAIN tree.page = 0..N
        BY <2>9
      <3>2. \A p \in 1..N : (CHOOSE n \in Namings : n[3] = p) = place(p)
        <4> SUFFICES ASSUME NEW p \in 1..N
                     PROVE  (CHOOSE n \in Namings : n[3] = p) = place(p)
          OBVIOUS
        <4>1. place(p) \in Namings /\ place(p)[3] = p
          BY <2>7, <2>8, <2>9
        <4>2. \A n \in Namings : n[3] = p => n = place(p)
          BY <2>6
        <4> QED BY <4>1, <4>2
      <3>3. \A p \in 1..N : p \in 0..N /\ p # 0 /\ namer[p] = by[p]
        BY <2>8, <2>9, <3>1, <3>2
      <3>4. namer[0] = 0 /\ DOMAIN namer = 0..N /\ namer = [p \in 0..N |-> namer[p]]
        BY <3>1
      <3> HIDE DEF namer
      <3>5. \A p \in 0..N : namer[p] \in 0..N
        <4>1. \A p \in 0..N : p = 0 \/ p \in 1..N
          BY <2>9
        <4> QED BY <2>9, <2>10, <3>3, <3>4, <4>1
      <3> QED BY <3>3, <3>4, <3>5
    <2> HIDE DEF namer
    <2>15. \A p \in 1..N : Follow(namer, p, N) = NoPage
      <3> DEFINE rise == [p \in 1..N |-> level[p]]
      <3>1. rise \in [1..N -> Nat]
        BY <2>9, <2>10
      <3>2. \A q \in 1..N : namer[q] # 0 => rise[q] < rise[namer[q]]
        <4> SUFFICES ASSUME NEW q \in 1..N, namer[q] # 0
                     PROVE  rise[q] < rise[namer[q]]
          OBVIOUS
        <4>1. namer[q] = by[q] /\ namer[q] \in 1..N
          BY <2>9, <2>10, <2>14
        <4>2. level[q] < level[by[q]]
          BY <2>9, <2>10, <4>1
        <4> QED BY <4>1, <4>2
      <3>3. \A p \in 1..N : p \in 0..N
        OBVIOUS
      <3> HIDE DEF rise
      <3> QED BY <2>9, <2>14, <3>1, <3>2, <3>3, WalksEnd
    <2> QED BY <2>9, <2>11, <2>12, <2>13, <2>15 DEF PagesAccounted, namer, N
  <1> QED BY <1>1, BTreeHolds, PTL

-----------------------------------------------------------------------------
(* For PagedBTreeOrderProofs: keys in order, page by page.  Each page is     *)
(* given the set of cuts its keys may lie between (may).  A cut is a place   *)
(* between two integers: cut c lies before c and after c - 1.                *)

\* The cuts of m that a page with the keys ks leaves to its child i.
Gap(m, ks, i) ==
    {c \in m : \A j \in DOMAIN ks : IF j < i THEN ks[j] < c ELSE c <= ks[j]}

\* The key x has a cut of m on either side.
Inside(x, m) == x \in m /\ x + 1 \in m

Convex(m) ==
    m \subseteq Int /\ \A a, b \in m : \A c \in Int : a <= c /\ c <= b => c \in m

Ascends(ks) == \A i, j \in DOMAIN ks : i < j => ks[i] < ks[j]

\* Each child of a page has the cuts between its neighbour keys.
Allots(m, ks, cs, may) == \A j \in DOMAIN cs : may[cs[j]] = Gap(m, ks, j)

\* A page in order: its keys lie inside its cuts and ascend.
InPlace(m, ks, cs, may) ==
    /\ Convex(m)
    /\ \A j \in DOMAIN ks : Inside(ks[j], m)
    /\ Ascends(ks)
    /\ Allots(m, ks, cs, may)

\* A tree in order, with the names of its shape.
Sorted(D, T, r, kids, keys, by, at, level, may) ==
    /\ Names(D, T, by, at, level)
    /\ Forest(T, r, kids, by, at, level)
    /\ may[r] = Int
    /\ \A q \in T :
          /\ keys[q] \in Seq(Int) /\ kids[q] \in Seq(Nat)
          /\ level[q] = 0 => kids[q] = <<>>
          /\ level[q] # 0 => Len(kids[q]) = Len(keys[q]) + 1
          /\ InPlace(may[q], keys[q], kids[q], may)

\* The keys in the pages.
Held(T, keys) == UNION {ToSet(keys[q]) : q \in T}

LEMMA GapShrinks ==
  ASSUME NEW m, Convex(m), NEW ks \in Seq(Int), NEW i \in Nat
  PROVE  Gap(m, ks, i) \subseteq m /\ Convex(Gap(m, ks, i))
<1>1. \A j \in DOMAIN ks : ks[j] \in Int /\ j \in Int
  OBVIOUS
<1>2. Gap(m, ks, i) \subseteq m /\ m \subseteq Int
  BY DEF Gap, Convex
<1>3. ASSUME NEW a \in Gap(m, ks, i), NEW b \in Gap(m, ks, i), NEW c \in Int, a <= c, c <= b
      PROVE  c \in Gap(m, ks, i)
  <2>1. c \in m /\ a \in Int /\ b \in Int
    BY <1>2, <1>3 DEF Convex
  <2>2. \A j \in DOMAIN ks : IF j < i THEN ks[j] < a ELSE b <= ks[j]
    BY DEF Gap
  <2>3. \A j \in DOMAIN ks : IF j < i THEN ks[j] < c ELSE c <= ks[j]
    BY <2>1, <2>2, <1>1, <1>3
  <2>4. QED
    BY <2>1, <2>3 DEF Gap
<1>4. QED
  BY <1>2, <1>3 DEF Convex

\* What holds of a page of a tree in order.
LEMMA SortedPage ==
  ASSUME NEW D, NEW T, NEW r, NEW kids, NEW keys, NEW by, NEW at, NEW level, NEW may,
         Sorted(D, T, r, kids, keys, by, at, level, may), NEW q \in T
  PROVE  /\ q \in D /\ q \in Nat /\ q # NoPage
         /\ r # NoPage /\ r \in T /\ by[r] = NoPage
         /\ level[q] \in Nat /\ level[q] <= level[r]
         /\ keys[q] \in Seq(Int) /\ kids[q] \in Seq(Nat)
         /\ level[q] = 0 => kids[q] = <<>>
         /\ level[q] # 0 => Len(kids[q]) = Len(keys[q]) + 1
         /\ DOMAIN kids[q] = 1..Len(kids[q]) /\ DOMAIN keys[q] = 1..Len(keys[q])
         /\ \A j \in DOMAIN keys[q] : keys[q][j] \in Int
         /\ Convex(may[q]) /\ may[q] \subseteq Int
         /\ \A j \in DOMAIN keys[q] : Inside(keys[q][j], may[q])
         /\ Ascends(keys[q])
         /\ \A j \in DOMAIN kids[q] : /\ may[kids[q][j]] = Gap(may[q], keys[q], j)
                                      /\ kids[q][j] \in T
                                      /\ by[kids[q][j]] = q /\ at[kids[q][j]] = j
                                      /\ level[kids[q][j]] + 1 = level[q]
                                      /\ kids[q][j] # r /\ kids[q][j] # q
<1>1. Names(D, T, by, at, level) /\ Forest(T, r, kids, by, at, level)
  BY DEF Sorted
<1>2. /\ keys[q] \in Seq(Int) /\ kids[q] \in Seq(Nat)
      /\ level[q] = 0 => kids[q] = <<>>
      /\ level[q] # 0 => Len(kids[q]) = Len(keys[q]) + 1
      /\ InPlace(may[q], keys[q], kids[q], may)
  BY Zenon DEF Sorted
<1>3. /\ q \in D /\ q \in Nat /\ q # NoPage
      /\ r # NoPage /\ r \in T /\ by[r] = NoPage
      /\ level[q] \in Nat /\ level[q] <= level[r]
      /\ \A i \in DOMAIN kids[q] :
            LET c == kids[q][i]
            IN  /\ c \in T /\ by[c] = q /\ at[c] = i /\ level[c] + 1 = level[q]
                /\ c # r /\ c # q
  BY <1>1, ShapePage
<1>4. DOMAIN kids[q] = 1..Len(kids[q]) /\ DOMAIN keys[q] = 1..Len(keys[q])
      /\ \A j \in DOMAIN keys[q] : keys[q][j] \in Int
  BY <1>2
<1>5. Convex(may[q]) /\ may[q] \subseteq Int
  BY <1>2, Zenon DEF InPlace, Convex
<1>7. (\A j \in DOMAIN keys[q] : Inside(keys[q][j], may[q]))
      /\ Ascends(keys[q])
      /\ \A j \in DOMAIN kids[q] : may[kids[q][j]] = Gap(may[q], keys[q], j)
  BY <1>2, Zenon DEF InPlace, Allots
<1>6. QED
  BY <1>2, <1>3, <1>4, <1>5, <1>7

\* Whoever is not the root has a gap of the page above.
LEMMA SortedBelow ==
  ASSUME NEW D, NEW T, NEW r, NEW kids, NEW keys, NEW by, NEW at, NEW level, NEW may,
         Sorted(D, T, r, kids, keys, by, at, level, may), NEW q \in T, q # r
  PROVE  /\ by[q] \in T /\ at[q] \in DOMAIN kids[by[q]] /\ at[q] \in Nat
         /\ kids[by[q]][at[q]] = q
         /\ level[q] + 1 = level[by[q]] /\ level[by[q]] \in Nat
         /\ may[q] = Gap(may[by[q]], keys[by[q]], at[q]) /\ may[q] \subseteq may[by[q]]
<1>1. Names(D, T, by, at, level) /\ Forest(T, r, kids, by, at, level)
  BY DEF Sorted
<1>2. /\ by[q] \in T /\ at[q] \in DOMAIN kids[by[q]] /\ at[q] \in Nat
      /\ kids[by[q]][at[q]] = q /\ level[q] + 1 = level[by[q]]
  BY <1>1, ShapePage
<1>3. may[kids[by[q]][at[q]]] = Gap(may[by[q]], keys[by[q]], at[q])
      /\ level[by[q]] \in Nat
  BY <1>2, SortedPage
<1>4. QED
  BY <1>2, <1>3 DEF Gap

LEMMA GapsApart ==
  ASSUME NEW m, m \subseteq Int, NEW ks \in Seq(Int), NEW i \in Nat, NEW j \in Nat,
         i \in 1..Len(ks) + 1, j \in 1..Len(ks) + 1, i < j,
         NEW c, c \in Gap(m, ks, i), c \in Gap(m, ks, j)
  PROVE  FALSE
<1>1. i \in DOMAIN ks /\ ks[i] \in Int /\ c \in Int
  BY DEF Gap
<1>2. c <= ks[i] /\ ks[i] < c
  BY <1>1 DEF Gap
<1>3. QED
  BY <1>1, <1>2

\* Pages of one level have no cut in common.
LEMMA LevelsApart ==
  ASSUME NEW D, NEW T, NEW r, NEW kids, NEW keys, NEW by, NEW at, NEW level, NEW may,
         Sorted(D, T, r, kids, keys, by, at, level, may),
         NEW p \in T, NEW q \in T, level[p] = level[q],
         NEW c, c \in may[p], c \in may[q]
  PROVE  p = q
<1> DEFINE Shared(n) == \E x, y \in T : /\ x # y /\ level[x] = level[y]
                                        /\ level[x] + n = level[r]
                                        /\ c \in may[x] /\ c \in may[y]
           Bad == {n \in Nat : Shared(n)}
<1>1. SUFFICES ASSUME p # q PROVE FALSE
  OBVIOUS
<1>2. level[p] \in Nat /\ level[r] \in Nat /\ level[p] <= level[r]
  BY SortedPage
<1>3. PICK n \in Nat : level[p] + n = level[r]
  <2>1. level[r] - level[p] \in Nat /\ level[p] + (level[r] - level[p]) = level[r]
    BY <1>2
  <2>2. QED
    BY <2>1
<1>4. n \in Bad
  BY <1>1, <1>3
<1>5. PICK m \in Bad : \A k \in Bad : m <= k
  <2> HIDE DEF Shared
  <2>1. Bad \subseteq Nat /\ Bad # {}
    BY <1>4
  <2> HIDE DEF Bad
  <2>2. QED
    BY <2>1, LeastNatural
<1>6. m \in Nat /\ Shared(m)
  BY <1>5
<1>7. PICK x \in T, y \in T : /\ x # y /\ level[x] = level[y]
                              /\ level[x] + m = level[r]
                              /\ c \in may[x] /\ c \in may[y]
  BY <1>6
<1>8. x # r /\ y # r
  <2>1. ASSUME NEW u \in T, u # r PROVE level[u] # level[r]
    <3>1. level[u] + 1 = level[by[u]] /\ by[u] \in T
      BY <2>1, SortedBelow
    <3>2. level[by[u]] <= level[r] /\ level[u] \in Nat /\ level[r] \in Nat
      BY <3>1, <2>1, SortedPage
    <3>3. QED
      BY <3>1, <3>2
  <2>2. QED
    BY <2>1, <1>7
<1>9. /\ by[x] \in T /\ at[x] \in DOMAIN kids[by[x]] /\ at[x] \in Nat /\ kids[by[x]][at[x]] = x
      /\ level[x] + 1 = level[by[x]] /\ c \in Gap(may[by[x]], keys[by[x]], at[x])
      /\ c \in may[by[x]]
  BY <1>7, <1>8, SortedBelow
<1>10. /\ by[y] \in T /\ at[y] \in DOMAIN kids[by[y]] /\ at[y] \in Nat /\ kids[by[y]][at[y]] = y
       /\ level[y] + 1 = level[by[y]] /\ c \in Gap(may[by[y]], keys[by[y]], at[y])
       /\ c \in may[by[y]]
  BY <1>7, <1>8, SortedBelow
<1>11. by[x] = by[y]
  <2>1. SUFFICES ASSUME by[x] # by[y] PROVE FALSE
    OBVIOUS
  <2>2. level[x] \in Nat /\ level[by[x]] \in Nat /\ level[r] \in Nat /\ level[by[x]] <= level[r]
    BY <1>7, <1>9, SortedPage
  <2>3. PICK e \in Nat : e + 1 = m
    <3>1. m - 1 \in Nat /\ (m - 1) + 1 = m
      BY <2>2, <1>6, <1>7, <1>9
    <3>2. QED
      BY <3>1
  <2>4. level[by[x]] + e = level[r] /\ level[by[x]] = level[by[y]]
    BY <2>2, <2>3, <1>7, <1>9, <1>10
  <2>5. Shared(e)
    BY <2>1, <2>4, <1>9, <1>10
  <2>6. e \in Bad
    BY <2>3, <2>5
  <2>7. m <= e
    BY <2>6, <1>5
  <2>8. QED
    BY <2>7, <2>3, <1>6
<1>12. at[x] # at[y]
  BY <1>7, <1>9, <1>10, <1>11
<1>13. /\ keys[by[x]] \in Seq(Int) /\ may[by[x]] \subseteq Int
       /\ level[by[x]] # 0 => Len(kids[by[x]]) = Len(keys[by[x]]) + 1
       /\ DOMAIN kids[by[x]] = 1..Len(kids[by[x]]) /\ level[x] \in Nat
  <2>1. keys[by[x]] \in Seq(Int)
    BY <1>9, SortedPage
  <2>2. may[by[x]] \subseteq Int
    BY <1>9, SortedPage
  <2>3. ASSUME level[by[x]] # 0 PROVE Len(kids[by[x]]) = Len(keys[by[x]]) + 1
    <3>1. by[x] \in T
      BY <1>9
    <3>2. \A z \in T : level[z] # 0 => Len(kids[z]) = Len(keys[z]) + 1
      BY SortedPage
    <3>3. QED
      BY <3>1, <3>2, <2>3
  <2>4. DOMAIN kids[by[x]] = 1..Len(kids[by[x]])
    BY <1>9, SortedPage
  <2>5. level[x] \in Nat
    BY SortedPage
  <2>6. QED
    BY <2>1, <2>2, <2>3, <2>4, <2>5
<1>14. at[x] \in 1..Len(keys[by[x]]) + 1 /\ at[y] \in 1..Len(keys[by[x]]) + 1
  BY <1>13, <1>9, <1>10, <1>11
<1>15. CASE at[x] < at[y]
  BY <1>15, <1>14, <1>13, <1>9, <1>10, <1>11, GapsApart
<1>16. CASE at[y] < at[x]
  BY <1>16, <1>14, <1>13, <1>9, <1>10, <1>11, GapsApart
<1>17. QED
  BY <1>12, <1>15, <1>16, <1>9, <1>10

\* A key of a page lies in the cuts of no page further down.
LEMMA KeyNotBelow ==
  ASSUME NEW D, NEW T, NEW r, NEW kids, NEW keys, NEW by, NEW at, NEW level, NEW may,
         Sorted(D, T, r, kids, keys, by, at, level, may),
         NEW p \in T, NEW j \in DOMAIN keys[p], NEW q \in T, level[q] < level[p]
  PROVE  ~Inside(keys[p][j], may[q])
<1> DEFINE x == keys[p][j]
           Deep(n) == \E u \in T : /\ level[u] + n = level[p] /\ level[u] < level[p]
                                   /\ Inside(x, may[u])
           Bad == {n \in Nat : Deep(n)}
<1>1. SUFFICES ASSUME Inside(x, may[q]) PROVE FALSE
  OBVIOUS
<1>2. /\ level[q] \in Nat /\ level[p] \in Nat
      /\ x \in Int /\ Inside(x, may[p]) /\ keys[p] \in Seq(Int) /\ j \in 1..Len(keys[p])
  BY SortedPage
<1> HIDE DEF x
<1>3. PICK n \in Nat : level[q] + n = level[p]
  <2>1. level[p] - level[q] \in Nat /\ level[q] + (level[p] - level[q]) = level[p]
    BY <1>2
  <2>2. QED
    BY <2>1
<1>4. n \in Bad
  BY <1>1, <1>3
<1>5. PICK m \in Bad : \A k \in Bad : m <= k
  <2> HIDE DEF Deep
  <2>1. Bad \subseteq Nat /\ Bad # {}
    BY <1>4
  <2> HIDE DEF Bad
  <2>2. QED
    BY <2>1, LeastNatural
<1>6. m \in Nat /\ Deep(m)
  BY <1>5
<1>7. PICK u \in T : level[u] + m = level[p] /\ level[u] < level[p] /\ Inside(x, may[u])
  BY <1>6
<1>8. level[u] \in Nat /\ level[p] <= level[r]
  BY SortedPage
<1>9. u # r
  BY <1>7, <1>8, <1>2
<1>10. /\ by[u] \in T /\ at[u] \in DOMAIN kids[by[u]] /\ at[u] \in Nat /\ kids[by[u]][at[u]] = u
       /\ level[u] + 1 = level[by[u]] /\ may[u] = Gap(may[by[u]], keys[by[u]], at[u])
       /\ may[u] \subseteq may[by[u]]
  BY <1>9, SortedBelow
<1>11. Inside(x, may[by[u]])
  BY <1>7, <1>10 DEF Inside
<1>12. CASE level[by[u]] = level[p]
  <2>1. by[u] = p
    BY <1>12, <1>10, <1>11, <1>2, LevelsApart DEF Inside
  <2>2. x \in Gap(may[p], keys[p], at[u]) /\ x + 1 \in Gap(may[p], keys[p], at[u])
    BY <2>1, <1>7, <1>10 DEF Inside
  <2>3. IF j < at[u] THEN keys[p][j] < x ELSE x + 1 <= keys[p][j]
    BY <2>2 DEF Gap
  <2>4. QED
    BY <2>3, <1>2 DEF x
<1>13. CASE level[by[u]] # level[p]
  <2>1. PICK e \in Nat : e + 1 = m
    <3>1. m - 1 \in Nat /\ (m - 1) + 1 = m
      BY <1>2, <1>6, <1>7, <1>8, <1>10
    <3>2. QED
      BY <3>1
  <2>2. level[by[u]] + e = level[p] /\ level[by[u]] < level[p]
    <3> HIDE DEF Bad, Deep
    <3>1. level[u] + 1 = level[by[u]]
      BY <1>10
    <3>2. level[u] + m = level[p] /\ level[u] < level[p]
      BY <1>7
    <3>3. m \in Nat /\ level[u] \in Nat /\ level[p] \in Nat
      BY <1>6, <1>8, <1>2
    <3>4. level[by[u]] + e = level[p]
      BY <3>1, <3>2, <3>3, <2>1
    <3>5. level[by[u]] < level[p]
      BY <3>1, <3>2, <3>3, <1>13
    <3>6. QED
      BY <3>4, <3>5
  <2>3. Deep(e)
    BY <2>2, <1>10, <1>11
  <2>4. m <= e
    <3>1. e \in Bad
      BY <2>1, <2>3
    <3>2. QED
      BY <3>1, <1>5
  <2>5. QED
    BY <2>4, <2>1, <1>6
<1>14. QED
  BY <1>12, <1>13

\* A key is in one page.
LEMMA KeyOnce ==
  ASSUME NEW D, NEW T, NEW r, NEW kids, NEW keys, NEW by, NEW at, NEW level, NEW may,
         Sorted(D, T, r, kids, keys, by, at, level, may),
         NEW p \in T, NEW i \in DOMAIN keys[p], NEW q \in T, NEW j \in DOMAIN keys[q],
         keys[p][i] = keys[q][j]
  PROVE  p = q /\ i = j
<1>1. /\ level[p] \in Nat /\ Inside(keys[p][i], may[p])
      /\ i \in Int /\ keys[p][i] \in Int /\ Ascends(keys[p])
  BY SortedPage
<1>2. /\ level[q] \in Nat /\ Inside(keys[q][j], may[q])
      /\ j \in Int /\ keys[q][j] \in Int
  BY SortedPage
<1>3. ~(level[p] < level[q])
  BY <1>1, KeyNotBelow
<1>4. ~(level[q] < level[p])
  BY <1>2, KeyNotBelow
<1>5. level[p] = level[q]
  BY <1>1, <1>2, <1>3, <1>4
<1>6. p = q
  BY <1>1, <1>2, <1>5, LevelsApart DEF Inside
<1>7. i = j
  <2>1. i < j => keys[p][i] < keys[p][j]
    BY <1>1, <1>6 DEF Ascends
  <2>2. j < i => keys[p][j] < keys[p][i]
    BY <1>1, <1>6 DEF Ascends
  <2>3. QED
    BY <2>1, <2>2, <1>1, <1>2, <1>6
<1>8. QED
  BY <1>6, <1>7

\* A key that lies in the cuts of a leaf is in that leaf, if it is in any page.
LEMMA KeyInLeaf ==
  ASSUME NEW D, NEW T, NEW r, NEW kids, NEW keys, NEW by, NEW at, NEW level, NEW may,
         Sorted(D, T, r, kids, keys, by, at, level, may),
         NEW q \in T, level[q] = 0, NEW x \in Held(T, keys), Inside(x, may[q])
  PROVE  \E j \in DOMAIN keys[q] : keys[q][j] = x
<1>1. PICK p \in T : \E j \in DOMAIN keys[p] : keys[p][j] = x
  BY DEF Held, ToSet
<1>2. PICK j \in DOMAIN keys[p] : keys[p][j] = x
  BY <1>1
<1>3. level[p] \in Nat /\ Inside(x, may[p])
  BY <1>2, SortedPage
<1>4. ~(level[q] < level[p])
  BY <1>2, KeyNotBelow
<1>5. p = q
  BY <1>3, <1>4, LevelsApart DEF Inside
<1>6. QED
  BY <1>2, <1>5

\* Whoever lies in the cuts of a page and is not one of its keys lies in a gap.
Finds(ks, i, x) ==
    /\ i \in 1..Len(ks) + 1
    /\ \A j \in DOMAIN ks : IF j < i THEN ks[j] < x ELSE x <= ks[j]

LEMMA InGap ==
  ASSUME NEW m, NEW ks \in Seq(Int), NEW i, NEW x \in Int, Inside(x, m),
         Finds(ks, i, x)
  PROVE  /\ x \in Gap(m, ks, i)
         /\ (\A j \in DOMAIN ks : ks[j] # x) => Inside(x, Gap(m, ks, i))
<1>1. \A j \in DOMAIN ks : ks[j] \in Int
  OBVIOUS
<1>2. x \in m /\ x + 1 \in m
  BY DEF Inside
<1>3. \A j \in DOMAIN ks : IF j < i THEN ks[j] < x ELSE x <= ks[j]
  BY DEF Finds
<1>4. x \in Gap(m, ks, i)
  BY <1>2, <1>3 DEF Gap
<1>5. ASSUME \A j \in DOMAIN ks : ks[j] # x PROVE x + 1 \in Gap(m, ks, i)
  <2>1. \A j \in DOMAIN ks : IF j < i THEN ks[j] < x + 1 ELSE x + 1 <= ks[j]
    BY <1>1, <1>3, <1>5
  <2>2. QED
    BY <2>1, <1>2 DEF Gap
<1>6. QED
  BY <1>4, <1>5 DEF Inside

LEMMA CountFinds ==
  ASSUME NEW ks \in Seq(Int), Ascends(ks), NEW k \in Int
  PROVE  Finds(ks, Cardinality({j \in DOMAIN ks : ks[j] < k}) + 1, k)
<1> DEFINE Ends == {n \in 0..Len(ks) : n = Len(ks) \/ k <= ks[n + 1]}
<1>1. Len(ks) \in Nat /\ DOMAIN ks = 1..Len(ks) /\ \A j \in 1..Len(ks) : ks[j] \in Int
  OBVIOUS
<1>2. Ends \subseteq Nat /\ Ends # {}
  <2>1. Len(ks) \in Ends
    BY <1>1
  <2>2. QED
    BY <2>1
<1>3. PICK m \in Ends : \A n \in Ends : m <= n
  <2> HIDE DEF Ends
  <2>1. QED
    BY <1>2, LeastNatural
<1>4. m \in Nat /\ m <= Len(ks) /\ (m = Len(ks) \/ k <= ks[m + 1])
  OBVIOUS
<1>12. \A n \in 0..Len(ks) : (n = Len(ks) \/ k <= ks[n + 1]) => m <= n
  BY <1>3
<1> HIDE DEF Ends
<1>13. m \in Nat /\ m <= Len(ks) /\ Len(ks) \in Nat
  BY <1>1, <1>4
<1>5. ASSUME NEW j \in 1..Len(ks), j <= m PROVE ks[j] < k
  <2>1. PICK n \in Nat : n + 1 = j
    <3>1. j - 1 \in Nat /\ (j - 1) + 1 = j
      OBVIOUS
    <3>2. QED
      BY <3>1
  <2>2. n \in 0..Len(ks) /\ n # Len(ks) /\ ~(m <= n)
    BY <2>1, <1>13, <1>5
  <2>3. ~(k <= ks[n + 1])
    BY <2>2, <1>12
  <2>4. ks[j] \in Int /\ ~(k <= ks[j])
    BY <2>1, <2>3, <1>1
  <2>5. QED
    BY <2>4
<1>6. ASSUME NEW j \in 1..Len(ks), m < j PROVE k <= ks[j]
  <2>5. m + 1 \in 1..Len(ks) /\ m + 1 <= j /\ m # Len(ks)
    BY <1>13, <1>6
  <2>1. m + 1 \in 1..Len(ks) /\ m + 1 <= j /\ k <= ks[m + 1]
    BY <2>5, <1>4
  <2>2. CASE m + 1 = j
    BY <2>1, <2>2
  <2>3. CASE m + 1 < j
    <3>1. ks[m + 1] < ks[j]
      BY <2>1, <2>3, <1>1 DEF Ascends
    <3>2. QED
      BY <3>1, <2>1, <1>1
  <2>4. QED
    BY <2>1, <2>2, <2>3, <1>4
<1>7. {j \in DOMAIN ks : ks[j] < k} = 1..m
  <2>1. ASSUME NEW j \in 1..Len(ks) PROVE ks[j] < k <=> j <= m
    <3>1. j <= m \/ m < j
      BY <1>4
    <3>2. ks[j] \in Int
      BY <1>1
    <3>3. QED
      BY <3>1, <3>2, <1>5, <1>6
  <2>2. QED
    <3> DEFINE low == {j \in DOMAIN ks : ks[j] < k}
    <3>1. \A j \in low : j \in 1..m
      BY <2>1, <1>1, <1>13
    <3>2. \A j \in 1..m : j \in low
      BY <2>1, <1>1, <1>13
    <3>3. QED
      BY <3>1, <3>2
<1>8. Cardinality(1..m) = m
  <2>1. Cardinality(1..m) = IF 1 > m THEN 0 ELSE m - 1 + 1
    BY <1>4, FS_Interval
  <2>2. QED
    BY <2>1, <1>4
<1>9. m + 1 \in 1..Len(ks) + 1
  BY <1>4
<1>10. \A j \in DOMAIN ks : IF j < m + 1 THEN ks[j] < k ELSE k <= ks[j]
  <2>1. ASSUME NEW j \in 1..Len(ks) PROVE IF j < m + 1 THEN ks[j] < k ELSE k <= ks[j]
    BY <1>5, <1>6, <1>13
  <2>2. QED
    BY <2>1, <1>1
<1>11. QED
  BY <1>7, <1>8, <1>9, <1>10 DEF Finds

\* lower_bound_index finds the gap of a key, and the key if it is there.
LEMMA BoundFinds ==
  ASSUME NEW t, NEW p, NEW k \in Int,
         t.page[p].keys \in Seq(Int), Ascends(t.page[p].keys)
  PROVE  LET ks == t.page[p].keys
             i == LowerBound(t, p, k)
         IN  /\ Finds(ks, i, k)
             /\ HasKeyAt(t, p, i, k) => i \in DOMAIN ks /\ ks[i] = k
             /\ ~HasKeyAt(t, p, i, k) => \A j \in DOMAIN ks : ks[j] # k
<1> DEFINE ks == t.page[p].keys
           i == LowerBound(t, p, k)
<1>1. Finds(ks, i, k)
  <2>1. i = Cardinality({j \in DOMAIN ks : ks[j] < k}) + 1
    BY DEF LowerBound
  <2> HIDE DEF i, ks
  <2>2. ks \in Seq(Int) /\ Ascends(ks)
    BY DEF ks
  <2>3. QED
    BY <2>1, <2>2, CountFinds
<1>2. HasKeyAt(t, p, i, k) <=> i <= Len(ks) /\ ks[i] = k
  BY DEF HasKeyAt, KeyCount
<1>3. ks \in Seq(Int) /\ Ascends(ks)
  OBVIOUS
<1> HIDE DEF i, ks
<1>4. /\ i \in 1..Len(ks) + 1 /\ Len(ks) \in Nat /\ DOMAIN ks = 1..Len(ks)
      /\ \A j \in 1..Len(ks) : ks[j] \in Int
      /\ \A j \in 1..Len(ks) : IF j < i THEN ks[j] < k ELSE k <= ks[j]
  BY <1>1, <1>3 DEF Finds
<1>5. HasKeyAt(t, p, i, k) => i \in DOMAIN ks /\ ks[i] = k
  BY <1>2, <1>4
<1>6. ASSUME ~HasKeyAt(t, p, i, k), NEW j \in DOMAIN ks PROVE ks[j] # k
  <2>1. SUFFICES ASSUME ks[j] = k PROVE FALSE
    OBVIOUS
  <2>2. j \in 1..Len(ks) /\ ~(j < i)
    BY <2>1, <1>4
  <2>3. i \in 1..Len(ks) /\ i <= j
    BY <2>2, <1>4
  <2>4. CASE i = j
    BY <2>4, <2>1, <2>3, <1>2, <1>4, <1>6
  <2>5. CASE i < j
    <3>1. ks[i] < ks[j] /\ k <= ks[i] /\ ks[i] \in Int
      BY <2>3, <2>5, <1>3, <1>4 DEF Ascends
    <3>2. QED
      BY <3>1, <2>1
  <2>6. QED
    BY <2>3, <2>4, <2>5, <1>4
<1>7. QED
  BY <1>1, <1>5, <1>6 DEF i, ks

-----------------------------------------------------------------------------
(* Two pages and the key between them, and one page with all of that.      *)

Low(m, s) == {e \in m : e <= s}
High(m, s) == {e \in m : s < e}

\* ks is ka, s and kb in a row.
Row(ks, ka, s, kb) ==
    /\ ks \in Seq(Int) /\ ka \in Seq(Int) /\ s \in Int /\ kb \in Seq(Int)
    /\ Len(ks) = Len(ka) + 1 + Len(kb)
    /\ \A j \in 1..Len(ka) : ks[j] = ka[j]
    /\ ks[Len(ka) + 1] = s
    /\ \A j \in 1..Len(kb) : ks[Len(ka) + 1 + j] = kb[j]

\* All of ka is below s, and all of kb above.
Parts(ka, s, kb) ==
    (\A j \in 1..Len(ka) : ka[j] < s) /\ (\A j \in 1..Len(kb) : s < kb[j])

LEMMA RowPlaces ==
  ASSUME NEW ks, NEW ka, NEW s, NEW kb, Row(ks, ka, s, kb)
  PROVE  /\ Len(ka) \in Nat /\ Len(kb) \in Nat /\ Len(ks) \in Nat
         /\ DOMAIN ka = 1..Len(ka) /\ DOMAIN kb = 1..Len(kb) /\ DOMAIN ks = 1..Len(ks)
         /\ \A j \in 1..Len(ka) : ka[j] \in Int /\ ks[j] = ka[j] /\ j \in 1..Len(ks)
         /\ ks[Len(ka) + 1] = s /\ Len(ka) + 1 \in 1..Len(ks)
         /\ \A j \in 1..Len(kb) : /\ kb[j] \in Int /\ ks[Len(ka) + 1 + j] = kb[j]
                                  /\ Len(ka) + 1 + j \in 1..Len(ks)
         /\ \A j \in 1..Len(ks) : /\ ks[j] \in Int
                                  /\ \/ j \in 1..Len(ka)
                                     \/ j = Len(ka) + 1
                                     \/ \E i \in 1..Len(kb) : j = Len(ka) + 1 + i
<1>1. /\ ks \in Seq(Int) /\ ka \in Seq(Int) /\ s \in Int /\ kb \in Seq(Int)
      /\ Len(ks) = Len(ka) + 1 + Len(kb)
      /\ \A j \in 1..Len(ka) : ks[j] = ka[j]
      /\ ks[Len(ka) + 1] = s
      /\ \A j \in 1..Len(kb) : ks[Len(ka) + 1 + j] = kb[j]
  BY DEF Row
<1>2. /\ Len(ka) \in Nat /\ Len(kb) \in Nat /\ Len(ks) \in Nat
      /\ DOMAIN ka = 1..Len(ka) /\ DOMAIN kb = 1..Len(kb) /\ DOMAIN ks = 1..Len(ks)
      /\ (\A j \in 1..Len(ka) : ka[j] \in Int) /\ (\A j \in 1..Len(kb) : kb[j] \in Int)
      /\ \A j \in 1..Len(ks) : ks[j] \in Int
  BY <1>1
<1>3. /\ \A j \in 1..Len(ka) : j \in 1..Len(ks)
      /\ Len(ka) + 1 \in 1..Len(ks)
      /\ \A j \in 1..Len(kb) : Len(ka) + 1 + j \in 1..Len(ks)
  BY <1>1, <1>2
<1>4. ASSUME NEW j \in 1..Len(ks), j \notin 1..Len(ka), j # Len(ka) + 1
      PROVE  \E i \in 1..Len(kb) : j = Len(ka) + 1 + i
  <2>0. /\ Len(ka) \in Nat /\ Len(kb) \in Nat
        /\ Len(ks) = Len(ka) + 1 + Len(kb)
    BY <1>1, <1>2
  <2> DEFINE a == Len(ka)
             i == j - (a + 1)
  <2>1. i \in 1..Len(kb) /\ j = a + 1 + i
    BY <2>0, <1>4
  <2>2. QED
    BY <2>1
<1>5. QED
  BY <1>1, <1>2, <1>3, <1>4

\* A row ascends if its parts do.
LEMMA RowAscends ==
  ASSUME NEW ks, NEW ka, NEW s, NEW kb, Row(ks, ka, s, kb)
  PROVE  Ascends(ks) <=> Ascends(ka) /\ Ascends(kb) /\ Parts(ka, s, kb)
<1> DEFINE a == Len(ka)
           b == Len(kb)
           n == Len(ks)
<1>1. /\ a \in Nat /\ b \in Nat /\ n \in Nat /\ n = a + 1 + b
      /\ DOMAIN ka = 1..a /\ DOMAIN kb = 1..b /\ DOMAIN ks = 1..n
  BY RowPlaces DEF Row
<1>2. /\ \A j \in 1..a : ka[j] \in Int /\ ks[j] = ka[j] /\ j \in 1..n
      /\ ks[a + 1] = s /\ a + 1 \in 1..n /\ s \in Int
      /\ \A j \in 1..b : kb[j] \in Int /\ ks[a + 1 + j] = kb[j] /\ a + 1 + j \in 1..n
      /\ \A j \in 1..n : \/ j \in 1..a
                         \/ j = a + 1
                         \/ \E i \in 1..b : j = a + 1 + i
  <2>1. s \in Int
    BY DEF Row
  <2>2. QED
    BY <2>1, RowPlaces
<1> HIDE DEF a, b, n
<1>3. ASSUME Ascends(ks) PROVE Ascends(ka) /\ Ascends(kb) /\ Parts(ka, s, kb)
  <2>1. \A i, j \in 1..n : i < j => ks[i] < ks[j]
    BY <1>3, <1>1 DEF Ascends
  <2>2. Ascends(ka)
    <3>1. \A i, j \in 1..a : i < j => ka[i] < ka[j]
      BY <2>1, <1>2
    <3>2. QED
      BY <3>1, <1>1 DEF Ascends
  <2>3. Ascends(kb)
    <3>1. ASSUME NEW i \in 1..b, NEW j \in 1..b, i < j PROVE kb[i] < kb[j]
      <4>1. ks[a + 1 + i] = kb[i] /\ ks[a + 1 + j] = kb[j]
            /\ a + 1 + i \in 1..n /\ a + 1 + j \in 1..n
        BY <1>2
      <4>2. a + 1 + i < a + 1 + j
        BY <1>1, <3>1
      <4>3. QED
        BY <4>1, <4>2, <2>1
    <3>2. QED
      BY <3>1, <1>1 DEF Ascends
  <2>4. \A j \in 1..a : ka[j] < s
    <3>1. ASSUME NEW j \in 1..a PROVE ka[j] < s
      <4>1. j < a + 1
        BY <1>1
      <4>2. QED
        BY <4>1, <1>2, <2>1
    <3>2. QED
      BY <3>1
  <2>5. \A j \in 1..b : s < kb[j]
    <3>1. ASSUME NEW j \in 1..b PROVE s < kb[j]
      <4>1. a + 1 < a + 1 + j
        BY <1>1
      <4>2. QED
        BY <4>1, <1>2, <2>1
    <3>2. QED
      BY <3>1
  <2>6. QED
    BY <2>2, <2>3, <2>4, <2>5 DEF Parts, a, b
<1>4. ASSUME Ascends(ka), Ascends(kb), Parts(ka, s, kb) PROVE Ascends(ks)
  <2>1. /\ \A i, j \in 1..a : i < j => ka[i] < ka[j]
        /\ \A i, j \in 1..b : i < j => kb[i] < kb[j]
    BY <1>4, <1>1 DEF Ascends
  <2>2. (\A j \in 1..a : ka[j] < s) /\ (\A j \in 1..b : s < kb[j])
    BY <1>4 DEF Parts, a, b
  <2>3. ASSUME NEW i \in 1..n, NEW j \in 1..n, i < j PROVE ks[i] < ks[j]
    <3>1. CASE j \in 1..a
      <4>1. i \in 1..a
        BY <3>1, <2>3, <1>1
      <4>2. QED
        BY <4>1, <3>1, <2>1, <2>3, <1>2
    <3>2. CASE j = a + 1
      <4>1. i \in 1..a
        BY <3>2, <2>3, <1>1
      <4>2. QED
        BY <4>1, <3>2, <2>2, <1>2
    <3>3. CASE \E v \in 1..b : j = a + 1 + v
      <4>1. PICK v \in 1..b : j = a + 1 + v
        BY <3>3
      <4>2. CASE i \in 1..a
        <5>1. ks[i] = ka[i] /\ ks[j] = kb[v] /\ ka[i] < s /\ s < kb[v]
              /\ ka[i] \in Int /\ kb[v] \in Int
          BY <4>1, <4>2, <2>2, <1>2
        <5>2. QED
          BY <5>1, <1>2
      <4>3. CASE i = a + 1
        BY <4>1, <4>3, <2>2, <1>2
      <4>4. CASE \E u \in 1..b : i = a + 1 + u
        <5>1. PICK u \in 1..b : i = a + 1 + u
          BY <4>4
        <5>2. u < v
          BY <5>1, <4>1, <2>3, <1>1
        <5>3. QED
          BY <5>1, <5>2, <4>1, <2>1, <1>2
      <4>5. QED
        BY <4>2, <4>3, <4>4, <1>2
    <3>4. QED
      BY <3>1, <3>2, <3>3, <1>2
  <2>4. QED
    BY <2>3, <1>1 DEF Ascends
<1>5. QED
  BY <1>3, <1>4

\* The gaps of a row are those of its parts.
LEMMA RowGaps ==
  ASSUME NEW ks, NEW ka, NEW s, NEW kb, Row(ks, ka, s, kb), Parts(ka, s, kb),
         NEW m \in SUBSET Int
  PROVE  /\ \A j \in 1..Len(ka) + 1 : Gap(m, ks, j) = Gap(Low(m, s), ka, j)
         /\ \A j \in 1..Len(kb) + 1 :
               Gap(m, ks, Len(ka) + 1 + j) = Gap(High(m, s), kb, j)
<1> DEFINE a == Len(ka)
           b == Len(kb)
           n == Len(ks)
<1>1. /\ a \in Nat /\ b \in Nat /\ n \in Nat /\ n = a + 1 + b
      /\ DOMAIN ka = 1..a /\ DOMAIN kb = 1..b /\ DOMAIN ks = 1..n
  BY RowPlaces DEF Row
<1>2. /\ \A j \in 1..a : ka[j] \in Int /\ ks[j] = ka[j] /\ j \in 1..n
      /\ ks[a + 1] = s /\ a + 1 \in 1..n
      /\ \A j \in 1..b : kb[j] \in Int /\ ks[a + 1 + j] = kb[j] /\ a + 1 + j \in 1..n
      /\ \A j \in 1..n : \/ j \in 1..a
                         \/ j = a + 1
                         \/ \E i \in 1..b : j = a + 1 + i
  BY RowPlaces
<1>3. s \in Int
  BY DEF Row
<1>4. (\A j \in 1..a : ka[j] < s) /\ (\A j \in 1..b : s < kb[j])
  BY DEF Parts
<1> HIDE DEF a, b, n
<1>5. ASSUME NEW j \in 1..a + 1 PROVE Gap(m, ks, j) = Gap(Low(m, s), ka, j)
  <2>1. ASSUME NEW c \in Gap(m, ks, j) PROVE c \in Gap(Low(m, s), ka, j)
    <3>1. c \in m /\ c \in Int /\ \A i \in 1..n : IF i < j THEN ks[i] < c ELSE c <= ks[i]
      BY <1>1 DEF Gap
    <3>2. ~(a + 1 < j)
      BY <1>1
    <3>3. c <= s
      BY <3>1, <3>2, <1>2
    <3>4. \A i \in 1..a : IF i < j THEN ka[i] < c ELSE c <= ka[i]
      BY <3>1, <1>2
    <3>5. QED
      BY <3>1, <3>3, <3>4, <1>1 DEF Gap, Low
  <2>2. ASSUME NEW c \in Gap(Low(m, s), ka, j) PROVE c \in Gap(m, ks, j)
    <3>1. /\ c \in m /\ c \in Int /\ c <= s
          /\ \A i \in 1..a : IF i < j THEN ka[i] < c ELSE c <= ka[i]
      BY <1>1 DEF Gap, Low
    <3>2. ASSUME NEW i \in 1..n PROVE IF i < j THEN ks[i] < c ELSE c <= ks[i]
      <4>1. CASE i \in 1..a
        BY <4>1, <3>1, <1>2
      <4>2. CASE i = a + 1
        BY <4>2, <3>1, <1>2, <1>1
      <4>3. CASE \E u \in 1..b : i = a + 1 + u
        <5>1. PICK u \in 1..b : i = a + 1 + u
          BY <4>3
        <5>2. ks[i] = kb[u] /\ s < kb[u] /\ kb[u] \in Int
          BY <5>1, <1>2, <1>4
        <5>3. ~(i < j)
          BY <5>1, <1>1
        <5>4. QED
          BY <5>2, <5>3, <3>1, <1>3
      <4>4. QED
        BY <4>1, <4>2, <4>3, <1>2
    <3>3. QED
      BY <3>1, <3>2, <1>1 DEF Gap
  <2>3. QED
    BY <2>1, <2>2
<1>6. ASSUME NEW j \in 1..b + 1 PROVE Gap(m, ks, a + 1 + j) = Gap(High(m, s), kb, j)
  <2>1. ASSUME NEW c \in Gap(m, ks, a + 1 + j) PROVE c \in Gap(High(m, s), kb, j)
    <3>1. /\ c \in m /\ c \in Int
          /\ \A i \in 1..n : IF i < a + 1 + j THEN ks[i] < c ELSE c <= ks[i]
      BY <1>1 DEF Gap
    <3>2. s < c
      <4>1. a + 1 < a + 1 + j
        BY <1>1
      <4>2. QED
        BY <4>1, <3>1, <1>2
    <3>3. ASSUME NEW i \in 1..b PROVE IF i < j THEN kb[i] < c ELSE c <= kb[i]
      <4>1. i < j <=> a + 1 + i < a + 1 + j
        BY <1>1
      <4>2. QED
        BY <4>1, <3>1, <1>2
    <3>4. QED
      BY <3>1, <3>2, <3>3, <1>1 DEF Gap, High
  <2>2. ASSUME NEW c \in Gap(High(m, s), kb, j) PROVE c \in Gap(m, ks, a + 1 + j)
    <3>1. /\ c \in m /\ c \in Int /\ s < c
          /\ \A i \in 1..b : IF i < j THEN kb[i] < c ELSE c <= kb[i]
      BY <1>1 DEF Gap, High
    <3>2. ASSUME NEW i \in 1..n
          PROVE  IF i < a + 1 + j THEN ks[i] < c ELSE c <= ks[i]
      <4>1. CASE i \in 1..a
        <5>1. i < a + 1 + j /\ ks[i] = ka[i] /\ ka[i] < s /\ ka[i] \in Int
          BY <4>1, <1>1, <1>2, <1>4
        <5>2. QED
          BY <5>1, <3>1, <1>3
      <4>2. CASE i = a + 1
        BY <4>2, <3>1, <1>2, <1>1
      <4>3. CASE \E u \in 1..b : i = a + 1 + u
        <5>1. PICK u \in 1..b : i = a + 1 + u
          BY <4>3
        <5>2. u < j <=> i < a + 1 + j
          BY <5>1, <1>1
        <5>3. ks[i] = kb[u]
          BY <5>1, <1>2
        <5>4. QED
          BY <5>2, <5>3, <3>1
      <4>4. QED
        BY <4>1, <4>2, <4>3, <1>2
    <3>3. QED
      BY <3>1, <3>2, <1>1 DEF Gap
  <2>3. QED
    BY <2>1, <2>2
<1>7. QED
  BY <1>5, <1>6 DEF a, b

\* cs are the children ca and cb in a row, of two pages with the keys ka and kb.
RowBelow(cs, ka, ca, kb, cb) ==
    \/ cs = <<>> /\ ca = <<>> /\ cb = <<>>
    \/ /\ Len(ca) = Len(ka) + 1 /\ Len(cb) = Len(kb) + 1 /\ Len(cs) = Len(ca) + Len(cb)
       /\ \A j \in 1..Len(ca) : cs[j] = ca[j]
       /\ \A j \in 1..Len(cb) : cs[Len(ca) + j] = cb[j]

\* The children of the row have its gaps if those of the parts have theirs.
LEMMA RowChildren ==
  ASSUME NEW ks, NEW ka, NEW s, NEW kb, Row(ks, ka, s, kb), Parts(ka, s, kb),
         NEW m \in SUBSET Int, NEW may,
         NEW cs \in Seq(Nat), NEW ca \in Seq(Nat), NEW cb \in Seq(Nat),
         RowBelow(cs, ka, ca, kb, cb)
  PROVE  Allots(m, ks, cs, may) <=>
            Allots(Low(m, s), ka, ca, may) /\ Allots(High(m, s), kb, cb, may)
<1>0. /\ \A j \in 1..Len(ka) + 1 : Gap(m, ks, j) = Gap(Low(m, s), ka, j)
      /\ \A j \in 1..Len(kb) + 1 :
            Gap(m, ks, Len(ka) + 1 + j) = Gap(High(m, s), kb, j)
  BY RowGaps
<1>1. CASE cs = <<>> /\ ca = <<>> /\ cb = <<>>
  BY <1>1 DEF Allots
<1>2. CASE ~(cs = <<>> /\ ca = <<>> /\ cb = <<>>)
  <2> DEFINE a == Len(ka)
             b == Len(kb)
  <2>1. /\ Len(ca) = a + 1 /\ Len(cb) = b + 1 /\ Len(cs) = a + 1 + (b + 1)
        /\ \A j \in 1..a + 1 : cs[j] = ca[j]
        /\ \A j \in 1..b + 1 : cs[a + 1 + j] = cb[j]
    BY <1>2 DEF RowBelow
  <2>2. a \in Nat /\ b \in Nat
    BY RowPlaces
  <2>3. /\ \A j \in 1..a + 1 : Gap(m, ks, j) = Gap(Low(m, s), ka, j)
        /\ \A j \in 1..b + 1 : Gap(m, ks, a + 1 + j) = Gap(High(m, s), kb, j)
    BY <1>0
  <2>4. /\ DOMAIN ca = 1..a + 1 /\ DOMAIN cb = 1..b + 1
        /\ DOMAIN cs = 1..a + 1 + (b + 1)
    BY <2>1
  <2> HIDE DEF a, b
  <2>5. ASSUME NEW j \in DOMAIN cs, j \notin 1..a + 1
        PROVE  \E i \in 1..b + 1 : j = a + 1 + i
    <3> DEFINE i == j - (a + 1)
    <3>1. i \in 1..b + 1 /\ j = a + 1 + i
      BY <2>2, <2>4, <2>5
    <3>2. QED
      BY <3>1
  <2>6. ASSUME \A j \in DOMAIN cs : may[cs[j]] = Gap(m, ks, j)
        PROVE  /\ \A j \in DOMAIN ca : may[ca[j]] = Gap(Low(m, s), ka, j)
               /\ \A j \in DOMAIN cb : may[cb[j]] = Gap(High(m, s), kb, j)
    <3>1. ASSUME NEW j \in DOMAIN ca PROVE may[ca[j]] = Gap(Low(m, s), ka, j)
      <4>1. j \in 1..a + 1 /\ j \in DOMAIN cs
        BY <2>2, <2>4
      <4>2. QED
        BY <4>1, <2>1, <2>3, <2>6
    <3>2. ASSUME NEW j \in DOMAIN cb PROVE may[cb[j]] = Gap(High(m, s), kb, j)
      <4>1. j \in 1..b + 1 /\ a + 1 + j \in DOMAIN cs
        BY <2>2, <2>4
      <4>2. QED
        BY <4>1, <2>1, <2>3, <2>6
    <3>3. QED
      BY <3>1, <3>2
  <2>7. ASSUME /\ \A j \in DOMAIN ca : may[ca[j]] = Gap(Low(m, s), ka, j)
               /\ \A j \in DOMAIN cb : may[cb[j]] = Gap(High(m, s), kb, j)
        PROVE  \A j \in DOMAIN cs : may[cs[j]] = Gap(m, ks, j)
    <3>1. SUFFICES ASSUME NEW j \in DOMAIN cs PROVE may[cs[j]] = Gap(m, ks, j)
      OBVIOUS
    <3>2. CASE j \in 1..a + 1
      BY <3>2, <2>1, <2>3, <2>4, <2>7
    <3>3. CASE j \notin 1..a + 1
      <4>1. PICK i \in 1..b + 1 : j = a + 1 + i
        BY <3>3, <2>5
      <4>2. QED
        BY <4>1, <2>1, <2>3, <2>4, <2>7
    <3>4. QED
      BY <3>2, <3>3
  <2>8. QED
    BY <2>6, <2>7, Zenon DEF Allots
<1>3. QED
  BY <1>1, <1>2

LEMMA HalvesConvex ==
  ASSUME NEW m, Convex(m), NEW s \in Int
  PROVE  Convex(Low(m, s)) /\ Convex(High(m, s)) /\ m \in SUBSET Int
<1>1. m \subseteq Int /\ \A a, b \in m : \A c \in Int : a <= c /\ c <= b => c \in m
  BY DEF Convex
<1>2. Convex(Low(m, s))
  <2>1. Low(m, s) \subseteq Int
    BY <1>1 DEF Low
  <2>2. ASSUME NEW a \in Low(m, s), NEW b \in Low(m, s), NEW c \in Int, a <= c, c <= b
        PROVE  c \in Low(m, s)
    <3>1. a \in m /\ b \in m /\ b <= s /\ b \in Int
      BY <1>1 DEF Low
    <3>2. c \in m /\ c <= s
      BY <3>1, <2>2, <1>1
    <3>3. QED
      BY <3>2 DEF Low
  <2>3. QED
    BY <2>1, <2>2 DEF Convex
<1>3. Convex(High(m, s))
  <2>1. High(m, s) \subseteq Int
    BY <1>1 DEF High
  <2>2. ASSUME NEW a \in High(m, s), NEW b \in High(m, s), NEW c \in Int, a <= c, c <= b
        PROVE  c \in High(m, s)
    <3>1. a \in m /\ b \in m /\ s < a /\ a \in Int
      BY <1>1 DEF High
    <3>2. c \in m /\ s < c
      BY <3>1, <2>2, <1>1
    <3>3. QED
      BY <3>2 DEF High
  <2>3. QED
    BY <2>1, <2>2 DEF Convex
<1>4. QED
  BY <1>1, <1>2, <1>3

\* A page is in order if and only if its parts are, on either side of the key.
LEMMA RowInPlace ==
  ASSUME NEW ks, NEW ka, NEW s, NEW kb, Row(ks, ka, s, kb),
         NEW m, Convex(m), NEW may,
         NEW cs \in Seq(Nat), NEW ca \in Seq(Nat), NEW cb \in Seq(Nat),
         RowBelow(cs, ka, ca, kb, cb)
  PROVE  InPlace(m, ks, cs, may) <=>
            /\ Inside(s, m)
            /\ InPlace(Low(m, s), ka, ca, may)
            /\ InPlace(High(m, s), kb, cb, may)
<1> DEFINE a == Len(ka)
           b == Len(kb)
           n == Len(ks)
<1>1. /\ a \in Nat /\ b \in Nat /\ n \in Nat
      /\ DOMAIN ka = 1..a /\ DOMAIN kb = 1..b /\ DOMAIN ks = 1..n
  BY RowPlaces
<1>2. /\ \A j \in 1..a : ka[j] \in Int /\ ks[j] = ka[j] /\ j \in 1..n
      /\ ks[a + 1] = s /\ a + 1 \in 1..n
      /\ \A j \in 1..b : kb[j] \in Int /\ ks[a + 1 + j] = kb[j] /\ a + 1 + j \in 1..n
      /\ \A j \in 1..n : \/ j \in 1..a
                         \/ j = a + 1
                         \/ \E i \in 1..b : j = a + 1 + i
  BY RowPlaces
<1>3. s \in Int
  BY DEF Row
<1>4. Convex(Low(m, s)) /\ Convex(High(m, s)) /\ m \in SUBSET Int
  BY <1>3, HalvesConvex
<1>5. Ascends(ks) <=> Ascends(ka) /\ Ascends(kb) /\ Parts(ka, s, kb)
  BY RowAscends
<1>6. Parts(ka, s, kb) <=> (\A j \in 1..a : ka[j] < s) /\ (\A j \in 1..b : s < kb[j])
  BY DEF Parts
<1>7. ASSUME Parts(ka, s, kb)
      PROVE  Allots(m, ks, cs, may) <=>
                Allots(Low(m, s), ka, ca, may) /\ Allots(High(m, s), kb, cb, may)
  BY <1>4, <1>7, RowChildren
<1> HIDE DEF a, b, n
<1>8. ASSUME InPlace(m, ks, cs, may)
      PROVE  /\ Inside(s, m)
             /\ InPlace(Low(m, s), ka, ca, may)
             /\ InPlace(High(m, s), kb, cb, may)
  <2>1. /\ \A j \in 1..n : Inside(ks[j], m)
        /\ Ascends(ks)
        /\ Allots(m, ks, cs, may)
    BY <1>8, <1>1, Zenon DEF InPlace
  <2>2. Inside(s, m)
    BY <2>1, <1>2
  <2>3. Parts(ka, s, kb) /\ Ascends(ka) /\ Ascends(kb)
    BY <2>1, <1>5
  <2>4. \A j \in DOMAIN ka : Inside(ka[j], Low(m, s))
    <3>1. ASSUME NEW j \in 1..a PROVE Inside(ka[j], Low(m, s))
      <4>1. ka[j] \in m /\ ka[j] + 1 \in m /\ ka[j] \in Int /\ ka[j] < s
        BY <2>1, <2>3, <1>2, <1>6 DEF Inside
      <4>2. QED
        BY <4>1, <1>3 DEF Inside, Low
    <3>2. QED
      BY <3>1, <1>1
  <2>5. \A j \in DOMAIN kb : Inside(kb[j], High(m, s))
    <3>1. ASSUME NEW j \in 1..b PROVE Inside(kb[j], High(m, s))
      <4>1. kb[j] \in m /\ kb[j] + 1 \in m /\ kb[j] \in Int /\ s < kb[j]
        <5>1. Inside(ks[a + 1 + j], m) /\ ks[a + 1 + j] = kb[j]
          BY <2>1, <1>2
        <5>2. QED
          BY <5>1, <2>3, <1>2, <1>6 DEF Inside
      <4>2. QED
        BY <4>1, <1>3 DEF Inside, High
    <3>2. QED
      BY <3>1, <1>1
  <2>6. Allots(Low(m, s), ka, ca, may) /\ Allots(High(m, s), kb, cb, may)
    BY <2>1, <2>3, <1>7
  <2>7. QED
    BY <2>2, <2>3, <2>4, <2>5, <2>6, <1>4, Zenon DEF InPlace
<1>9. ASSUME /\ Inside(s, m)
             /\ InPlace(Low(m, s), ka, ca, may)
             /\ InPlace(High(m, s), kb, cb, may)
      PROVE  InPlace(m, ks, cs, may)
  <2>1. /\ \A j \in 1..a : Inside(ka[j], Low(m, s))
        /\ \A j \in 1..b : Inside(kb[j], High(m, s))
        /\ Ascends(ka) /\ Ascends(kb)
        /\ Allots(Low(m, s), ka, ca, may) /\ Allots(High(m, s), kb, cb, may)
    BY <1>9, <1>1, Zenon DEF InPlace
  <2>2. \A j \in 1..a : Inside(ka[j], m) /\ ka[j] < s
    <3>1. ASSUME NEW j \in 1..a PROVE Inside(ka[j], m) /\ ka[j] < s
      <4>1. ka[j] \in Int /\ Inside(ka[j], Low(m, s))
        BY <2>1, <1>2
      <4>2. QED
        BY <4>1, <1>3 DEF Inside, Low
    <3>2. QED
      BY <3>1
  <2>3. \A j \in 1..b : Inside(kb[j], m) /\ s < kb[j]
    BY <2>1 DEF Inside, High
  <2>4. Parts(ka, s, kb)
    BY <2>2, <2>3, <1>6
  <2>5. Ascends(ks) /\ Allots(m, ks, cs, may)
    BY <2>1, <2>4, <1>5, <1>7
  <2>6. \A j \in DOMAIN ks : Inside(ks[j], m)
    <3>1. ASSUME NEW j \in 1..n PROVE Inside(ks[j], m)
      <4>1. CASE j \in 1..a
        BY <4>1, <2>2, <1>2
      <4>2. CASE j = a + 1
        BY <4>2, <1>2, <1>9
      <4>3. CASE \E i \in 1..b : j = a + 1 + i
        BY <4>3, <2>3, <1>2
      <4>4. QED
        BY <4>1, <4>2, <4>3, <1>2
    <3>2. QED
      BY <3>1, <1>1
  <2>7. QED
    BY <2>5, <2>6, Zenon DEF InPlace
<1>10. QED
  BY <1>8, <1>9

-----------------------------------------------------------------------------
(* The page above: a key more, and its gap is cut in two.                  *)

\* k1 is k0 with the key s put in at place i.
Adds(k0, i, s, k1) ==
    /\ k0 \in Seq(Int) /\ k1 \in Seq(Int) /\ s \in Int /\ i \in 1..Len(k0) + 1
    /\ HasInserted(Int, k0, i, s, k1)

LEMMA AddPlaces ==
  ASSUME NEW k0, NEW i, NEW s, NEW k1, Adds(k0, i, s, k1)
  PROVE  /\ Len(k0) \in Nat /\ i \in Nat /\ s \in Int
         /\ DOMAIN k0 = 1..Len(k0) /\ DOMAIN k1 = 1..Len(k0) + 1 /\ i \in 1..Len(k0) + 1
         /\ k1[i] = s
         /\ \A j \in 1..Len(k0) : /\ k0[j] \in Int
                                  /\ j < i => k1[j] = k0[j]
                                  /\ i <= j => k1[j + 1] = k0[j]
         /\ \A j \in 1..Len(k0) + 1 : /\ k1[j] \in Int
                                      /\ j < i => j \in 1..Len(k0)
                                      /\ i < j => \E e \in 1..Len(k0) : j = e + 1 /\ i <= e
<1>1. /\ k0 \in Seq(Int) /\ k1 \in Seq(Int) /\ s \in Int /\ i \in 1..Len(k0) + 1
      /\ Len(k1) = Len(k0) + 1
      /\ \A j \in 1..i - 1 : k1[j] = k0[j]
      /\ k1[i] = s
      /\ \A j \in i..Len(k0) : k1[j + 1] = k0[j]
  BY DEF Adds, HasInserted
<1>2. /\ Len(k0) \in Nat /\ i \in Nat
      /\ DOMAIN k0 = 1..Len(k0) /\ DOMAIN k1 = 1..Len(k0) + 1
      /\ (\A j \in 1..Len(k0) : k0[j] \in Int)
      /\ \A j \in 1..Len(k0) + 1 : k1[j] \in Int
  BY <1>1
<1>3. ASSUME NEW j \in 1..Len(k0)
      PROVE  (j < i => k1[j] = k0[j]) /\ (i <= j => k1[j + 1] = k0[j])
  BY <1>1, <1>2
<1>4. ASSUME NEW j \in 1..Len(k0) + 1
      PROVE  /\ j < i => j \in 1..Len(k0)
             /\ i < j => \E e \in 1..Len(k0) : j = e + 1 /\ i <= e
  <2>1. j < i => j \in 1..Len(k0)
    BY <1>1, <1>2
  <2>2. ASSUME i < j PROVE \E e \in 1..Len(k0) : j = e + 1 /\ i <= e
    <3> DEFINE e == j - 1
    <3>1. e \in 1..Len(k0) /\ j = e + 1 /\ i <= e
      BY <1>1, <1>2, <2>2
    <3>2. QED
      BY <3>1
  <2>3. QED
    BY <2>1, <2>2
<1>5. QED
  BY <1>1, <1>2, <1>3, <1>4

\* The key s belongs at place i of k0.
Belongs(k0, i, s) ==
    \A j \in DOMAIN k0 : IF j < i THEN k0[j] < s ELSE s < k0[j]

LEMMA AddAscends ==
  ASSUME NEW k0, NEW i, NEW s, NEW k1, Adds(k0, i, s, k1)
  PROVE  Ascends(k1) <=> Ascends(k0) /\ Belongs(k0, i, s)
<1> DEFINE n == Len(k0)
<1>1. /\ n \in Nat /\ i \in Nat /\ s \in Int /\ DOMAIN k0 = 1..n /\ DOMAIN k1 = 1..n + 1
      /\ i \in 1..n + 1 /\ k1[i] = s
      /\ \A j \in 1..n : /\ k0[j] \in Int
                         /\ j < i => k1[j] = k0[j]
                         /\ i <= j => k1[j + 1] = k0[j]
      /\ \A j \in 1..n + 1 : /\ k1[j] \in Int
                             /\ j < i => j \in 1..n
                             /\ i < j => \E e \in 1..n : j = e + 1 /\ i <= e
  BY AddPlaces
<1> HIDE DEF n
<1>2. ASSUME Ascends(k1) PROVE Ascends(k0) /\ Belongs(k0, i, s)
  <2>1. \A u, v \in 1..n + 1 : u < v => k1[u] < k1[v]
    BY <1>2, <1>1 DEF Ascends
  <2>2. ASSUME NEW u \in 1..n, NEW v \in 1..n, u < v PROVE k0[u] < k0[v]
    <3>1. CASE v < i
      <4>1. k1[u] = k0[u] /\ k1[v] = k0[v] /\ u \in 1..n + 1 /\ v \in 1..n + 1
        BY <3>1, <2>2, <1>1
      <4>2. QED
        BY <4>1, <2>1, <2>2
    <3>2. CASE u < i /\ i <= v
      <4>1. k1[u] = k0[u] /\ k1[v + 1] = k0[v] /\ u \in 1..n + 1 /\ v + 1 \in 1..n + 1
            /\ u < v + 1
        BY <3>2, <2>2, <1>1
      <4>2. QED
        BY <4>1, <2>1
    <3>3. CASE i <= u
      <4>1. k1[u + 1] = k0[u] /\ k1[v + 1] = k0[v] /\ u + 1 \in 1..n + 1 /\ v + 1 \in 1..n + 1
            /\ u + 1 < v + 1
        BY <3>3, <2>2, <1>1
      <4>2. QED
        BY <4>1, <2>1
    <3>4. QED
      BY <3>1, <3>2, <3>3, <1>1
  <2>3. ASSUME NEW j \in 1..n PROVE IF j < i THEN k0[j] < s ELSE s < k0[j]
    <3>1. CASE j < i
      <4>1. k1[j] = k0[j] /\ j \in 1..n + 1
        BY <3>1, <1>1
      <4>2. QED
        BY <4>1, <3>1, <2>1, <1>1
    <3>2. CASE i <= j
      <4>1. k1[j + 1] = k0[j] /\ j + 1 \in 1..n + 1 /\ i < j + 1
        BY <3>2, <1>1
      <4>2. k1[i] < k1[j + 1]
        BY <4>1, <2>1, <1>1
      <4>3. QED
        BY <4>1, <4>2, <3>2, <1>1
    <3>3. QED
      BY <3>1, <3>2, <1>1
  <2>4. QED
    BY <2>2, <2>3, <1>1 DEF Ascends, Belongs
<1>3. ASSUME Ascends(k0), Belongs(k0, i, s) PROVE Ascends(k1)
  <2>1. /\ \A u, v \in 1..n : u < v => k0[u] < k0[v]
        /\ \A j \in 1..n : IF j < i THEN k0[j] < s ELSE s < k0[j]
    BY <1>3, <1>1 DEF Ascends, Belongs
  <2>2. ASSUME NEW u \in 1..n + 1, NEW v \in 1..n + 1, u < v PROVE k1[u] < k1[v]
    <3>1. CASE v < i
      <4>1. u < i /\ u \in 1..n /\ v \in 1..n
        BY <3>1, <2>2, <1>1
      <4>2. k1[u] = k0[u] /\ k1[v] = k0[v]
        BY <4>1, <3>1, <1>1
      <4>3. QED
        BY <4>1, <4>2, <2>1, <2>2
    <3>2. CASE v = i
      <4>1. u < i /\ u \in 1..n
        BY <3>2, <2>2, <1>1
      <4>2. k1[u] = k0[u] /\ k0[u] < s
        BY <4>1, <1>1, <2>1
      <4>3. QED
        BY <4>2, <3>2, <1>1
    <3>3. CASE i < v
      <4>1. PICK e \in 1..n : v = e + 1 /\ i <= e
        BY <3>3, <1>1
      <4>2. k1[v] = k0[e] /\ s < k0[e] /\ k0[e] \in Int
        BY <4>1, <2>1, <1>1
      <4>3. CASE u < i
        <5>1. u \in 1..n /\ k1[u] = k0[u]
          BY <4>3, <1>1
        <5>2. k0[u] < s /\ k0[u] \in Int
          BY <5>1, <4>3, <2>1, <1>1
        <5>3. QED
          BY <5>1, <5>2, <4>2, <1>1
      <4>4. CASE u = i
        BY <4>4, <4>2, <1>1
      <4>5. CASE i < u
        <5>1. PICK d \in 1..n : u = d + 1 /\ i <= d
          BY <4>5, <1>1
        <5>2. k1[u] = k0[d] /\ d < e
          BY <5>1, <4>1, <2>2, <1>1
        <5>3. QED
          BY <5>2, <4>2, <2>1
      <4>6. QED
        BY <4>3, <4>4, <4>5, <1>1
    <3>4. QED
      BY <3>1, <3>2, <3>3, <1>1
  <2>3. QED
    BY <2>2, <1>1 DEF Ascends
<1>4. QED
  BY <1>2, <1>3

LEMMA AddGaps ==
  ASSUME NEW k0, NEW i, NEW s, NEW k1, Adds(k0, i, s, k1), Belongs(k0, i, s),
         NEW m \in SUBSET Int
  PROVE  /\ \A j \in 1..Len(k0) + 1 : j < i => Gap(m, k1, j) = Gap(m, k0, j)
         /\ Gap(m, k1, i) = Low(Gap(m, k0, i), s)
         /\ Gap(m, k1, i + 1) = High(Gap(m, k0, i), s)
         /\ \A j \in 1..Len(k0) + 1 : i < j => Gap(m, k1, j + 1) = Gap(m, k0, j)
<1> DEFINE n == Len(k0)
<1>1. /\ n \in Nat /\ i \in Nat /\ s \in Int /\ DOMAIN k0 = 1..n /\ DOMAIN k1 = 1..n + 1
      /\ i \in 1..n + 1 /\ k1[i] = s
      /\ \A j \in 1..n : /\ k0[j] \in Int
                         /\ j < i => k1[j] = k0[j]
                         /\ i <= j => k1[j + 1] = k0[j]
      /\ \A j \in 1..n + 1 : /\ k1[j] \in Int
                             /\ j < i => j \in 1..n
                             /\ i < j => \E e \in 1..n : j = e + 1 /\ i <= e
  BY AddPlaces
<1> HIDE DEF n
<1>2. \A j \in 1..n : IF j < i THEN k0[j] < s ELSE s < k0[j]
  BY <1>1 DEF Belongs
<1>3. ASSUME NEW v \in Nat, NEW j \in Nat, v <= i => j = v, i < v => v = j + 1, NEW c \in m
      PROVE  c \in Gap(m, k1, v) <=>
                c \in Gap(m, k0, j) /\ (IF i < v THEN s < c ELSE c <= s)
  <2>0. c \in Int
    OBVIOUS
  <2>1. ASSUME c \in Gap(m, k1, v)
        PROVE  c \in Gap(m, k0, j) /\ (IF i < v THEN s < c ELSE c <= s)
    <3>1. \A u \in 1..n + 1 : IF u < v THEN k1[u] < c ELSE c <= k1[u]
      BY <2>1, <1>1 DEF Gap
    <3>2. ASSUME NEW u \in 1..n PROVE IF u < j THEN k0[u] < c ELSE c <= k0[u]
      <4>1. CASE u < i
        <5>1. k1[u] = k0[u] /\ u \in 1..n + 1 /\ (u < j <=> u < v)
          BY <4>1, <1>1, <1>3
        <5>2. QED
          BY <5>1, <3>1
      <4>2. CASE i <= u
        <5>1. k1[u + 1] = k0[u] /\ u + 1 \in 1..n + 1 /\ (u < j <=> u + 1 < v)
          BY <4>2, <1>1, <1>3
        <5>2. QED
          BY <5>1, <3>1
      <4>3. QED
        BY <4>1, <4>2, <1>1
    <3>3. QED
      BY <3>1, <3>2, <1>1 DEF Gap
  <2>2. ASSUME c \in Gap(m, k0, j), IF i < v THEN s < c ELSE c <= s
        PROVE  c \in Gap(m, k1, v)
    <3>1. \A u \in 1..n : IF u < j THEN k0[u] < c ELSE c <= k0[u]
      BY <2>2, <1>1 DEF Gap
    <3>2. ASSUME NEW u \in 1..n + 1 PROVE IF u < v THEN k1[u] < c ELSE c <= k1[u]
      <4>1. CASE u < i
        <5>1. k1[u] = k0[u] /\ u \in 1..n /\ (u < j <=> u < v)
          BY <4>1, <1>1, <1>3
        <5>2. QED
          BY <5>1, <3>1
      <4>2. CASE u = i
        BY <4>2, <2>2, <1>1
      <4>3. CASE i < u
        <5>1. PICK e \in 1..n : u = e + 1 /\ i <= e
          BY <4>3, <1>1
        <5>2. k1[u] = k0[e] /\ (e < j <=> u < v)
          BY <5>1, <1>1, <1>3
        <5>3. QED
          BY <5>2, <3>1
      <4>4. QED
        BY <4>1, <4>2, <4>3, <1>1
    <3>3. QED
      BY <3>2, <1>1 DEF Gap
  <2>3. QED
    BY <2>1, <2>2
<1>4. ASSUME NEW j \in 1..n + 1, j < i PROVE Gap(m, k1, j) = Gap(m, k0, j)
  <2>1. ASSUME NEW c \in m PROVE c \in Gap(m, k1, j) <=> c \in Gap(m, k0, j)
    <3>1. c \in Gap(m, k1, j) <=> c \in Gap(m, k0, j) /\ c <= s
      BY <1>3, <1>4, <1>1
    <3>2. ASSUME c \in Gap(m, k0, j) PROVE c <= s
      <4>1. j \in 1..n /\ k0[j] \in Int /\ k0[j] < s
        BY <1>4, <1>1, <1>2
      <4>2. c <= k0[j] /\ c \in Int
        BY <3>2, <4>1, <1>1 DEF Gap
      <4>3. QED
        BY <4>1, <4>2, <1>1
    <3>3. QED
      BY <3>1, <3>2
  <2>2. QED
    BY <2>1 DEF Gap
<1>5. Gap(m, k1, i) = Low(Gap(m, k0, i), s)
  <2>1. ASSUME NEW c \in m PROVE c \in Gap(m, k1, i) <=> c \in Gap(m, k0, i) /\ c <= s
    BY <1>3, <1>1
  <2>2. QED
    BY <2>1 DEF Gap, Low
<1>6. Gap(m, k1, i + 1) = High(Gap(m, k0, i), s)
  <2>1. ASSUME NEW c \in m PROVE c \in Gap(m, k1, i + 1) <=> c \in Gap(m, k0, i) /\ s < c
    BY <1>3, <1>1
  <2>2. QED
    BY <2>1 DEF Gap, High
<1>7. ASSUME NEW j \in 1..n + 1, i < j PROVE Gap(m, k1, j + 1) = Gap(m, k0, j)
  <2>1. ASSUME NEW c \in m PROVE c \in Gap(m, k1, j + 1) <=> c \in Gap(m, k0, j)
    <3>1. c \in Gap(m, k1, j + 1) <=> c \in Gap(m, k0, j) /\ s < c
      BY <1>3, <1>7, <1>1
    <3>2. ASSUME c \in Gap(m, k0, j) PROVE s < c
      <4>1. i \in 1..n /\ k0[i] \in Int /\ s < k0[i]
        BY <1>7, <1>1, <1>2
      <4>2. k0[i] < c /\ c \in Int
        BY <3>2, <4>1, <1>1, <1>7 DEF Gap
      <4>3. QED
        BY <4>1, <4>2, <1>1
    <3>3. QED
      BY <3>1, <3>2
  <2>2. QED
    BY <2>1 DEF Gap
<1>8. QED
  BY <1>4, <1>5, <1>6, <1>7 DEF n

\* A page with the keys k0 and the children c0 gets the key s at place i and the
\* child x behind it.
Grows(k0, c0, i, s, x, k1, c1) ==
    /\ Adds(k0, i, s, k1)
    /\ c0 \in Seq(Nat) /\ c1 \in Seq(Nat) /\ Len(c0) = Len(k0) + 1
    /\ HasInserted(Nat, c0, i + 1, x, c1)

\* The other children keep their cuts.
OthersKeep(c0, i, may, may1) == \A j \in DOMAIN c0 : j # i => may1[c0[j]] = may[c0[j]]

LEMMA GrowPlaces ==
  ASSUME NEW k0, NEW c0, NEW i, NEW s, NEW x, NEW k1, NEW c1,
         Grows(k0, c0, i, s, x, k1, c1)
  PROVE  /\ Len(k0) \in Nat /\ i \in 1..Len(k0) + 1
         /\ DOMAIN c0 = 1..Len(k0) + 1 /\ DOMAIN c1 = 1..Len(k0) + 2
         /\ \A j \in 1..Len(k0) + 1 : j < i => c1[j] = c0[j]
         /\ c1[i] = c0[i] /\ c1[i + 1] = x
         /\ \A j \in 1..Len(k0) + 1 : i < j => c1[j + 1] = c0[j]
         /\ \A v \in 1..Len(k0) + 2 : \/ v \in 1..Len(k0) + 1 /\ v < i
                                      \/ v = i
                                      \/ v = i + 1
                                      \/ \E j \in 1..Len(k0) + 1 : v = j + 1 /\ i < j
<1> DEFINE n == Len(k0)
<1>1. n \in Nat /\ i \in 1..n + 1
  BY AddPlaces DEF Grows
<1>2. /\ c0 \in Seq(Nat) /\ c1 \in Seq(Nat) /\ Len(c0) = n + 1
      /\ Len(c1) = Len(c0) + 1
      /\ \A j \in 1..(i + 1) - 1 : c1[j] = c0[j]
      /\ c1[i + 1] = x
      /\ \A j \in i + 1..Len(c0) : c1[j + 1] = c0[j]
  BY DEF Grows, HasInserted
<1>3. DOMAIN c0 = 1..n + 1 /\ DOMAIN c1 = 1..n + 2
  BY <1>1, <1>2
<1> HIDE DEF n
<1>4. \A j \in 1..n + 1 : j < i => c1[j] = c0[j]
  BY <1>1, <1>2
<1>5. c1[i] = c0[i]
  BY <1>1, <1>2
<1>6. \A j \in 1..n + 1 : i < j => c1[j + 1] = c0[j]
  BY <1>1, <1>2
<1>7. ASSUME NEW v \in 1..n + 2
      PROVE  \/ v \in 1..n + 1 /\ v < i
             \/ v = i
             \/ v = i + 1
             \/ \E j \in 1..n + 1 : v = j + 1 /\ i < j
  <2>1. CASE v <= i + 1
    BY <2>1, <1>1
  <2>2. CASE i + 1 < v
    <3> DEFINE j == v - 1
    <3>1. j \in 1..n + 1 /\ v = j + 1 /\ i < j
      BY <2>2, <1>1
    <3>2. QED
      BY <3>1
  <2>3. QED
    BY <2>1, <2>2, <1>1
<1>8. QED
  BY <1>1, <1>2, <1>3, <1>4, <1>5, <1>6, <1>7 DEF n

LEMMA AllotsMore ==
  ASSUME NEW k0, NEW c0, NEW i, NEW s, NEW x, NEW k1, NEW c1,
         Grows(k0, c0, i, s, x, k1, c1), Belongs(k0, i, s),
         NEW m \in SUBSET Int, NEW may, NEW may1, NEW g, g = Gap(m, k0, i)
  PROVE  /\ (/\ Allots(m, k0, c0, may) /\ OthersKeep(c0, i, may, may1)
             /\ may1[c0[i]] = Low(g, s) /\ may1[x] = High(g, s))
            => Allots(m, k1, c1, may1)
         /\ (/\ Allots(m, k1, c1, may) /\ OthersKeep(c0, i, may, may1)
             /\ may1[c0[i]] = g)
            => /\ Allots(m, k0, c0, may1)
               /\ may[c0[i]] = Low(g, s) /\ may[x] = High(g, s)
<1> DEFINE n == Len(k0)
<1>1. Adds(k0, i, s, k1)
  BY DEF Grows
<1>2. /\ n \in Nat /\ i \in 1..n + 1
      /\ DOMAIN c0 = 1..n + 1 /\ DOMAIN c1 = 1..n + 2
      /\ \A j \in 1..n + 1 : j < i => c1[j] = c0[j]
      /\ c1[i] = c0[i] /\ c1[i + 1] = x
      /\ \A j \in 1..n + 1 : i < j => c1[j + 1] = c0[j]
      /\ \A v \in 1..n + 2 : \/ v \in 1..n + 1 /\ v < i
                             \/ v = i
                             \/ v = i + 1
                             \/ \E j \in 1..n + 1 : v = j + 1 /\ i < j
  BY GrowPlaces
<1>3. /\ \A j \in 1..n + 1 : j < i => Gap(m, k1, j) = Gap(m, k0, j)
      /\ Gap(m, k1, i) = Low(g, s)
      /\ Gap(m, k1, i + 1) = High(g, s)
      /\ \A j \in 1..n + 1 : i < j => Gap(m, k1, j + 1) = Gap(m, k0, j)
  BY <1>1, AddGaps
<1> HIDE DEF n
<1>4. ASSUME Allots(m, k0, c0, may), OthersKeep(c0, i, may, may1),
             may1[c0[i]] = Low(g, s), may1[x] = High(g, s)
      PROVE  Allots(m, k1, c1, may1)
  <2>1. /\ \A j \in 1..n + 1 : may[c0[j]] = Gap(m, k0, j)
        /\ \A j \in 1..n + 1 : j # i => may1[c0[j]] = may[c0[j]]
    BY <1>4, <1>2 DEF Allots, OthersKeep
  <2>2. ASSUME NEW v \in 1..n + 2 PROVE may1[c1[v]] = Gap(m, k1, v)
    <3>1. CASE v \in 1..n + 1 /\ v < i
      BY <3>1, <2>1, <1>2, <1>3
    <3>2. CASE v = i
      BY <3>2, <1>2, <1>3, <1>4
    <3>3. CASE v = i + 1
      BY <3>3, <1>2, <1>3, <1>4
    <3>4. CASE \E j \in 1..n + 1 : v = j + 1 /\ i < j
      <4>1. PICK j \in 1..n + 1 : v = j + 1 /\ i < j
        BY <3>4
      <4>2. c1[v] = c0[j] /\ Gap(m, k1, v) = Gap(m, k0, j) /\ j # i
        BY <4>1, <1>2, <1>3
      <4>3. QED
        BY <4>2, <2>1
    <3>5. QED
      BY <3>1, <3>2, <3>3, <3>4, <1>2
  <2>3. QED
    BY <2>2, <1>2 DEF Allots
<1>5. ASSUME Allots(m, k1, c1, may), OthersKeep(c0, i, may, may1), may1[c0[i]] = g
      PROVE  /\ Allots(m, k0, c0, may1)
             /\ may[c0[i]] = Low(g, s) /\ may[x] = High(g, s)
  <2>1. /\ \A v \in 1..n + 2 : may[c1[v]] = Gap(m, k1, v)
        /\ \A j \in 1..n + 1 : j # i => may1[c0[j]] = may[c0[j]]
    BY <1>5, <1>2 DEF Allots, OthersKeep
  <2>2. i \in 1..n + 2 /\ i + 1 \in 1..n + 2
    BY <1>2
  <2>3. may[c0[i]] = Low(g, s) /\ may[x] = High(g, s)
    BY <2>1, <2>2, <1>2, <1>3
  <2>4. ASSUME NEW j \in 1..n + 1 PROVE may1[c0[j]] = Gap(m, k0, j)
    <3>1. CASE j < i
      <4>1. j \in 1..n + 2 /\ j # i
        BY <3>1, <1>2
      <4>2. QED
        BY <4>1, <3>1, <2>1, <1>2, <1>3
    <3>2. CASE j = i
      BY <3>2, <1>5
    <3>3. CASE i < j
      <4>1. j + 1 \in 1..n + 2 /\ j # i
        BY <3>3, <1>2
      <4>2. QED
        BY <4>1, <3>3, <2>1, <1>2, <1>3
    <3>4. QED
      BY <3>1, <3>2, <3>3, <1>2
  <2>5. QED
    BY <2>3, <2>4, <1>2 DEF Allots
<1>6. QED
  BY <1>4, <1>5

\* A page in order gets a key of a gap.
LEMMA GapParts ==
  ASSUME NEW k0, NEW c0, NEW i, NEW s, NEW x, NEW k1, NEW c1,
         Grows(k0, c0, i, s, x, k1, c1),
         NEW m, NEW may, NEW may1, InPlace(m, k0, c0, may),
         NEW g, g = Gap(m, k0, i), Inside(s, g),
         OthersKeep(c0, i, may, may1), may1[c0[i]] = Low(g, s), may1[x] = High(g, s)
  PROVE  InPlace(m, k1, c1, may1)
<1> DEFINE n == Len(k0)
<1>1. Adds(k0, i, s, k1)
  BY DEF Grows
<1>2. /\ n \in Nat /\ i \in Nat /\ s \in Int /\ DOMAIN k0 = 1..n /\ DOMAIN k1 = 1..n + 1
      /\ i \in 1..n + 1 /\ k1[i] = s
      /\ \A j \in 1..n : /\ k0[j] \in Int
                         /\ j < i => k1[j] = k0[j]
                         /\ i <= j => k1[j + 1] = k0[j]
      /\ \A j \in 1..n + 1 : /\ k1[j] \in Int
                             /\ j < i => j \in 1..n
                             /\ i < j => \E e \in 1..n : j = e + 1 /\ i <= e
  BY <1>1, AddPlaces
<1>3. /\ Convex(m) /\ m \in SUBSET Int /\ Ascends(k0) /\ Allots(m, k0, c0, may)
      /\ \A j \in DOMAIN k0 : Inside(k0[j], m)
  BY DEF InPlace, Convex
<1> HIDE DEF n
<1>4. s \in m /\ s + 1 \in m /\ (\A j \in 1..n : IF j < i THEN k0[j] < s ELSE s <= k0[j])
      /\ \A j \in 1..n : IF j < i THEN k0[j] < s + 1 ELSE s + 1 <= k0[j]
  BY <1>2 DEF Inside, Gap
<1>5. Belongs(k0, i, s)
  <2>1. \A j \in 1..n : IF j < i THEN k0[j] < s ELSE s < k0[j]
    BY <1>4, <1>2
  <2>2. QED
    BY <2>1, <1>2 DEF Belongs
<1>6. Ascends(k1)
  BY <1>1, <1>3, <1>5, AddAscends
<1>7. Allots(m, k1, c1, may1)
  BY <1>3, <1>5, AllotsMore
<1>8. ASSUME NEW j \in 1..n + 1 PROVE Inside(k1[j], m)
  <2>1. CASE j < i
    BY <2>1, <1>2, <1>3
  <2>2. CASE j = i
    BY <2>2, <1>2, <1>4 DEF Inside
  <2>3. CASE i < j
    <3>1. PICK e \in 1..n : j = e + 1 /\ i <= e
      BY <2>3, <1>2
    <3>2. QED
      BY <3>1, <1>2, <1>3
  <2>4. QED
    BY <2>1, <2>2, <2>3, <1>2
<1>9. \A j \in DOMAIN k1 : Inside(k1[j], m)
  BY <1>8, <1>2
<1>10. QED
  BY <1>3, <1>6, <1>7, <1>9, Zenon DEF InPlace

\* A page in order loses a key, and the children around it become one.
LEMMA GapJoins ==
  ASSUME NEW k0, NEW c0, NEW i, NEW s, NEW x, NEW k1, NEW c1,
         Grows(k0, c0, i, s, x, k1, c1),
         NEW m, NEW may, NEW may1, InPlace(m, k1, c1, may),
         NEW g, g = Gap(m, k0, i),
         OthersKeep(c0, i, may, may1), may1[c0[i]] = g
  PROVE  /\ InPlace(m, k0, c0, may1)
         /\ Inside(s, g) /\ may[c0[i]] = Low(g, s) /\ may[x] = High(g, s)
<1> DEFINE n == Len(k0)
<1>1. Adds(k0, i, s, k1)
  BY DEF Grows
<1>2. /\ n \in Nat /\ i \in Nat /\ s \in Int /\ DOMAIN k0 = 1..n /\ DOMAIN k1 = 1..n + 1
      /\ i \in 1..n + 1 /\ k1[i] = s
      /\ \A j \in 1..n : /\ k0[j] \in Int
                         /\ j < i => k1[j] = k0[j]
                         /\ i <= j => k1[j + 1] = k0[j]
  BY <1>1, AddPlaces
<1>3. /\ Convex(m) /\ m \in SUBSET Int /\ Ascends(k1) /\ Allots(m, k1, c1, may)
      /\ \A j \in DOMAIN k1 : Inside(k1[j], m)
  BY DEF InPlace, Convex
<1> HIDE DEF n
<1>4. Ascends(k0) /\ Belongs(k0, i, s)
  BY <1>1, <1>3, AddAscends
<1>5. Allots(m, k0, c0, may1) /\ may[c0[i]] = Low(g, s) /\ may[x] = High(g, s)
  BY <1>3, <1>4, AllotsMore
<1>6. ASSUME NEW j \in 1..n PROVE Inside(k0[j], m)
  <2>1. CASE j < i
    <3>1. j \in 1..n + 1 /\ k1[j] = k0[j]
      BY <2>1, <1>2
    <3>2. QED
      BY <3>1, <1>2, <1>3
  <2>2. CASE i <= j
    <3>1. j + 1 \in 1..n + 1 /\ k1[j + 1] = k0[j]
      BY <2>2, <1>2
    <3>2. QED
      BY <3>1, <1>2, <1>3
  <2>3. QED
    BY <2>1, <2>2, <1>2
<1>7. \A j \in DOMAIN k0 : Inside(k0[j], m)
  BY <1>6, <1>2
<1>8. InPlace(m, k0, c0, may1)
  BY <1>3, <1>4, <1>5, <1>7, Zenon DEF InPlace
<1>9. Inside(s, g)
  <2>1. s \in m /\ s + 1 \in m
    BY <1>2, <1>3 DEF Inside
  <2>2. \A j \in 1..n : IF j < i THEN k0[j] < s ELSE s < k0[j]
    BY <1>4, <1>2 DEF Belongs
  <2>3. \A j \in 1..n : IF j < i THEN k0[j] < s + 1 ELSE s + 1 <= k0[j]
    BY <2>2, <1>2
  <2>4. \A j \in 1..n : IF j < i THEN k0[j] < s ELSE s <= k0[j]
    BY <2>2, <1>2
  <2>5. QED
    BY <2>1, <2>3, <2>4, <1>2 DEF Inside, Gap
<1>10. QED
  BY <1>5, <1>8, <1>9

-----------------------------------------------------------------------------
(* Changes of the tree that keep it in order.                              *)

LEMMA InPlaceKept ==
  ASSUME NEW m, NEW ks, NEW cs, NEW may, NEW may1, InPlace(m, ks, cs, may),
         \A j \in DOMAIN cs : may1[cs[j]] = may[cs[j]]
  PROVE  InPlace(m, ks, cs, may1)
<1>1. Allots(m, ks, cs, may) => Allots(m, ks, cs, may1)
  BY DEF Allots
<1>2. QED
  BY <1>1, Zenon DEF InPlace

\* A child is a child of one page.
LEMMA ChildOnce ==
  ASSUME NEW D, NEW T, NEW r, NEW kids, NEW keys, NEW by, NEW at, NEW level, NEW may,
         Sorted(D, T, r, kids, keys, by, at, level, may),
         NEW p \in T, NEW i \in DOMAIN kids[p], NEW q \in T, NEW j \in DOMAIN kids[q],
         kids[p][i] = kids[q][j]
  PROVE  p = q /\ i = j
<1>1. by[kids[p][i]] = p /\ at[kids[p][i]] = i
  BY SortedPage
<1>2. by[kids[q][j]] = q /\ at[kids[q][j]] = j
  BY SortedPage
<1>3. QED
  BY <1>1, <1>2

LEMMA RowKeys ==
  ASSUME NEW ks, NEW ka, NEW s, NEW kb, Row(ks, ka, s, kb)
  PROVE  ToSet(ks) = ToSet(ka) \cup {s} \cup ToSet(kb)
<1>1. /\ DOMAIN ka = 1..Len(ka) /\ DOMAIN kb = 1..Len(kb) /\ DOMAIN ks = 1..Len(ks)
      /\ \A j \in 1..Len(ka) : ks[j] = ka[j] /\ j \in 1..Len(ks)
      /\ ks[Len(ka) + 1] = s /\ Len(ka) + 1 \in 1..Len(ks)
      /\ \A j \in 1..Len(kb) : /\ ks[Len(ka) + 1 + j] = kb[j]
                               /\ Len(ka) + 1 + j \in 1..Len(ks)
      /\ \A j \in 1..Len(ks) : \/ j \in 1..Len(ka)
                               \/ j = Len(ka) + 1
                               \/ \E i \in 1..Len(kb) : j = Len(ka) + 1 + i
  BY RowPlaces
<1>2. ASSUME NEW y \in ToSet(ks) PROVE y \in ToSet(ka) \cup {s} \cup ToSet(kb)
  <2>1. PICK j \in 1..Len(ks) : y = ks[j]
    BY <1>1 DEF ToSet
  <2>2. CASE j \in 1..Len(ka)
    BY <2>1, <2>2, <1>1 DEF ToSet
  <2>3. CASE j = Len(ka) + 1
    BY <2>1, <2>3, <1>1
  <2>4. CASE \E i \in 1..Len(kb) : j = Len(ka) + 1 + i
    <3>1. PICK i \in 1..Len(kb) : j = Len(ka) + 1 + i
      BY <2>4
    <3>2. y = kb[i] /\ i \in DOMAIN kb
      BY <2>1, <3>1, <1>1
    <3>3. QED
      BY <3>2 DEF ToSet
  <2>5. QED
    BY <2>2, <2>3, <2>4, <1>1
<1>3. ASSUME NEW y \in ToSet(ka) \cup {s} \cup ToSet(kb) PROVE y \in ToSet(ks)
  <2>1. CASE y \in ToSet(ka)
    BY <2>1, <1>1 DEF ToSet
  <2>2. CASE y = s
    BY <2>2, <1>1 DEF ToSet
  <2>3. CASE y \in ToSet(kb)
    <3>1. PICK j \in 1..Len(kb) : y = kb[j]
      BY <2>3, <1>1 DEF ToSet
    <3>2. QED
      BY <3>1, <1>1 DEF ToSet
  <2>4. QED
    BY <2>1, <2>2, <2>3
<1>4. QED
  BY <1>2, <1>3

LEMMA AddKeys ==
  ASSUME NEW k0, NEW i, NEW s, NEW k1, Adds(k0, i, s, k1)
  PROVE  ToSet(k1) = ToSet(k0) \cup {s}
<1> DEFINE n == Len(k0)
<1>1. /\ n \in Nat /\ i \in Nat /\ DOMAIN k0 = 1..n /\ DOMAIN k1 = 1..n + 1
      /\ i \in 1..n + 1 /\ k1[i] = s
      /\ \A j \in 1..n : /\ j < i => k1[j] = k0[j]
                         /\ i <= j => k1[j + 1] = k0[j]
      /\ \A j \in 1..n + 1 : /\ j < i => j \in 1..n
                             /\ i < j => \E e \in 1..n : j = e + 1 /\ i <= e
  BY AddPlaces
<1> HIDE DEF n
<1>2. ASSUME NEW j \in 1..n + 1 PROVE k1[j] \in ToSet(k0) \cup {s}
  <2>1. CASE j < i
    BY <2>1, <1>1 DEF ToSet
  <2>2. CASE j = i
    BY <2>2, <1>1
  <2>3. CASE i < j
    <3>1. PICK e \in 1..n : j = e + 1 /\ i <= e
      BY <2>3, <1>1
    <3>2. k1[j] = k0[e]
      BY <3>1, <1>1
    <3>3. QED
      BY <3>2, <1>1 DEF ToSet
  <2>4. QED
    BY <2>1, <2>2, <2>3, <1>1
<1>3. ASSUME NEW j \in 1..n PROVE k0[j] \in ToSet(k1)
  <2>1. CASE j < i
    <3>1. j \in 1..n + 1 /\ k1[j] = k0[j]
      BY <2>1, <1>1
    <3>2. QED
      BY <3>1, <1>1 DEF ToSet
  <2>2. CASE i <= j
    <3>1. j + 1 \in 1..n + 1 /\ k1[j + 1] = k0[j]
      BY <2>2, <1>1
    <3>2. QED
      BY <3>1, <1>1 DEF ToSet
  <2>3. QED
    BY <2>1, <2>2, <1>1
<1>4. s \in ToSet(k1)
  BY <1>1 DEF ToSet
<1>5. ToSet(k1) \subseteq ToSet(k0) \cup {s}
  BY <1>2, <1>1 DEF ToSet
<1>6. ToSet(k0) \subseteq ToSet(k1)
  BY <1>3, <1>1 DEF ToSet
<1>7. QED
  BY <1>4, <1>5, <1>6

\* The members of cs are members of ca and of cb.
FromEither(cs, ca, cb) ==
    \A e \in DOMAIN cs : \/ \E j \in DOMAIN ca : cs[e] = ca[j]
                         \/ \E j \in DOMAIN cb : cs[e] = cb[j]

\* The children of the parts are children of the row, and the other way round.
LEMMA RowBelowIn ==
  ASSUME NEW ks, NEW ka, NEW s, NEW kb, Row(ks, ka, s, kb),
         NEW cs \in Seq(Nat), NEW ca \in Seq(Nat), NEW cb \in Seq(Nat),
         RowBelow(cs, ka, ca, kb, cb)
  PROVE  /\ \A j \in DOMAIN ca : \E e \in DOMAIN cs : ca[j] = cs[e]
         /\ \A j \in DOMAIN cb : \E e \in DOMAIN cs : cb[j] = cs[e]
         /\ FromEither(cs, ca, cb)
<1>1. CASE cs = <<>> /\ ca = <<>> /\ cb = <<>>
  BY <1>1 DEF FromEither
<1>2. CASE ~(cs = <<>> /\ ca = <<>> /\ cb = <<>>)
  <2> DEFINE a == Len(ca)
             b == Len(cb)
  <2>1. /\ Len(cs) = a + b
        /\ \A j \in 1..a : cs[j] = ca[j]
        /\ \A j \in 1..b : cs[a + j] = cb[j]
    BY <1>2 DEF RowBelow
  <2>2. /\ a \in Nat /\ b \in Nat
        /\ DOMAIN ca = 1..a /\ DOMAIN cb = 1..b /\ DOMAIN cs = 1..a + b
    BY <2>1
  <2> HIDE DEF a, b
  <2>3. ASSUME NEW j \in 1..a PROVE \E e \in 1..a + b : ca[j] = cs[e]
    <3>1. j \in 1..a + b
      BY <2>2
    <3>2. QED
      BY <3>1, <2>1
  <2>4. ASSUME NEW j \in 1..b PROVE \E e \in 1..a + b : cb[j] = cs[e]
    <3>1. a + j \in 1..a + b
      BY <2>2
    <3>2. QED
      BY <3>1, <2>1
  <2>5. ASSUME NEW e \in 1..a + b
        PROVE  (\E j \in 1..a : cs[e] = ca[j]) \/ (\E j \in 1..b : cs[e] = cb[j])
    <3>1. CASE e <= a
      <4>1. e \in 1..a
        BY <3>1, <2>2
      <4>2. QED
        BY <4>1, <2>1
    <3>2. CASE a < e
      <4> DEFINE j == e - a
      <4>1. j \in 1..b /\ e = a + j
        BY <3>2, <2>2
      <4>2. QED
        BY <4>1, <2>1
    <3>3. QED
      BY <3>1, <3>2, <2>2
  <2>6. FromEither(cs, ca, cb)
    BY <2>2, <2>5 DEF FromEither
  <2>7. QED
    BY <2>2, <2>3, <2>4, <2>6
<1>3. QED
  BY <1>1, <1>2

\* What the pages hold, and that the root may hold anything.
Placed(T, r, kids, keys, may) ==
    /\ may[r] = Int
    /\ \A q \in T : InPlace(may[q], keys[q], kids[q], may)

\* Child c of p, between its keys, is parted at its key s: n is the upper part.
Splits(T, kids, keys, p, i, c, s, n, kids1, keys1) ==
    /\ p \in T /\ i \in DOMAIN kids[p] /\ c = kids[p][i] /\ n \notin T
    /\ Grows(keys[p], kids[p], i, s, n, keys1[p], kids1[p])
    /\ Row(keys[c], keys1[c], s, keys1[n])
    /\ kids1[c] \in Seq(Nat) /\ kids1[n] \in Seq(Nat)
    /\ RowBelow(kids[c], keys1[c], kids1[c], keys1[n], kids1[n])
    /\ \A q \in T \ {p, c} : kids1[q] = kids[q] /\ keys1[q] = keys[q]

LEMMA SplitPlaced ==
  ASSUME NEW D, NEW T, NEW r, NEW kids, NEW keys, NEW by, NEW at, NEW level, NEW may,
         Sorted(D, T, r, kids, keys, by, at, level, may),
         NEW p, NEW i, NEW c, NEW s, NEW n, NEW kids1, NEW keys1,
         Splits(T, kids, keys, p, i, c, s, n, kids1, keys1),
         NEW may1, \A q \in T \ {c} : may1[q] = may[q],
         may1[c] = Low(may[c], s), may1[n] = High(may[c], s)
  PROVE  /\ Placed(T \cup {n}, r, kids1, keys1, may1)
         /\ Held(T \cup {n}, keys1) = Held(T, keys)
         /\ Inside(s, may[c]) /\ s \in ToSet(keys[c])
<1>1. /\ p \in T /\ i \in DOMAIN kids[p] /\ c = kids[p][i] /\ n \notin T
      /\ Grows(keys[p], kids[p], i, s, n, keys1[p], kids1[p])
      /\ Row(keys[c], keys1[c], s, keys1[n])
      /\ kids1[c] \in Seq(Nat) /\ kids1[n] \in Seq(Nat)
      /\ RowBelow(kids[c], keys1[c], kids1[c], keys1[n], kids1[n])
      /\ \A q \in T \ {p, c} : kids1[q] = kids[q] /\ keys1[q] = keys[q]
  BY DEF Splits
<1>2. c \in T /\ c # p /\ c # r /\ r \in T /\ may[c] = Gap(may[p], keys[p], i)
  BY <1>1, SortedPage
<1>3. kids[c] \in Seq(Nat) /\ Convex(may[c])
  BY <1>2, SortedPage
<1>4. \A q \in T : InPlace(may[q], keys[q], kids[q], may)
  BY DEF Sorted
<1>5. ASSUME NEW q \in T, NEW j \in DOMAIN kids[q]
      PROVE  /\ kids[q][j] \in T /\ kids[q][j] # n
             /\ kids[q][j] = c => q = p /\ j = i
  <2>1. kids[q][j] \in T
    BY SortedPage
  <2>2. kids[q][j] = c => q = p /\ j = i
    BY <1>1, ChildOnce
  <2>3. QED
    BY <2>1, <2>2, <1>1
<1>6. /\ Inside(s, may[c])
      /\ InPlace(Low(may[c], s), keys1[c], kids1[c], may)
      /\ InPlace(High(may[c], s), keys1[n], kids1[n], may)
  <2>1. InPlace(may[c], keys[c], kids[c], may)
    BY <1>2, <1>4
  <2>2. QED
    BY <2>1, <1>1, <1>3, RowInPlace
<1>7. (\A j \in DOMAIN kids1[c] : may1[kids1[c][j]] = may[kids1[c][j]])
      /\ (\A j \in DOMAIN kids1[n] : may1[kids1[n][j]] = may[kids1[n][j]])
  <2>1. \A j \in DOMAIN kids[c] : kids[c][j] \in T \ {c}
    BY <1>2, <1>5
  <2>2. \A j \in DOMAIN kids[c] : may1[kids[c][j]] = may[kids[c][j]]
    BY <2>1
  <2>3. /\ \A j \in DOMAIN kids1[c] : \E e \in DOMAIN kids[c] : kids1[c][j] = kids[c][e]
        /\ \A j \in DOMAIN kids1[n] : \E e \in DOMAIN kids[c] : kids1[n][j] = kids[c][e]
    BY <1>1, <1>3, RowBelowIn
  <2>4. QED
    BY <2>2, <2>3
<1>8. InPlace(may1[c], keys1[c], kids1[c], may1) /\ InPlace(may1[n], keys1[n], kids1[n], may1)
  BY <1>6, <1>7, InPlaceKept
<1>9. InPlace(may1[p], keys1[p], kids1[p], may1)
  <2>1. OthersKeep(kids[p], i, may, may1)
    BY <1>1, <1>5 DEF OthersKeep
  <2>2. InPlace(may[p], keys[p], kids[p], may) /\ may1[p] = may[p]
    BY <1>1, <1>2, <1>4
  <2>3. /\ Inside(s, may[c]) /\ may1[kids[p][i]] = Low(may[c], s)
        /\ may1[n] = High(may[c], s)
    BY <1>1, <1>6
  <2>4. InPlace(may[p], keys1[p], kids1[p], may1)
    BY <2>1, <2>2, <2>3, <1>1, <1>2, GapParts
  <2>5. QED
    BY <2>2, <2>4
<1>10. ASSUME NEW q \in T \ {p, c} PROVE InPlace(may1[q], keys1[q], kids1[q], may1)
  <2>1. InPlace(may[q], keys[q], kids[q], may)
    BY <1>4
  <2>2. \A j \in DOMAIN kids[q] : may1[kids[q][j]] = may[kids[q][j]]
    BY <1>5
  <2>3. InPlace(may[q], keys[q], kids[q], may1)
    BY <2>1, <2>2, InPlaceKept
  <2>4. QED
    BY <2>3, <1>1
<1>11. Placed(T \cup {n}, r, kids1, keys1, may1)
  <2>1. may1[r] = Int
    BY <1>2 DEF Sorted
  <2>2. \A q \in T \cup {n} : InPlace(may1[q], keys1[q], kids1[q], may1)
    BY <1>8, <1>9, <1>10
  <2>3. QED
    BY <2>1, <2>2, Zenon DEF Placed
<1>12. Held(T \cup {n}, keys1) = Held(T, keys)
  <2>1. ToSet(keys[c]) = ToSet(keys1[c]) \cup {s} \cup ToSet(keys1[n])
    BY <1>1, RowKeys
  <2>2. ToSet(keys1[p]) = ToSet(keys[p]) \cup {s}
    BY <1>1, AddKeys DEF Grows
  <2>3. \A q \in T \ {p, c} : ToSet(keys1[q]) = ToSet(keys[q])
    BY <1>1
  <2>4. ASSUME NEW y \in Held(T \cup {n}, keys1) PROVE y \in Held(T, keys)
    <3>1. PICK q \in T \cup {n} : y \in ToSet(keys1[q])
      BY DEF Held
    <3>2. CASE q \in {c, n, p}
      <4>1. y \in ToSet(keys[c]) \/ y \in ToSet(keys[p])
        BY <3>1, <3>2, <2>1, <2>2
      <4>2. QED
        BY <4>1, <1>1, <1>2 DEF Held
    <3>3. CASE q \notin {c, n, p}
      BY <3>1, <3>3, <2>3 DEF Held
    <3>4. QED
      BY <3>2, <3>3
  <2>5. ASSUME NEW y \in Held(T, keys) PROVE y \in Held(T \cup {n}, keys1)
    <3>1. PICK q \in T : y \in ToSet(keys[q])
      BY DEF Held
    <3>2. CASE q \in {c, p}
      <4>1. y \in ToSet(keys1[c]) \/ y \in ToSet(keys1[p]) \/ y \in ToSet(keys1[n])
        BY <3>1, <3>2, <2>1, <2>2
      <4>2. QED
        BY <4>1, <1>1, <1>2 DEF Held
    <3>3. CASE q \notin {c, p}
      BY <3>1, <3>3, <2>3 DEF Held
    <3>4. QED
      BY <3>2, <3>3
  <2>6. QED
    BY <2>4, <2>5
<1>13. s \in ToSet(keys[c])
  BY <1>1, RowKeys
<1>14. QED
  BY <1>6, <1>11, <1>12, <1>13

\* Children c and n of p with the key s between them, taken together: without s,
\* p has the keys k0 and the children c0, and the row has the keys w and the
\* children cw.
Adjoin(T, kids, keys, p, i, c, s, n, k0, c0, w, cw) ==
    /\ p \in T /\ i \in DOMAIN c0 /\ c = c0[i]
    /\ Grows(k0, c0, i, s, n, keys[p], kids[p])
    /\ Row(w, keys[c], s, keys[n])
    /\ cw \in Seq(Nat) /\ RowBelow(cw, keys[c], kids[c], keys[n], kids[n])

LEMMA AdjoinPlaced ==
  ASSUME NEW D, NEW T, NEW r, NEW kids, NEW keys, NEW by, NEW at, NEW level, NEW may,
         Sorted(D, T, r, kids, keys, by, at, level, may),
         NEW p, NEW i, NEW c, NEW s, NEW n, NEW k0, NEW c0, NEW w, NEW cw,
         Adjoin(T, kids, keys, p, i, c, s, n, k0, c0, w, cw),
         NEW g, g = Gap(may[p], k0, i)
  PROVE  /\ c \in T /\ n \in T /\ c # p /\ n # p /\ c # n /\ c # r /\ n # r
         /\ c = kids[p][i] /\ n = kids[p][i + 1]
         /\ level[c] + 1 = level[p] /\ level[n] + 1 = level[p]
         /\ \A q \in T : \A j \in DOMAIN kids[q] : /\ kids[q][j] \in T
                                                   /\ kids[q][j] \in {c, n} => q = p
         /\ \A j \in DOMAIN c0 : c0[j] \in T /\ c0[j] # n /\ (c0[j] = c => j = i)
         /\ \A j \in DOMAIN cw : cw[j] \in T /\ cw[j] # n /\ cw[j] # c
         /\ Convex(g) /\ Inside(s, g) /\ may[c] = Low(g, s) /\ may[n] = High(g, s)
         /\ InPlace(g, w, cw, may)
         /\ \A mayJ : OthersKeep(c0, i, may, mayJ) /\ mayJ[c] = g
                         => InPlace(may[p], k0, c0, mayJ)
<1>1. /\ p \in T /\ i \in DOMAIN c0 /\ c = c0[i]
      /\ Grows(k0, c0, i, s, n, keys[p], kids[p])
      /\ Row(w, keys[c], s, keys[n])
      /\ cw \in Seq(Nat) /\ RowBelow(cw, keys[c], kids[c], keys[n], kids[n])
  BY DEF Adjoin
<1>2. /\ Len(k0) \in Nat /\ i \in 1..Len(k0) + 1
      /\ DOMAIN c0 = 1..Len(k0) + 1 /\ DOMAIN kids[p] = 1..Len(k0) + 2
      /\ \A j \in 1..Len(k0) + 1 : j < i => kids[p][j] = c0[j]
      /\ kids[p][i] = c0[i] /\ kids[p][i + 1] = n
      /\ \A j \in 1..Len(k0) + 1 : i < j => kids[p][j + 1] = c0[j]
  BY <1>1, GrowPlaces
<1>3. i \in DOMAIN kids[p] /\ i + 1 \in DOMAIN kids[p] /\ i # i + 1 /\ i \in Nat
  BY <1>2
<1>4. /\ c \in T /\ n \in T /\ c # p /\ n # p /\ c # r /\ n # r
      /\ c = kids[p][i] /\ n = kids[p][i + 1]
      /\ level[c] + 1 = level[p] /\ level[n] + 1 = level[p]
  <2>1. \A j \in DOMAIN kids[p] : /\ kids[p][j] \in T /\ kids[p][j] # p /\ kids[p][j] # r
                                /\ level[kids[p][j]] + 1 = level[p]
    BY <1>1, SortedPage
  <2>2. c = kids[p][i] /\ n = kids[p][i + 1]
    BY <1>1, <1>2
  <2>3. QED
    BY <2>1, <2>2, <1>3
<1>5. c # n
  <2>1. ASSUME kids[p][i] = kids[p][i + 1] PROVE FALSE
    <3>1. i = i + 1
      BY <1>1, <1>3, <2>1, ChildOnce
    <3>2. QED
      BY <3>1, <1>3
  <2>2. QED
    BY <2>1, <1>4
<1>6. ASSUME NEW q \in T, NEW j \in DOMAIN kids[q]
      PROVE  kids[q][j] \in T /\ (kids[q][j] \in {c, n} => q = p)
  <2>1. kids[q][j] \in T
    BY SortedPage
  <2>2. kids[q][j] = c => q = p
    BY <1>1, <1>3, <1>4, ChildOnce
  <2>3. kids[q][j] = n => q = p
    BY <1>1, <1>3, <1>4, ChildOnce
  <2>4. QED
    BY <2>1, <2>2, <2>3
<1>7. ASSUME NEW j \in DOMAIN c0
      PROVE  c0[j] \in T /\ c0[j] # n /\ (c0[j] = c => j = i)
  <2>0. j \in 1..Len(k0) + 1
    BY <1>2
  <2>1. CASE j < i
    <3>1. j \in DOMAIN kids[p] /\ kids[p][j] = c0[j] /\ j # i /\ j # i + 1
      BY <2>0, <2>1, <1>2
    <3>2. c0[j] # n
      BY <3>1, <1>1, <1>3, <1>4, ChildOnce
    <3>3. c0[j] # c
      BY <3>1, <1>1, <1>3, <1>4, ChildOnce
    <3>4. QED
      BY <3>1, <3>2, <3>3, <1>1, <1>6
  <2>2. CASE j = i
    BY <2>2, <1>1, <1>4, <1>5
  <2>3. CASE i < j
    <3>1. j + 1 \in DOMAIN kids[p] /\ kids[p][j + 1] = c0[j] /\ j + 1 # i /\ j + 1 # i + 1
      BY <2>0, <2>3, <1>2
    <3>2. c0[j] # n
      BY <3>1, <1>1, <1>3, <1>4, ChildOnce
    <3>3. c0[j] # c
      BY <3>1, <1>1, <1>3, <1>4, ChildOnce
    <3>4. QED
      BY <3>1, <3>2, <3>3, <1>1, <1>6
  <2>4. QED
    BY <2>0, <2>1, <2>2, <2>3, <1>2
<1>8. ASSUME NEW j \in DOMAIN cw PROVE cw[j] \in T /\ cw[j] # n /\ cw[j] # c
  <2>0. kids[c] \in Seq(Nat) /\ kids[n] \in Seq(Nat)
    BY <1>4, SortedPage
  <2> DEFINE ca == kids[c]
             cb == kids[n]
             ka == keys[c]
             kb == keys[n]
  <2>a. cw \in Seq(Nat) /\ ca \in Seq(Nat) /\ cb \in Seq(Nat)
    BY <2>0, <1>1
  <2>b. Row(w, ka, s, kb) /\ RowBelow(cw, ka, ca, kb, cb)
    BY <1>1
  <2>1. (\E e \in DOMAIN ca : cw[j] = ca[e]) \/ (\E e \in DOMAIN cb : cw[j] = cb[e])
    <3> HIDE DEF ca, cb, ka, kb
    <3>1. FromEither(cw, ca, cb)
      BY <2>a, <2>b, RowBelowIn
    <3>2. QED
      BY <3>1 DEF FromEither
  <2>2. QED
    BY <2>1, <1>4, <1>6
<1>9. InPlace(may[p], keys[p], kids[p], may) /\ Convex(may[p])
  BY <1>1 DEF Sorted, InPlace
<1>10. ASSUME NEW mayJ, OthersKeep(c0, i, may, mayJ), mayJ[c] = g
       PROVE  /\ InPlace(may[p], k0, c0, mayJ)
              /\ Inside(s, g) /\ may[c] = Low(g, s) /\ may[n] = High(g, s)
  <2>1. mayJ[c0[i]] = g
    BY <1>1, <1>10
  <2>2. /\ InPlace(may[p], k0, c0, mayJ)
        /\ Inside(s, g) /\ may[c0[i]] = Low(g, s) /\ may[n] = High(g, s)
    BY <2>1, <1>10, <1>9, <1>1, GapJoins
  <2>3. QED
    BY <2>2, <1>1
<1>11. Inside(s, g) /\ may[c] = Low(g, s) /\ may[n] = High(g, s)
  <2> DEFINE mayJ == [q \in T |-> IF q = c THEN g ELSE may[q]]
  <2>1. OthersKeep(c0, i, may, mayJ)
    BY <1>7, <1>4 DEF OthersKeep
  <2>2. mayJ[c] = g
    BY <1>4
  <2> HIDE DEF mayJ
  <2>3. QED
    BY <2>1, <2>2, <1>10
<1>12. Convex(g)
  <2>1. k0 \in Seq(Int) /\ i \in Nat
    BY <1>1, <1>3 DEF Grows, Adds
  <2>2. QED
    BY <2>1, <1>9, GapShrinks
<1>13. InPlace(g, w, cw, may)
  <2>1. InPlace(Low(g, s), keys[c], kids[c], may) /\ InPlace(High(g, s), keys[n], kids[n], may)
    <3>1. InPlace(may[c], keys[c], kids[c], may) /\ InPlace(may[n], keys[n], kids[n], may)
      BY <1>4 DEF Sorted
    <3>2. QED
      BY <3>1, <1>11
  <2>2. kids[c] \in Seq(Nat) /\ kids[n] \in Seq(Nat)
    BY <1>4, SortedPage
  <2>3. QED
    BY <2>1, <2>2, <1>1, <1>11, <1>12, RowInPlace
<1>14. QED
  BY <1>4, <1>5, <1>6, <1>7, <1>8, <1>10, <1>11, <1>12, <1>13

\* They become one page, and n is out of the tree.
Merged(T, kids, keys, p, i, c, s, n, kids1, keys1) ==
    /\ Adjoin(T, kids, keys, p, i, c, s, n, keys1[p], kids1[p], keys1[c], kids1[c])
    /\ \A q \in T \ {p, c, n} : kids1[q] = kids[q] /\ keys1[q] = keys[q]

LEMMA MergePlaced ==
  ASSUME NEW D, NEW T, NEW r, NEW kids, NEW keys, NEW by, NEW at, NEW level, NEW may,
         Sorted(D, T, r, kids, keys, by, at, level, may),
         NEW p, NEW i, NEW c, NEW s, NEW n, NEW kids1, NEW keys1,
         Merged(T, kids, keys, p, i, c, s, n, kids1, keys1),
         NEW may1, \A q \in T \ {c} : may1[q] = may[q], may1[c] = Gap(may[p], keys1[p], i)
  PROVE  /\ Placed(T \ {n}, r, kids1, keys1, may1)
         /\ Held(T \ {n}, keys1) = Held(T, keys)
         /\ Inside(s, may1[c]) /\ may[c] = Low(may1[c], s) /\ may[n] = High(may1[c], s)
<1> DEFINE k0 == keys1[p]
           c0 == kids1[p]
           w == keys1[c]
           cw == kids1[c]
           g == Gap(may[p], k0, i)
<1>1. Adjoin(T, kids, keys, p, i, c, s, n, k0, c0, w, cw)
  BY DEF Merged
<1>2. /\ c \in T /\ n \in T /\ c # p /\ n # p /\ c # n /\ c # r /\ n # r
      /\ \A q \in T : \A j \in DOMAIN kids[q] : /\ kids[q][j] \in T
                                                /\ kids[q][j] \in {c, n} => q = p
      /\ \A j \in DOMAIN c0 : c0[j] \in T /\ c0[j] # n /\ (c0[j] = c => j = i)
      /\ \A j \in DOMAIN cw : cw[j] \in T /\ cw[j] # n /\ cw[j] # c
  BY <1>1, AdjoinPlaced
<1>3. /\ Inside(s, g) /\ may[c] = Low(g, s) /\ may[n] = High(g, s)
      /\ InPlace(g, w, cw, may)
      /\ \A mayJ : OthersKeep(c0, i, may, mayJ) /\ mayJ[c] = g
                      => InPlace(may[p], k0, c0, mayJ)
  BY <1>1, AdjoinPlaced
<1>4. p \in T /\ r \in T
  <2>1. p \in T
    BY <1>1 DEF Adjoin
  <2>2. QED
    BY <2>1, SortedPage
<1>5. InPlace(may1[p], k0, c0, may1)
  <2>1. OthersKeep(c0, i, may, may1)
    BY <1>2 DEF OthersKeep
  <2>2. InPlace(may[p], k0, c0, may1)
    BY <2>1, <1>3
  <2>3. QED
    BY <2>2, <1>2, <1>4
<1>6. InPlace(may1[c], w, cw, may1)
  <2>1. \A j \in DOMAIN cw : may1[cw[j]] = may[cw[j]]
    BY <1>2
  <2>2. InPlace(g, w, cw, may1)
    <3> HIDE DEF g, w, cw
    <3>1. QED
      BY <2>1, <1>3, InPlaceKept
  <2>3. QED
    BY <2>2
<1>7. ASSUME NEW q \in T \ {p, c, n} PROVE InPlace(may1[q], keys1[q], kids1[q], may1)
  <2>1. kids1[q] = kids[q] /\ keys1[q] = keys[q] /\ may1[q] = may[q]
    BY DEF Merged
  <2>2. InPlace(may[q], keys[q], kids[q], may)
    BY DEF Sorted
  <2>3. \A j \in DOMAIN kids[q] : may1[kids[q][j]] = may[kids[q][j]]
    BY <1>2
  <2>4. InPlace(may[q], keys[q], kids[q], may1)
    BY <2>2, <2>3, InPlaceKept
  <2>5. QED
    BY <2>1, <2>4
<1>8. Placed(T \ {n}, r, kids1, keys1, may1)
  <2>1. may1[r] = Int
    BY <1>2, <1>4 DEF Sorted
  <2>2. QED
    BY <2>1, <1>5, <1>6, <1>7 DEF Placed
<1>9. Held(T \ {n}, keys1) = Held(T, keys)
  <2>1. Row(w, keys[c], s, keys[n]) /\ Adds(k0, i, s, keys[p])
    BY <1>1 DEF Adjoin, Grows
  <2>2. ToSet(keys1[c]) = ToSet(keys[c]) \cup {s} \cup ToSet(keys[n])
    BY <2>1, RowKeys
  <2>3. ToSet(keys[p]) = ToSet(keys1[p]) \cup {s}
    BY <2>1, AddKeys
  <2>4. \A q \in T \ {p, c, n} : ToSet(keys1[q]) = ToSet(keys[q])
    BY DEF Merged
  <2>5. \A x : x \in Held(T, keys) <=> \E q \in T : x \in ToSet(keys[q])
    BY DEF Held
  <2>6. \A x : x \in Held(T \ {n}, keys1) <=> \E q \in T \ {n} : x \in ToSet(keys1[q])
    BY DEF Held
  <2>7. \A x : (\E q \in T : x \in ToSet(keys[q])) <=> \E q \in T \ {n} : x \in ToSet(keys1[q])
    BY <2>2, <2>3, <2>4, <1>2, <1>4
  <2>8. QED
    BY <2>5, <2>6, <2>7
<1>10. QED
  BY <1>3, <1>8, <1>9

\* They are parted anew, at s1.
Shifted(T, kids, keys, p, i, c, s, n, k0, c0, w, cw, s1, kids1, keys1) ==
    /\ Adjoin(T, kids, keys, p, i, c, s, n, k0, c0, w, cw)
    /\ Grows(k0, c0, i, s1, n, keys1[p], kids1[p])
    /\ Row(w, keys1[c], s1, keys1[n])
    /\ kids1[c] \in Seq(Nat) /\ kids1[n] \in Seq(Nat)
    /\ RowBelow(cw, keys1[c], kids1[c], keys1[n], kids1[n])
    /\ \A q \in T \ {p, c, n} : kids1[q] = kids[q] /\ keys1[q] = keys[q]

LEMMA ShiftPlaced ==
  ASSUME NEW D, NEW T, NEW r, NEW kids, NEW keys, NEW by, NEW at, NEW level, NEW may,
         Sorted(D, T, r, kids, keys, by, at, level, may),
         NEW p, NEW i, NEW c, NEW s, NEW n, NEW k0, NEW c0, NEW w, NEW cw, NEW s1,
         NEW kids1, NEW keys1,
         Shifted(T, kids, keys, p, i, c, s, n, k0, c0, w, cw, s1, kids1, keys1),
         NEW g, g = Gap(may[p], k0, i),
         NEW may1, \A q \in T \ {c, n} : may1[q] = may[q],
         may1[c] = Low(g, s1), may1[n] = High(g, s1)
  PROVE  /\ Placed(T, r, kids1, keys1, may1)
         /\ Held(T, keys1) = Held(T, keys)
         /\ Inside(s, g) /\ may[c] = Low(g, s) /\ may[n] = High(g, s)
         /\ Inside(s1, g)
<1>1. Adjoin(T, kids, keys, p, i, c, s, n, k0, c0, w, cw)
      /\ Grows(k0, c0, i, s1, n, keys1[p], kids1[p])
      /\ Row(w, keys1[c], s1, keys1[n])
      /\ kids1[c] \in Seq(Nat) /\ kids1[n] \in Seq(Nat)
      /\ RowBelow(cw, keys1[c], kids1[c], keys1[n], kids1[n])
  BY DEF Shifted
<1>a. p \in T /\ i \in DOMAIN c0 /\ c = c0[i] /\ cw \in Seq(Nat)
  BY <1>1 DEF Adjoin
<1>2. /\ c \in T /\ n \in T /\ c # p /\ n # p /\ c # n /\ c # r /\ n # r
      /\ \A q \in T : \A j \in DOMAIN kids[q] : /\ kids[q][j] \in T
                                                /\ kids[q][j] \in {c, n} => q = p
      /\ \A j \in DOMAIN c0 : c0[j] \in T /\ c0[j] # n /\ (c0[j] = c => j = i)
      /\ \A j \in DOMAIN cw : cw[j] \in T /\ cw[j] # n /\ cw[j] # c
  BY <1>1, AdjoinPlaced
<1>3. /\ Convex(g) /\ Inside(s, g) /\ may[c] = Low(g, s) /\ may[n] = High(g, s)
      /\ InPlace(g, w, cw, may)
      /\ \A mayJ : OthersKeep(c0, i, may, mayJ) /\ mayJ[c] = g
                      => InPlace(may[p], k0, c0, mayJ)
  BY <1>1, AdjoinPlaced
<1>4. p \in T /\ r \in T
  BY <1>a, SortedPage
<1>5. /\ Inside(s1, g)
      /\ InPlace(Low(g, s1), keys1[c], kids1[c], may)
      /\ InPlace(High(g, s1), keys1[n], kids1[n], may)
  <2> DEFINE ka == keys1[c]
             kb == keys1[n]
             ca == kids1[c]
             cb == kids1[n]
  <2>1. Row(w, ka, s1, kb) /\ RowBelow(cw, ka, ca, kb, cb) /\ ca \in Seq(Nat) /\ cb \in Seq(Nat)
    BY <1>1
  <2>2. Inside(s1, g) /\ InPlace(Low(g, s1), ka, ca, may) /\ InPlace(High(g, s1), kb, cb, may)
    <3> HIDE DEF ka, kb, ca, cb
    <3>1. QED
      BY <2>1, <1>a, <1>3, RowInPlace
  <2>3. QED
    BY <2>2
<1>6. /\ \A j \in DOMAIN kids1[c] : may1[kids1[c][j]] = may[kids1[c][j]]
      /\ \A j \in DOMAIN kids1[n] : may1[kids1[n][j]] = may[kids1[n][j]]
  <2> DEFINE ka == keys1[c]
             kb == keys1[n]
             ca == kids1[c]
             cb == kids1[n]
  <2>1. Row(w, ka, s1, kb) /\ RowBelow(cw, ka, ca, kb, cb) /\ ca \in Seq(Nat) /\ cb \in Seq(Nat)
    BY <1>1
  <2>2. (\A j \in DOMAIN ca : \E e \in DOMAIN cw : ca[j] = cw[e])
        /\ \A j \in DOMAIN cb : \E e \in DOMAIN cw : cb[j] = cw[e]
    <3> HIDE DEF ka, kb, ca, cb
    <3>1. QED
      BY <2>1, <1>a, RowBelowIn
  <2>3. QED
    BY <2>2, <1>2
<1>7. InPlace(may1[c], keys1[c], kids1[c], may1) /\ InPlace(may1[n], keys1[n], kids1[n], may1)
  <2>1. InPlace(Low(g, s1), keys1[c], kids1[c], may1)
    BY <1>5, <1>6, InPlaceKept
  <2>2. InPlace(High(g, s1), keys1[n], kids1[n], may1)
    BY <1>5, <1>6, InPlaceKept
  <2>3. QED
    BY <2>1, <2>2
<1>8. InPlace(may1[p], keys1[p], kids1[p], may1)
  <2> DEFINE mayJ == [q \in T |-> IF q = c THEN g ELSE may[q]]
  <2>1. OthersKeep(c0, i, may, mayJ) /\ mayJ[c] = g
    BY <1>2 DEF OthersKeep
  <2>2. InPlace(may[p], k0, c0, mayJ)
    BY <2>1, <1>3
  <2>3. OthersKeep(c0, i, mayJ, may1)
    BY <1>2 DEF OthersKeep
  <2>4. may1[c0[i]] = Low(g, s1) /\ may1[n] = High(g, s1)
    BY <1>a
  <2>5. InPlace(may[p], keys1[p], kids1[p], may1)
    <3> DEFINE k1 == keys1[p]
               c1 == kids1[p]
               m == may[p]
    <3>1. Grows(k0, c0, i, s1, n, k1, c1) /\ InPlace(m, k0, c0, mayJ) /\ g = Gap(m, k0, i)
      BY <1>1, <2>2
    <3>2. InPlace(m, k1, c1, may1)
      <4> HIDE DEF k1, c1, m, mayJ
      <4>1. QED
        BY <3>1, <2>3, <2>4, <1>5, GapParts
    <3>3. QED
      BY <3>2
  <2>6. QED
    BY <2>5, <1>2, <1>4
<1>9. ASSUME NEW q \in T \ {p, c, n} PROVE InPlace(may1[q], keys1[q], kids1[q], may1)
  <2>1. kids1[q] = kids[q] /\ keys1[q] = keys[q] /\ may1[q] = may[q]
    BY DEF Shifted
  <2>2. InPlace(may[q], keys[q], kids[q], may)
    BY DEF Sorted
  <2>3. \A j \in DOMAIN kids[q] : may1[kids[q][j]] = may[kids[q][j]]
    BY <1>2
  <2>4. InPlace(may[q], keys[q], kids[q], may1)
    BY <2>2, <2>3, InPlaceKept
  <2>5. QED
    BY <2>1, <2>4
<1>10. Placed(T, r, kids1, keys1, may1)
  <2>1. may1[r] = Int
    BY <1>2, <1>4 DEF Sorted
  <2>2. QED
    BY <2>1, <1>7, <1>8, <1>9 DEF Placed
<1>11. Held(T, keys1) = Held(T, keys)
  <2>1. Row(w, keys[c], s, keys[n]) /\ Adds(k0, i, s, keys[p])
        /\ Row(w, keys1[c], s1, keys1[n]) /\ Adds(k0, i, s1, keys1[p])
    BY <1>1 DEF Adjoin, Grows
  <2>2. ToSet(w) = ToSet(keys[c]) \cup {s} \cup ToSet(keys[n])
    BY <2>1, RowKeys
  <2>3. ToSet(keys[p]) = ToSet(k0) \cup {s}
    BY <2>1, AddKeys
  <2>a. ToSet(w) = ToSet(keys1[c]) \cup {s1} \cup ToSet(keys1[n])
    BY <2>1, RowKeys
  <2>b. ToSet(keys1[p]) = ToSet(k0) \cup {s1}
    BY <2>1, AddKeys
  <2>4. \A q \in T \ {p, c, n} : ToSet(keys1[q]) = ToSet(keys[q])
    BY DEF Shifted
  <2>5. \A x : x \in Held(T, keys) <=> \E q \in T : x \in ToSet(keys[q])
    BY DEF Held
  <2>6. \A x : x \in Held(T, keys1) <=> \E q \in T : x \in ToSet(keys1[q])
    BY DEF Held
  <2>7. \A x : (\E q \in T : x \in ToSet(keys[q])) => \E q \in T : x \in ToSet(keys1[q])
    BY <2>2, <2>3, <2>4, <2>a, <2>b, <1>2, <1>4
  <2>8. \A x : (\E q \in T : x \in ToSet(keys1[q])) => \E q \in T : x \in ToSet(keys[q])
    BY <2>2, <2>3, <2>4, <2>a, <2>b, <1>2, <1>4
  <2>9. QED
    BY <2>5, <2>6, <2>7, <2>8
<1>12. QED
  BY <1>3, <1>5, <1>10, <1>11

\* A leaf p gets the key k, or loses it.
LEMMA LeafGains ==
  ASSUME NEW D, NEW T, NEW r, NEW kids, NEW keys, NEW by, NEW at, NEW level, NEW may,
         Sorted(D, T, r, kids, keys, by, at, level, may),
         NEW p \in T, level[p] = 0, NEW i, NEW k, NEW keys1,
         Adds(keys[p], i, k, keys1[p]), Belongs(keys[p], i, k), Inside(k, may[p]),
         \A q \in T \ {p} : keys1[q] = keys[q]
  PROVE  Placed(T, r, kids, keys1, may) /\ Held(T, keys1) = Held(T, keys) \cup {k}
<1>1. kids[p] = <<>> /\ InPlace(may[p], keys[p], kids[p], may) /\ may[r] = Int
  BY DEF Sorted
<1>2. InPlace(may[p], keys1[p], kids[p], may)
  <2>1. Ascends(keys1[p])
    <3>1. Ascends(keys[p])
      BY <1>1 DEF InPlace
    <3>2. QED
      BY <3>1, AddAscends
  <2>2. ASSUME NEW j \in DOMAIN keys1[p] PROVE Inside(keys1[p][j], may[p])
    <3> DEFINE k0 == keys[p]
               k1 == keys1[p]
    <3>1. Adds(k0, i, k, k1) /\ (\A z \in DOMAIN k0 : Inside(k0[z], may[p])) /\ j \in DOMAIN k1
      BY <1>1 DEF InPlace
    <3>2. ToSet(k1) = ToSet(k0) \cup {k}
      <4> HIDE DEF k0, k1
      <4>1. QED
        BY <3>1, AddKeys
    <3>3. k1[j] \in ToSet(k1)
      BY <3>1 DEF ToSet
    <3>4. Inside(k1[j], may[p])
      <4> HIDE DEF k1
      <4>1. CASE k1[j] = k
        BY <4>1
      <4>2. CASE k1[j] \in ToSet(k0)
        BY <4>2, <3>1 DEF ToSet
      <4>3. QED
        BY <4>1, <4>2, <3>2, <3>3
    <3>5. QED
      BY <3>4
  <2>3. Convex(may[p]) /\ Allots(may[p], keys1[p], kids[p], may)
    BY <1>1 DEF InPlace, Allots
  <2>4. QED
    BY <2>1, <2>2, <2>3 DEF InPlace
<1>3. \A q \in T \ {p} : InPlace(may[q], keys1[q], kids[q], may)
  BY DEF Sorted
<1>4. Placed(T, r, kids, keys1, may)
  BY <1>1, <1>2, <1>3 DEF Placed
<1>5. Held(T, keys1) = Held(T, keys) \cup {k}
  <2>1. ToSet(keys1[p]) = ToSet(keys[p]) \cup {k}
    BY AddKeys
  <2>2. \A q \in T \ {p} : ToSet(keys1[q]) = ToSet(keys[q])
    OBVIOUS
  <2>3. QED
    BY <2>1, <2>2 DEF Held
<1>6. QED
  BY <1>4, <1>5

LEMMA LeafLoses ==
  ASSUME NEW D, NEW T, NEW r, NEW kids, NEW keys, NEW by, NEW at, NEW level, NEW may,
         Sorted(D, T, r, kids, keys, by, at, level, may),
         NEW p \in T, level[p] = 0, NEW i, NEW k, NEW keys1,
         Adds(keys1[p], i, k, keys[p]),
         \A q \in T \ {p} : keys1[q] = keys[q]
  PROVE  Placed(T, r, kids, keys1, may) /\ Held(T, keys1) = Held(T, keys) \ {k}
<1>1. kids[p] = <<>> /\ InPlace(may[p], keys[p], kids[p], may) /\ may[r] = Int
  BY DEF Sorted
<1>a. Ascends(keys1[p]) /\ Belongs(keys1[p], i, k)
  <2>1. Ascends(keys[p])
    BY <1>1 DEF InPlace
  <2>2. QED
    BY <2>1, AddAscends
<1>b. ToSet(keys[p]) = ToSet(keys1[p]) \cup {k}
  BY AddKeys
<1>c. k \notin ToSet(keys1[p])
  <2>1. ASSUME NEW j \in DOMAIN keys1[p] PROVE keys1[p][j] # k
    <3>1. IF j < i THEN keys1[p][j] < k ELSE k < keys1[p][j]
      BY <1>a DEF Belongs
    <3>2. keys1[p][j] \in Int /\ k \in Int
      BY DEF Adds
    <3>3. QED
      BY <3>1, <3>2
  <2>2. QED
    BY <2>1 DEF ToSet
<1>2. InPlace(may[p], keys1[p], kids[p], may)
  <2>2. ASSUME NEW j \in DOMAIN keys1[p] PROVE Inside(keys1[p][j], may[p])
    <3>1. keys1[p][j] \in ToSet(keys[p])
      BY <1>b DEF ToSet
    <3>2. QED
      BY <3>1, <1>1 DEF InPlace, ToSet
  <2>3. Convex(may[p]) /\ Allots(may[p], keys1[p], kids[p], may)
    BY <1>1 DEF InPlace, Allots
  <2>4. QED
    BY <1>a, <2>2, <2>3 DEF InPlace
<1>3. \A q \in T \ {p} : InPlace(may[q], keys1[q], kids[q], may)
  BY DEF Sorted
<1>4. Placed(T, r, kids, keys1, may)
  BY <1>1, <1>2, <1>3 DEF Placed
<1>5. Held(T, keys1) = Held(T, keys) \ {k}
  <2>1. ASSUME NEW q \in T \ {p} PROVE k \notin ToSet(keys[q])
    <3>1. PICK z \in DOMAIN keys[p] : keys[p][z] = k
      BY <1>b DEF ToSet
    <3>2. ASSUME NEW j \in DOMAIN keys[q], keys[q][j] = k PROVE FALSE
      <4>1. keys[q][j] = keys[p][z] /\ q \in T /\ q # p
        BY <3>1, <3>2
      <4>2. q = p
        BY <4>1, KeyOnce
      <4>3. QED
        BY <4>1, <4>2
    <3>3. QED
      BY <3>2 DEF ToSet
  <2>2. \A q \in T \ {p} : ToSet(keys1[q]) = ToSet(keys[q])
    OBVIOUS
  <2>3. QED
    BY <2>1, <2>2, <1>b, <1>c DEF Held
<1>6. QED
  BY <1>4, <1>5

\* A root above the root.
LEMMA RaisedPlaced ==
  ASSUME NEW T, NEW r, NEW kids, NEW keys, NEW may, Placed(T, r, kids, keys, may),
         NEW n, n \notin T, r \in T, \A q \in T : \A j \in DOMAIN kids[q] : kids[q][j] \in T,
         NEW kids1, NEW keys1, \A q \in T : kids1[q] = kids[q] /\ keys1[q] = keys[q],
         keys1[n] = <<>>, HasSole(kids1, n, r),
         NEW may1, \A q \in T : may1[q] = may[q], may1[n] = Int
  PROVE  Placed(T \cup {n}, n, kids1, keys1, may1) /\ Held(T \cup {n}, keys1) = Held(T, keys)
<1>1. Convex(Int)
  BY DEF Convex
<1>2. Gap(Int, <<>>, 1) = Int
  BY DEF Gap
<1>3. InPlace(Int, <<>>, kids1[n], may1)
  <2>1. DOMAIN kids1[n] = {1} /\ kids1[n][1] = r
    BY DEF HasSole
  <2>2. may1[r] = Int
    BY DEF Placed
  <2>3. Allots(Int, <<>>, kids1[n], may1)
    BY <2>1, <2>2, <1>2 DEF Allots
  <2>4. Ascends(<<>>)
    BY DEF Ascends
  <2>5. QED
    BY <1>1, <2>3, <2>4 DEF InPlace
<1>4. ASSUME NEW q \in T PROVE InPlace(may1[q], keys1[q], kids1[q], may1)
  <2>1. InPlace(may[q], keys[q], kids[q], may)
    BY DEF Placed
  <2>2. \A j \in DOMAIN kids[q] : may1[kids[q][j]] = may[kids[q][j]]
    OBVIOUS
  <2>3. InPlace(may[q], keys[q], kids[q], may1)
    BY <2>1, <2>2, InPlaceKept
  <2>4. QED
    BY <2>3
<1>5. Placed(T \cup {n}, n, kids1, keys1, may1)
  BY <1>3, <1>4 DEF Placed
<1>6. Held(T \cup {n}, keys1) = Held(T, keys)
  <2>1. ToSet(keys1[n]) = {}
    BY DEF ToSet
  <2>2. QED
    BY <2>1 DEF Held
<1>7. QED
  BY <1>5, <1>6

\* The child of a root without keys.
LEMMA LoweredPlaced ==
  ASSUME NEW T, NEW r, NEW kids, NEW keys, NEW may, Placed(T, r, kids, keys, may), r \in T,
         keys[r] = <<>>, NEW c, HasSole(kids, r, c)
  PROVE  Placed(T \ {r}, c, kids, keys, may) /\ Held(T \ {r}, keys) = Held(T, keys)
<1>1. may[c] = Int
  <2>1. InPlace(Int, <<>>, kids[r], may)
    BY DEF Placed
  <2>2. 1 \in DOMAIN kids[r] /\ kids[r][1] = c
    BY DEF HasSole
  <2>3. may[c] = Gap(Int, <<>>, 1)
    BY <2>1, <2>2 DEF InPlace, Allots
  <2>4. QED
    BY <2>3 DEF Gap
<1>2. Placed(T \ {r}, c, kids, keys, may)
  BY <1>1 DEF Placed
<1>3. ToSet(keys[r]) = {}
  BY DEF ToSet
<1>4. QED
  BY <1>2, <1>3 DEF Held

=============================================================================
