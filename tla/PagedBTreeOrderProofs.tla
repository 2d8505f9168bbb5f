----------------------- MODULE PagedBTreeOrderProofs -----------------------
(***************************************************************************)
(* The B-tree in pages holds exactly the keys put into it, in order and    *)
(* all leaves on one level, for every minimum degree, every set of keys,   *)
(* every first session and any number of operations.                       *)
(*                                                                         *)
(* Each page is given the set of cuts its keys may lie between (may).  A   *)
(* cut is a place between two integers: cut c lies before c and after      *)
(* c - 1.  The root may have any, and a page leaves to each child the cuts *)
(* between two of its keys.  contains() goes down by cuts alone, so a key  *)
(* in any page is found if it lies inside the cuts of that page.           *)
(***************************************************************************)
EXTENDS PagedBTreeProofs

-----------------------------------------------------------------------------
(* Levels, from one state to the next, and the length of a way down.       *)

\* Induction over a set of numbers.
LEMMA AllNaturals ==
  ASSUME NEW S, 0 \in S, \A n \in Nat : n \in S => n + 1 \in S
  PROVE  \A n \in Nat : n \in S
<1> DEFINE Bad == Nat \ S
<1> SUFFICES ASSUME Bad # {} PROVE FALSE
  OBVIOUS
<1>1. PICK n \in Bad : \A m \in Bad : n <= m
  <2>1. Bad \subseteq Nat
    OBVIOUS
  <2> HIDE DEF Bad
  <2>2. QED
    BY <2>1, LeastNatural
<1>2. n - 1 \in Nat /\ (n - 1) + 1 = n
  BY <1>1
<1>3. n - 1 \in Bad
  BY <1>1, <1>2
<1>4. QED
  BY <1>1, <1>2, <1>3

Leveled(T, kids, level) ==
    \A q \in T :
        /\ level[q] \in Nat /\ kids[q] \in Seq(Nat)
        /\ level[q] = 0 <=> kids[q] = <<>>
        /\ \A j \in DOMAIN kids[q] : kids[q][j] \in T /\ level[kids[q][j]] + 1 = level[q]

LEMMA SortedLeveled ==
  ASSUME NEW D, NEW T, NEW r, NEW kids, NEW keys, NEW by, NEW at, NEW level, NEW may,
         Sorted(D, T, r, kids, keys, by, at, level, may)
  PROVE  Leveled(T, kids, level)
<1>1. ASSUME NEW q \in T
      PROVE  /\ level[q] \in Nat /\ kids[q] \in Seq(Nat)
             /\ level[q] = 0 <=> kids[q] = <<>>
             /\ \A j \in DOMAIN kids[q] : kids[q][j] \in T /\ level[kids[q][j]] + 1 = level[q]
  <2>1. /\ level[q] \in Nat /\ kids[q] \in Seq(Nat) /\ keys[q] \in Seq(Int)
        /\ level[q] = 0 => kids[q] = <<>>
        /\ level[q] # 0 => Len(kids[q]) = Len(keys[q]) + 1
    BY SortedPage
  <2>2. \A j \in DOMAIN kids[q] : kids[q][j] \in T /\ level[kids[q][j]] + 1 = level[q]
    BY SortedPage
  <2>3. level[q] # 0 => kids[q] # <<>>
    <3>1. Len(keys[q]) \in Nat /\ Len(<<>>) = 0
      BY <2>1
    <3>2. QED
      BY <2>1, <3>1
  <2>4. QED
    BY <2>1, <2>2, <2>3
<1>2. QED
  BY <1>1 DEF Leveled

\* A page that is not a leaf has a first child.
LEMMA FirstChild ==
  ASSUME NEW T, NEW kids, NEW level, Leveled(T, kids, level), NEW q \in T, level[q] # 0
  PROVE  1 \in DOMAIN kids[q] /\ kids[q][1] \in T /\ level[kids[q][1]] + 1 = level[q]
<1>1. kids[q] \in Seq(Nat) /\ kids[q] # <<>>
  BY DEF Leveled
<1>2. 1 \in DOMAIN kids[q]
  BY <1>1
<1>3. QED
  BY <1>2 DEF Leveled

\* Pages whose lower pages are as they were are on the level they were on.
LEMMA LevelsStay ==
  ASSUME NEW T, NEW kids, NEW level, Leveled(T, kids, level),
         NEW T1, NEW kids1, NEW level1, Leveled(T1, kids1, level1), NEW h \in Int,
         \A q \in T : level[q] < h => q \in T1 /\ kids1[q] = kids[q]
  PROVE  \A q \in T : level[q] < h => level1[q] = level[q]
<1> DEFINE Same(n) == \A q \in T : level[q] < h /\ level[q] < n => level1[q] = level[q]
<1>1. \A q \in T : level[q] \in Nat
  BY DEF Leveled
<1>2. Same(0)
  BY <1>1
<1>3. ASSUME NEW n \in Nat, Same(n) PROVE Same(n + 1)
  <2> SUFFICES ASSUME NEW q \in T, level[q] < h, level[q] < n + 1
               PROVE  level1[q] = level[q]
    OBVIOUS
  <2>1. level[q] \in Nat /\ q \in T1 /\ kids1[q] = kids[q]
    BY <1>1
  <2>2. CASE level[q] = 0
    <3>1. kids[q] = <<>>
      BY <2>2 DEF Leveled
    <3>2. QED
      BY <3>1, <2>1, <2>2 DEF Leveled
  <2>3. CASE level[q] # 0
    <3> DEFINE c == kids[q][1]
    <3>1. 1 \in DOMAIN kids[q] /\ c \in T /\ level[c] + 1 = level[q]
      BY <2>3, FirstChild
    <3>2. level[c] \in Nat /\ level[c] < h /\ level[c] < n
      BY <3>1, <1>1, <2>1
    <3>3. level1[c] = level[c]
      BY <3>1, <3>2, <1>3
    <3>4. level1[c] + 1 = level1[q]
      BY <3>1, <2>1 DEF Leveled
    <3>5. QED
      BY <3>1, <3>3, <3>4
  <2>4. QED
    BY <2>2, <2>3
<1>4. \A n \in Nat : Same(n)
  <2> DEFINE S == {n \in Nat : Same(n)}
  <2> HIDE DEF Same
  <2>1. 0 \in S /\ \A n \in Nat : n \in S => n + 1 \in S
    BY <1>2, <1>3
  <2> HIDE DEF S
  <2>2. \A n \in Nat : n \in S
    BY <2>1, AllNaturals
  <2>3. QED
    BY <2>2 DEF S
<1>5. ASSUME NEW q \in T, level[q] < h PROVE level1[q] = level[q]
  <2>1. level[q] + 1 \in Nat /\ level[q] < level[q] + 1
    BY <1>1
  <2>2. Same(level[q] + 1)
    BY <2>1, <1>4
  <2>3. QED
    BY <2>1, <2>2, <1>5
<1>6. QED
  BY <1>5

\* So is a page p whose child c was given other children of their level.
LEMMA LevelAbove ==
  ASSUME NEW T, NEW kids, NEW level, Leveled(T, kids, level),
         NEW T1, NEW kids1, NEW level1, Leveled(T1, kids1, level1),
         NEW p \in T1, NEW j \in DOMAIN kids1[p],
         NEW c \in T, c = kids1[p][j],
         \A q \in T : level[q] < level[c] => q \in T1 /\ kids1[q] = kids[q],
         level[c] = 0 <=> kids1[c] = <<>>,
         \A e \in DOMAIN kids1[c] : kids1[c][e] \in T /\ level[kids1[c][e]] + 1 = level[c]
  PROVE  level1[c] = level[c] /\ level1[p] = level[c] + 1
<1>1. level[c] \in Nat /\ level[c] \in Int /\ c \in T1 /\ level1[c] + 1 = level1[p]
      /\ level1[c] \in Nat
  BY DEF Leveled
<1>2. level1[c] = level[c]
  <2>1. CASE level[c] = 0
    BY <2>1, <1>1 DEF Leveled
  <2>2. CASE level[c] # 0
    <3> DEFINE e == kids1[c][1]
    <3>1. level1[c] # 0
      BY <2>2, <1>1 DEF Leveled
    <3>2. 1 \in DOMAIN kids1[c] /\ level1[e] + 1 = level1[c]
      BY <3>1, <1>1, FirstChild
    <3>3. e \in T /\ level[e] + 1 = level[c]
      BY <3>2
    <3>4. level[e] \in Nat /\ level[e] < level[c]
      BY <3>3, <1>1 DEF Leveled
    <3>5. level1[e] = level[e]
      BY <3>3, <3>4, <1>1, LevelsStay
    <3>6. QED
      BY <3>2, <3>3, <3>5
  <2>3. QED
    BY <2>1, <2>2
<1>3. QED
  BY <1>1, <1>2

\* There are no more levels than pages.
LEMMA HeightBound ==
  ASSUME NEW T, NEW kids, NEW level, Leveled(T, kids, level), NEW N \in Nat, T \subseteq 1..N,
         NEW r \in T
  PROVE  level[r] < N
<1> DEFINE Has(n) == n <= level[r] => \E q \in T : level[q] + n = level[r]
<1>1. level[r] \in Nat /\ \A q \in T : level[q] \in Nat
  BY DEF Leveled
<1>2. Has(0)
  BY <1>1
<1>3. ASSUME NEW n \in Nat, Has(n) PROVE Has(n + 1)
  <2> SUFFICES ASSUME n + 1 <= level[r] PROVE \E q \in T : level[q] + (n + 1) = level[r]
    OBVIOUS
  <2>1. PICK q \in T : level[q] + n = level[r]
    BY <1>1, <1>3
  <2>2. level[q] # 0 /\ level[q] \in Nat
    BY <1>1, <2>1
  <2>3. kids[q][1] \in T /\ level[kids[q][1]] + 1 = level[q]
    BY <2>2, FirstChild
  <2>4. level[kids[q][1]] + (n + 1) = level[r]
    <3>1. level[kids[q][1]] \in Nat
      BY <2>3, <1>1
    <3>2. QED
      BY <2>1, <2>2, <2>3, <1>1, <3>1
  <2>5. QED
    BY <2>3, <2>4
<1>4. \A n \in Nat : Has(n)
  <2> DEFINE S == {n \in Nat : Has(n)}
  <2> HIDE DEF Has
  <2>1. 0 \in S /\ \A n \in Nat : n \in S => n + 1 \in S
    BY <1>2, <1>3
  <2> HIDE DEF S
  <2>2. \A n \in Nat : n \in S
    BY <2>1, AllNaturals
  <2>3. QED
    BY <2>2 DEF S
<1>5. \A l \in 0..level[r] : \E q \in T : level[q] = l
  <2> SUFFICES ASSUME NEW l \in 0..level[r] PROVE \E q \in T : level[q] = l
    OBVIOUS
  <2>1. level[r] - l \in Nat /\ level[r] - l <= level[r]
    BY <1>1
  <2>2. Has(level[r] - l)
    BY <2>1, <1>4
  <2>3. PICK q \in T : level[q] + (level[r] - l) = level[r]
    BY <2>1, <2>2
  <2>4. level[q] = l
    BY <2>3, <1>1
  <2>5. QED
    BY <2>4
<1> DEFINE f == [l \in 0..level[r] |-> CHOOSE q \in T : level[q] = l]
<1>6. \A l \in 0..level[r] : f[l] \in T /\ level[f[l]] = l
  BY <1>5
<1>7. f \in Injection(0..level[r], 1..N)
  <2>1. f \in [0..level[r] -> 1..N]
    BY <1>6
  <2>2. \A a, b \in 0..level[r] : f[a] = f[b] => a = b
    BY <1>6
  <2> HIDE DEF f
  <2>3. QED
    BY <2>1, <2>2 DEF Injection, IsInjective
<1>8. IsFiniteSet(1..N) /\ Cardinality(1..N) = N /\ Cardinality(0..level[r]) = level[r] + 1
  <2>1. IsFiniteSet(1..N) /\ Cardinality(1..N) = IF 1 > N THEN 0 ELSE N - 1 + 1
    BY FS_Interval
  <2>2. Cardinality(0..level[r]) = IF 0 > level[r] THEN 0 ELSE level[r] - 0 + 1
    BY <1>1, FS_Interval
  <2>3. QED
    BY <2>1, <2>2, <1>1
<1>9. Cardinality(0..level[r]) <= Cardinality(1..N)
  BY <1>7, <1>8, FS_Injection
<1>10. QED
  BY <1>1, <1>8, <1>9

\* A walk that goes down a level with each step, or stays, has come to its end
\* after as many steps as there are levels below.
StepsDown(T, kids, next) ==
    \A q \in T : next[q] = q \/ \E j \in DOMAIN kids[q] : next[q] = kids[q][j]

LEMMA WalkEnds ==
  ASSUME NEW T, NEW kids, NEW level, Leveled(T, kids, level), NEW next, NEW p \in T,
         StepsDown(T, kids, next), NEW n \in Nat, level[p] < n
  PROVE  Follow(next, p, n) \in T /\ next[Follow(next, p, n)] = Follow(next, p, n)
<1> DEFINE x(m) == Follow(next, p, m)
           Down(m) == x(m) \in T /\ (next[x(m)] = x(m) \/ level[x(m)] + m = level[p])
<1>1. Down(0)
  <2>1. x(0) = p
    BY FollowIs
  <2>2. level[p] \in Nat
    BY DEF Leveled
  <2> HIDE DEF x
  <2>3. QED
    BY <2>1, <2>2
<1>2. ASSUME NEW m \in Nat, Down(m) PROVE Down(m + 1)
  <2>1. x(m + 1) = next[x(m)]
    <3>1. \A k \in Nat : Follow(next, p, k + 1) = next[Follow(next, p, k)]
      BY FollowIs
    <3>2. QED
      BY <3>1
  <2> HIDE DEF x
  <2>2. CASE next[x(m)] = x(m)
    BY <2>1, <2>2, <1>2
  <2>3. CASE next[x(m)] # x(m)
    <3>1. PICK j \in DOMAIN kids[x(m)] : next[x(m)] = kids[x(m)][j]
      BY <2>3, <1>2 DEF StepsDown
    <3>2. x(m + 1) \in T /\ level[x(m + 1)] + 1 = level[x(m)] /\ level[x(m + 1)] \in Nat
      BY <3>1, <2>1, <1>2 DEF Leveled
    <3>3. level[x(m)] + m = level[p]
      BY <2>3, <1>2
    <3>4. level[x(m)] \in Nat /\ level[p] \in Nat
      BY <1>2 DEF Leveled
    <3>5. level[x(m + 1)] + (m + 1) = level[p]
      BY <3>2, <3>3, <3>4
    <3>6. QED
      BY <3>2, <3>5
  <2>4. QED
    BY <2>2, <2>3
<1>3. \A m \in Nat : Down(m)
  <2> DEFINE S == {m \in Nat : Down(m)}
  <2> HIDE DEF Down
  <2>1. 0 \in S /\ \A m \in Nat : m \in S => m + 1 \in S
    BY <1>1, <1>2
  <2> HIDE DEF S
  <2>2. \A m \in Nat : m \in S
    BY <2>1, AllNaturals
  <2>3. QED
    BY <2>2 DEF S
<1>4. Down(n)
  BY <1>3
<1> HIDE DEF x
<1>5. x(n) \in T /\ (next[x(n)] = x(n) \/ level[x(n)] + n = level[p])
  BY <1>4
<1>6. level[x(n)] \in Nat /\ level[p] \in Nat
  BY <1>5 DEF Leveled
<1>7. x(n) \in T /\ next[x(n)] = x(n)
  BY <1>5, <1>6
<1>8. QED
  BY <1>7 DEF x

-----------------------------------------------------------------------------
(* The sequences the code makes are such rows.                             *)

\* The page above a child that is merged or that borrows.
LEMMA GrowsBack ==
  ASSUME NEW k \in Seq(Int), NEW cs \in Seq(Nat), Len(cs) = Len(k) + 1,
         NEW j \in DOMAIN k, NEW x \in Int
  PROVE  /\ j \in DOMAIN RemoveAt(cs, j + 1) /\ RemoveAt(cs, j + 1)[j] = cs[j]
         /\ Grows(RemoveAt(k, j), RemoveAt(cs, j + 1), j, k[j], cs[j + 1], k, cs)
         /\ Grows(RemoveAt(k, j), RemoveAt(cs, j + 1), j, x, cs[j + 1], [k EXCEPT ![j] = x], cs)
<1> DEFINE k0 == RemoveAt(k, j)
           c0 == RemoveAt(cs, j + 1)
           k1 == [k EXCEPT ![j] = x]
<1>1. HasRemoved(Int, k, j, k0)
  <2>1. j \in 1..Len(k)
    OBVIOUS
  <2>2. QED
    BY <2>1, Removing
<1>2. HasRemoved(Nat, cs, j + 1, c0)
  <2>1. j + 1 \in 1..Len(cs)
    OBVIOUS
  <2>2. QED
    BY <2>1, Removing
<1>3. k1 \in Seq(Int) /\ Len(k1) = Len(k) /\ k1[j] = x /\ \A e \in DOMAIN k : e # j => k1[e] = k[e]
  OBVIOUS
<1> HIDE DEF k0, c0, k1
<1>4. k0 \in Seq(Int) /\ Len(k0) = Len(k) - 1 /\ Len(k) \in Nat /\ Len(k) >= 1
      /\ (\A e \in 1..j - 1 : k0[e] = k[e]) /\ (\A e \in j..Len(k) - 1 : k0[e] = k[e + 1])
  BY <1>1 DEF HasRemoved
<1>5. c0 \in Seq(Nat) /\ Len(c0) = Len(cs) - 1
      /\ (\A e \in 1..(j + 1) - 1 : c0[e] = cs[e]) /\ (\A e \in j + 1..Len(cs) - 1 : c0[e] = cs[e + 1])
  BY <1>2, Zenon DEF HasRemoved
<1>a. /\ j \in Nat /\ j >= 1 /\ j <= Len(k) /\ Len(cs) = Len(k) + 1 /\ Len(k) \in Nat
      /\ Len(c0) = Len(k) /\ DOMAIN c0 = 1..Len(k)
      /\ \A e \in 1..j : c0[e] = cs[e]
      /\ \A e \in j + 1..Len(k) : c0[e] = cs[e + 1]
  <2>1. j \in Nat /\ j >= 1 /\ j <= Len(k) /\ Len(k) \in Nat
    OBVIOUS
  <2>2. (j + 1) - 1 = j /\ Len(cs) - 1 = Len(k)
    BY <2>1
  <2>3. QED
    BY <2>1, <2>2, <1>5
<1>6. j \in DOMAIN c0 /\ c0[j] = cs[j]
  <2>1. j \in 1..j /\ j \in 1..Len(k)
    BY <1>a
  <2>2. DOMAIN c0 = 1..Len(k) /\ \A e \in 1..j : c0[e] = cs[e]
    BY <1>a
  <2>3. QED
    BY <2>1, <2>2
<1>7. HasInserted(Nat, c0, j + 1, cs[j + 1], cs)
  <2>1. Len(cs) = Len(c0) + 1 /\ cs \in Seq(Nat) /\ (j + 1) - 1 = j
    BY <1>a
  <2>2. \A e \in 1..(j + 1) - 1 : cs[e] = c0[e]
    BY <1>a, <2>1
  <2>3. \A e \in j + 1..Len(c0) : cs[e + 1] = c0[e]
    BY <1>a
  <2>4. QED
    BY <2>1, <2>2, <2>3, Zenon DEF HasInserted
<1>8. Adds(k0, j, k[j], k)
  <2>1. HasInserted(Int, k0, j, k[j], k)
    <3>1. /\ k \in Seq(Int) /\ Len(k) = Len(k0) + 1
          /\ \A e \in 1..j - 1 : k[e] = k0[e]
      BY <1>4
    <3>2. \A e \in j..Len(k0) : k[e + 1] = k0[e]
      BY <1>4
    <3>3. QED
      BY ONLY <3>1, <3>2, Zenon DEF HasInserted
  <2>2. j \in 1..Len(k0) + 1 /\ k[j] \in Int
    BY <1>4
  <2>3. QED
    BY <2>1, <2>2, <1>4 DEF Adds
<1>9. Adds(k0, j, x, k1)
  <2>1. HasInserted(Int, k0, j, x, k1)
    <3>1. Len(k1) = Len(k0) + 1 /\ k1 \in Seq(Int) /\ k1[j] = x
      BY <1>3, <1>4
    <3>2. ASSUME NEW e \in 1..j - 1 PROVE k1[e] = k0[e]
      <4>1. e \in DOMAIN k /\ e # j
        OBVIOUS
      <4>2. QED
        BY <4>1, <1>3, <1>4
    <3>3. ASSUME NEW e \in j..Len(k0) PROVE k1[e + 1] = k0[e]
      <4>0. e \in Nat /\ j <= e /\ e <= Len(k) - 1 /\ j \in Nat /\ Len(k) \in Nat /\ 1 <= j
        BY <1>4
      <4>1. e + 1 \in 1..Len(k) /\ e + 1 # j /\ e \in j..Len(k) - 1
        BY <4>0
      <4>2. k1[e + 1] = k[e + 1]
        <5>1. \A z \in DOMAIN k : z # j => k1[z] = k[z]
          BY <1>3
        <5>2. DOMAIN k = 1..Len(k)
          OBVIOUS
        <5>3. QED
          BY <4>1, <5>1, <5>2
      <4>3. QED
        BY <4>1, <4>2, <1>4
    <3>4. QED
      BY <3>1, <3>2, <3>3, Zenon DEF HasInserted
  <2>2. j \in 1..Len(k0) + 1
    BY <1>4
  <2>3. QED
    BY <2>1, <2>2, <1>3, <1>4 DEF Adds
<1>10. Len(c0) = Len(k0) + 1
  BY <1>4, <1>5
<1>11. Grows(k0, c0, j, k[j], cs[j + 1], k, cs) /\ Grows(k0, c0, j, x, cs[j + 1], k1, cs)
  BY <1>5, <1>7, <1>8, <1>9, <1>10 DEF Grows
<1>12. QED
  BY <1>6, <1>11 DEF k0, c0, k1

LEMMA FrontPlaces ==
  ASSUME NEW S, NEW s \in Seq(S), s # <<>>
  PROVE  LET a == SubSeq(s, 1, Len(s) - 1)
         IN  /\ a \in Seq(S) /\ Len(a) = Len(s) - 1
             /\ \A j \in 1..Len(a) : a[j] = s[j]
<1> DEFINE n == Len(s) - 1
           a == SubSeq(s, 1, n)
<1>1. n \in Nat /\ n <= Len(s) /\ Len(s) \in Nat
  OBVIOUS
<1>2. IsPart(S, s, 1, n, a)
  <2> HIDE DEF n
  <2>1. QED
    BY <1>1, PartOf
<1> HIDE DEF a
<1>3. a \in Seq(S) /\ Len(a) = (IF 1 <= n THEN n - 1 + 1 ELSE 0)
      /\ \A j \in 1..Len(a) : a[j] = s[1 + j - 1]
  BY <1>2, Zenon DEF IsPart
<1>4. Len(a) = n
  BY <1>1, <1>3
<1>5. ASSUME NEW j \in 1..Len(a) PROVE a[j] = s[j]
  <2>1. 1 + j - 1 = j
    BY <1>4, <1>1
  <2>2. QED
    BY <2>1, <1>3
<1>6. QED
  BY <1>3, <1>4, <1>5 DEF a

\* merge_children, and the same row parted a key further to the left or right.
LEMMA RowOfAll ==
  ASSUME NEW ka \in Seq(Int), NEW s \in Int, NEW kb \in Seq(Int)
  PROVE  Row(Append(ka, s) \o kb, ka, s, kb)
  BY DEF Row

LEMMA RowShiftedLeft ==
  ASSUME NEW ka \in Seq(Int), NEW s \in Int, NEW kb \in Seq(Int), ka # <<>>
  PROVE  Row(Append(ka, s) \o kb, Front(ka), Last(ka), <<s>> \o kb)
<1>1. Len(ka) \in Nat \ {0} /\ Front(ka) = SubSeq(ka, 1, Len(ka) - 1) /\ Last(ka) = ka[Len(ka)]
  BY DEF Front, Last
<1> DEFINE a == Front(ka)
           b == <<s>> \o kb
           w == Append(ka, s) \o kb
           l == Last(ka)
<1>2. a \in Seq(Int) /\ Len(a) = Len(ka) - 1 /\ (\A j \in 1..Len(a) : a[j] = ka[j]) /\ l \in Int
  BY <1>1, FrontPlaces
<1>3. b \in Seq(Int) /\ Len(b) = Len(kb) + 1 /\ b[1] = s /\ \A j \in 1..Len(kb) : b[j + 1] = kb[j]
  OBVIOUS
<1>4. w \in Seq(Int) /\ Len(w) = Len(ka) + 1 + Len(kb)
      /\ (\A j \in 1..Len(ka) : w[j] = ka[j]) /\ w[Len(ka) + 1] = s
      /\ \A j \in 1..Len(kb) : w[Len(ka) + 1 + j] = kb[j]
  OBVIOUS
<1>5. l = ka[Len(ka)] /\ Len(kb) \in Nat
  BY <1>1
<1> HIDE DEF a, b, w, l
<1>6. ASSUME NEW j \in 1..Len(b) PROVE w[Len(a) + 1 + j] = b[j]
  <2>1. CASE j = 1
    BY <2>1, <1>1, <1>2, <1>3, <1>4
  <2>2. CASE j # 1
    <3>1. PICK e \in 1..Len(kb) : j = e + 1
      <4>1. j - 1 \in 1..Len(kb) /\ j = (j - 1) + 1
        BY <2>2, <1>3, <1>5
      <4>2. QED
        BY <4>1
    <3>2. Len(a) + 1 + j = Len(ka) + 1 + e
      BY <3>1, <1>1, <1>2
    <3>3. QED
      BY <3>1, <3>2, <1>3, <1>4
  <2>3. QED
    BY <2>1, <2>2
<1>7. Row(w, a, l, b)
  <2>1. Len(w) = Len(a) + 1 + Len(b) /\ w[Len(a) + 1] = l
    <3>1. Len(a) + 1 = Len(ka)
      BY <1>1, <1>2
    <3>2. w[Len(a) + 1] = l
      BY <3>1, <1>1, <1>4, <1>5
    <3>3. Len(w) = Len(a) + 1 + Len(b)
      <4>1. /\ Len(w) = Len(ka) + 1 + Len(kb) /\ Len(b) = Len(kb) + 1
            /\ Len(ka) \in Nat /\ Len(kb) \in Nat /\ Len(a) = Len(ka) - 1
        BY <1>1, <1>2, <1>3, <1>4, <1>5
      <4>2. Len(ka) - 1 + 1 + (Len(kb) + 1) = Len(ka) + 1 + Len(kb)
        BY <4>1
      <4>3. QED
        BY <4>1, <4>2
    <3>4. QED
      BY <3>2, <3>3
  <2>2. \A j \in 1..Len(a) : w[j] = a[j]
    BY <1>1, <1>2, <1>4
  <2>3. QED
    BY <2>1, <2>2, <1>2, <1>3, <1>4, <1>6 DEF Row
<1>8. QED
  BY <1>7 DEF a, b, w, l

LEMMA RowShiftedRight ==
  ASSUME NEW ka \in Seq(Int), NEW s \in Int, NEW kb \in Seq(Int), kb # <<>>
  PROVE  Row(Append(ka, s) \o kb, Append(ka, s), Head(kb), Tail(kb))
<1> DEFINE a == Append(ka, s)
           h == Head(kb)
           b == Tail(kb)
           w == a \o kb
<1>1. a \in Seq(Int) /\ Len(a) \in Nat /\ Len(kb) \in Nat \ {0}
  OBVIOUS
<1>2. h = kb[1] /\ h \in Int /\ b \in Seq(Int) /\ Len(b) = Len(kb) - 1
      /\ \A j \in 1..Len(b) : b[j] = kb[j + 1]
  BY <1>1
<1> HIDE DEF a, h, b
<1>3. w \in Seq(Int) /\ Len(w) = Len(a) + Len(kb)
      /\ (\A j \in 1..Len(a) : w[j] = a[j])
      /\ \A j \in 1..Len(kb) : w[Len(a) + j] = kb[j]
  BY <1>1
<1> HIDE DEF w
<1>4. Len(w) = Len(a) + 1 + Len(b) /\ w[Len(a) + 1] = h
  BY <1>1, <1>2, <1>3
<1>5. ASSUME NEW j \in 1..Len(b) PROVE w[Len(a) + 1 + j] = b[j]
  <2>1. j + 1 \in 1..Len(kb) /\ Len(a) + 1 + j = Len(a) + (j + 1)
    BY <1>1, <1>2
  <2>2. QED
    BY <2>1, <1>2, <1>3
<1>6. Row(w, a, h, b)
  BY <1>1, <1>2, <1>3, <1>4, <1>5 DEF Row
<1>7. QED
  BY <1>6 DEF a, h, b, w

\* The children of two pages of a level: none, or one more than keys.
Paired(ka, ca, kb, cb) ==
    \/ ca = <<>> /\ cb = <<>>
    \/ Len(ca) = Len(ka) + 1 /\ Len(cb) = Len(kb) + 1

LEMMA BelowAll ==
  ASSUME NEW ka \in Seq(Int), NEW kb \in Seq(Int), NEW ca \in Seq(Nat), NEW cb \in Seq(Nat),
         Paired(ka, ca, kb, cb)
  PROVE  ca \o cb \in Seq(Nat) /\ RowBelow(ca \o cb, ka, ca, kb, cb)
<1>1. CASE ca = <<>> /\ cb = <<>>
  BY <1>1 DEF RowBelow
<1>2. CASE Len(ca) = Len(ka) + 1 /\ Len(cb) = Len(kb) + 1
  <2>1. /\ ca \o cb \in Seq(Nat) /\ Len(ca \o cb) = Len(ca) + Len(cb)
        /\ \A j \in 1..Len(ca) : (ca \o cb)[j] = ca[j]
        /\ \A j \in 1..Len(cb) : (ca \o cb)[Len(ca) + j] = cb[j]
    BY Joined
  <2>2. QED
    BY <2>1, <1>2, Zenon DEF RowBelow
<1>3. QED
  BY <1>1, <1>2 DEF Paired

\* So do two pages that part those children anew, elsewhere.
LEMMA BelowAnew ==
  ASSUME NEW ka \in Seq(Int), NEW kb \in Seq(Int), NEW ca \in Seq(Nat), NEW cb \in Seq(Nat),
         Paired(ka, ca, kb, cb), NEW cs, cs = ca \o cb
  PROVE  RowBelow(cs, ka, ca, kb, cb)
  BY BelowAll

LEMMA JoinedLeft ==
  ASSUME NEW ca \in Seq(Nat), NEW cb \in Seq(Nat), ca # <<>>
  PROVE  /\ SubSeq(ca, 1, Len(ca) - 1) \in Seq(Nat) /\ Len(SubSeq(ca, 1, Len(ca) - 1)) = Len(ca) - 1
         /\ <<Last(ca)>> \o cb \in Seq(Nat) /\ Len(<<Last(ca)>> \o cb) = Len(cb) + 1
         /\ ca \o cb = SubSeq(ca, 1, Len(ca) - 1) \o (<<Last(ca)>> \o cb)
<1>1. Len(ca) \in Nat \ {0} /\ Last(ca) = ca[Len(ca)] /\ Last(ca) \in Nat
  BY DEF Last
<1> DEFINE a == SubSeq(ca, 1, Len(ca) - 1)
           l == Last(ca)
           b == <<l>> \o cb
<1>2. a \in Seq(Nat) /\ Len(a) = Len(ca) - 1 /\ \A j \in 1..Len(a) : a[j] = ca[j]
  BY FrontPlaces
<1>3. l \in Nat /\ l = ca[Len(ca)]
  BY <1>1
<1> HIDE DEF l
<1>4. b \in Seq(Nat) /\ Len(b) = Len(cb) + 1 /\ b[1] = l /\ \A j \in 1..Len(cb) : b[j + 1] = cb[j]
  BY <1>3
<1> HIDE DEF a, b
<1> DEFINE u == ca \o cb
           v == a \o b
<1>5. u \in Seq(Nat) /\ Len(u) = Len(ca) + Len(cb)
      /\ (\A j \in 1..Len(ca) : u[j] = ca[j]) /\ \A j \in 1..Len(cb) : u[Len(ca) + j] = cb[j]
  BY Joined
<1>a. v \in Seq(Nat) /\ Len(v) = Len(a) + Len(b)
      /\ (\A j \in 1..Len(a) : v[j] = a[j]) /\ \A j \in 1..Len(b) : v[Len(a) + j] = b[j]
  <2>1. a \in Seq(Nat) /\ b \in Seq(Nat)
    BY <1>2, <1>4
  <2>2. QED
    BY <2>1, Joined
<1>b. Len(ca) \in Nat /\ Len(cb) \in Nat /\ Len(ca) >= 1 /\ Len(a) + 1 = Len(ca)
      /\ Len(b) = Len(cb) + 1
  BY <1>1, <1>2, <1>4
<1> HIDE DEF u, v
<1>6. ASSUME NEW j \in 1..Len(ca) + Len(cb) PROVE u[j] = v[j]
  <2>1. CASE j < Len(ca)
    <3>1. j \in 1..Len(a) /\ j \in 1..Len(ca)
      BY <2>1, <1>b
    <3>2. QED
      BY <3>1, <1>2, <1>5, <1>a
  <2>2. CASE j = Len(ca)
    <3>1. j = Len(a) + 1 /\ 1 \in 1..Len(b) /\ j \in 1..Len(ca)
      BY <2>2, <1>b
    <3>2. v[j] = b[1] /\ u[j] = ca[j]
      BY <3>1, <1>5, <1>a
    <3>3. QED
      BY <3>2, <2>2, <1>3, <1>4
  <2>3. CASE j > Len(ca)
    <3>1. PICK e \in 1..Len(cb) : j = Len(ca) + e
      <4>1. j - Len(ca) \in 1..Len(cb) /\ j = Len(ca) + (j - Len(ca))
        BY <2>3, <1>b
      <4>2. QED
        BY <4>1
    <3>2. u[j] = cb[e]
      BY <3>1, <1>5
    <3>3. j = Len(a) + (e + 1) /\ e + 1 \in 1..Len(b)
      BY <3>1, <1>b
    <3>4. v[j] = b[e + 1]
      BY <3>3, <1>a
    <3>5. QED
      BY <3>1, <3>2, <3>4, <1>4
  <2>4. QED
    BY <2>1, <2>2, <2>3, <1>b
<1>7. u = v
  <2>0. Len(u) = Len(ca) + Len(cb) /\ Len(v) = Len(a) + Len(b)
    BY <1>5, <1>a
  <2>b. Len(a) \in Nat /\ Len(b) \in Nat
    BY <1>2, <1>4
  <2>a. Len(v) = Len(ca) + Len(cb)
    BY <2>0, <1>b, <2>b
  <2>1. Len(u) = Len(v) /\ \A j \in 1..Len(u) : u[j] = v[j]
    BY <2>0, <2>a, <1>6
  <2>2. QED
    BY <2>1, <1>5, <1>a, SeqEqual
<1>8. QED
  BY <1>2, <1>4, <1>7 DEF a, b, l, u, v

LEMMA JoinedRight ==
  ASSUME NEW ca \in Seq(Nat), NEW cb \in Seq(Nat), cb # <<>>
  PROVE  /\ ca \o <<Head(cb)>> \in Seq(Nat) /\ Len(ca \o <<Head(cb)>>) = Len(ca) + 1
         /\ SubSeq(cb, 2, Len(cb)) \in Seq(Nat) /\ Len(SubSeq(cb, 2, Len(cb))) = Len(cb) - 1
         /\ ca \o cb = (ca \o <<Head(cb)>>) \o SubSeq(cb, 2, Len(cb))
<1>1. Len(cb) \in Nat \ {0} /\ Head(cb) = cb[1] /\ Head(cb) \in Nat
  OBVIOUS
<1> DEFINE h == Head(cb)
           a == ca \o <<h>>
           b == SubSeq(cb, 2, Len(cb))
<1>2. h \in Nat /\ h = cb[1]
  BY <1>1
<1> HIDE DEF h
<1>3. a \in Seq(Nat) /\ Len(a) = Len(ca) + 1 /\ a[Len(ca) + 1] = h /\ \A j \in 1..Len(ca) : a[j] = ca[j]
  BY <1>2
<1>4. b \in Seq(Nat) /\ Len(b) = Len(cb) - 1 /\ \A j \in 1..Len(b) : b[j] = cb[j + 1]
  <2>0. b = Tail(cb)
    BY <1>1
  <2>1. Tail(cb) \in Seq(Nat) /\ Len(Tail(cb)) = Len(cb) - 1
        /\ \A j \in 1..Len(Tail(cb)) : Tail(cb)[j] = cb[j + 1]
    BY <1>1
  <2>2. QED
    BY <2>0, <2>1
<1> HIDE DEF a, b
<1> DEFINE u == ca \o cb
           v == a \o b
<1>5. u \in Seq(Nat) /\ Len(u) = Len(ca) + Len(cb)
      /\ (\A j \in 1..Len(ca) : u[j] = ca[j]) /\ \A j \in 1..Len(cb) : u[Len(ca) + j] = cb[j]
  BY Joined
<1>a. v \in Seq(Nat) /\ Len(v) = Len(a) + Len(b)
      /\ (\A j \in 1..Len(a) : v[j] = a[j]) /\ \A j \in 1..Len(b) : v[Len(a) + j] = b[j]
  <2>1. a \in Seq(Nat) /\ b \in Seq(Nat)
    BY <1>3, <1>4
  <2>2. QED
    BY <2>1, Joined
<1>b. Len(ca) \in Nat /\ Len(cb) \in Nat /\ Len(cb) >= 1 /\ Len(a) = Len(ca) + 1
      /\ Len(b) + 1 = Len(cb)
  BY <1>1, <1>3, <1>4
<1> HIDE DEF u, v
<1>6. ASSUME NEW j \in 1..Len(ca) + Len(cb) PROVE u[j] = v[j]
  <2>1. CASE j <= Len(ca)
    <3>1. j \in 1..Len(a) /\ j \in 1..Len(ca)
      BY <2>1, <1>b
    <3>2. QED
      BY <3>1, <1>3, <1>5, <1>a
  <2>2. CASE j = Len(ca) + 1
    <3>1. j \in 1..Len(a) /\ 1 \in 1..Len(cb)
      BY <2>2, <1>b
    <3>2. v[j] = a[j] /\ u[j] = cb[1]
      BY <3>1, <2>2, <1>5, <1>a
    <3>3. QED
      BY <3>2, <2>2, <1>2, <1>3
  <2>3. CASE j > Len(ca) + 1
    <3>1. PICK e \in 1..Len(b) : j = Len(ca) + 1 + e
      <4>1. j - (Len(ca) + 1) \in 1..Len(b) /\ j = Len(ca) + 1 + (j - (Len(ca) + 1))
        BY <2>3, <1>b
      <4>2. QED
        BY <4>1
    <3>2. v[j] = b[e]
      BY <3>1, <1>a, <1>b
    <3>3. j = Len(ca) + (e + 1) /\ e + 1 \in 1..Len(cb)
      BY <3>1, <1>b
    <3>4. u[j] = cb[e + 1]
      BY <3>3, <1>5
    <3>5. QED
      BY <3>1, <3>2, <3>4, <1>4
  <2>4. QED
    BY <2>1, <2>2, <2>3, <1>b
<1>7. u = v
  <2>0. Len(u) = Len(ca) + Len(cb) /\ Len(v) = Len(a) + Len(b)
    BY <1>5, <1>a
  <2>b. Len(a) \in Nat /\ Len(b) \in Nat
    BY <1>3, <1>4
  <2>a. Len(v) = Len(ca) + Len(cb)
    <3>1. /\ Len(v) = Len(a) + Len(b) /\ Len(a) = Len(ca) + 1 /\ Len(b) + 1 = Len(cb)
          /\ Len(ca) \in Nat /\ Len(cb) \in Nat /\ Len(a) \in Nat /\ Len(b) \in Nat
      BY <2>0, <1>b, <2>b
    <3>2. QED
      BY <3>1
  <2>1. Len(u) = Len(v) /\ \A j \in 1..Len(u) : u[j] = v[j]
    BY <2>0, <2>a, <1>6
  <2>2. QED
    BY <2>1, <1>5, <1>a, SeqEqual
<1>8. QED
  BY <1>3, <1>4, <1>7 DEF a, b, h, u, v

\* split_child.
LEMMA RowOfHalves ==
  ASSUME NEW ks \in Seq(Int), NEW n \in Nat, n + 1 <= Len(ks)
  PROVE  Row(ks, SubSeq(ks, 1, n), ks[n + 1], SubSeq(ks, n + 2, Len(ks)))
         /\ Len(SubSeq(ks, 1, n)) = n /\ Len(SubSeq(ks, n + 2, Len(ks))) = Len(ks) - n - 1
<1> DEFINE a == SubSeq(ks, 1, n)
           m == n + 2
           l == Len(ks)
           b == SubSeq(ks, m, l)
<1>1. IsPart(Int, ks, 1, n, a)
  <2>1. n <= Len(ks)
    OBVIOUS
  <2>2. QED
    BY <2>1, PartOf
<1>2. IsPart(Int, ks, m, l, b)
  <2>1. m \in Nat \ {0} /\ l \in Nat /\ l <= Len(ks)
    OBVIOUS
  <2> HIDE DEF m, l
  <2>2. QED
    BY <2>1, PartOf
<1>3. l \in Nat /\ m = n + 2 /\ n + 1 <= l /\ l = Len(ks)
  OBVIOUS
<1> HIDE DEF a, b, m, l
<1>4. a \in Seq(Int) /\ Len(a) = (IF 1 <= n THEN n - 1 + 1 ELSE 0)
      /\ \A j \in 1..Len(a) : a[j] = ks[1 + j - 1]
  BY <1>1, Zenon DEF IsPart
<1>5. b \in Seq(Int) /\ Len(b) = (IF m <= l THEN l - m + 1 ELSE 0)
      /\ \A j \in 1..Len(b) : b[j] = ks[m + j - 1]
  BY <1>2, Zenon DEF IsPart
<1>6. Len(a) = n
  BY <1>4
<1>7. Len(b) = l - n - 1
  BY <1>3, <1>5
<1>8. \A j \in 1..Len(a) : ks[j] = a[j]
  <2> SUFFICES ASSUME NEW j \in 1..Len(a) PROVE ks[j] = a[j]
    OBVIOUS
  <2>1. 1 + j - 1 = j
    BY <1>6
  <2>2. QED
    BY <2>1, <1>4
<1>9. \A j \in 1..Len(b) : ks[Len(a) + 1 + j] = b[j]
  <2> SUFFICES ASSUME NEW j \in 1..Len(b) PROVE ks[Len(a) + 1 + j] = b[j]
    OBVIOUS
  <2>1. m + j - 1 = Len(a) + 1 + j
    BY <1>3, <1>6, <1>7
  <2>2. QED
    BY <2>1, <1>5
<1>10. Row(ks, a, ks[n + 1], b)
  <2>1. ks[n + 1] \in Int
    BY <1>3
  <2>2. Len(ks) = Len(a) + 1 + Len(b)
    BY <1>3, <1>6, <1>7
  <2>3. QED
    BY <2>1, <2>2, <1>4, <1>5, <1>6, <1>8, <1>9 DEF Row
<1>11. QED
  BY <1>3, <1>6, <1>7, <1>10 DEF a, b, m, l

LEMMA BelowHalves ==
  ASSUME NEW cs \in Seq(Nat), NEW n \in Nat, n <= Len(cs), NEW ka, NEW kb,
         Len(ka) + 1 = n, Len(kb) + 1 = Len(cs) - n
  PROVE  /\ SubSeq(cs, 1, n) \in Seq(Nat) /\ SubSeq(cs, n + 1, Len(cs)) \in Seq(Nat)
         /\ RowBelow(cs, ka, SubSeq(cs, 1, n), kb, SubSeq(cs, n + 1, Len(cs)))
<1> DEFINE a == SubSeq(cs, 1, n)
           m == n + 1
           l == Len(cs)
           b == SubSeq(cs, m, l)
<1>1. IsPart(Nat, cs, 1, n, a)
  BY PartOf
<1>2. IsPart(Nat, cs, m, l, b)
  <2>1. m \in Nat \ {0} /\ l \in Nat /\ l <= Len(cs)
    OBVIOUS
  <2> HIDE DEF m, l
  <2>2. QED
    BY <2>1, PartOf
<1>3. l \in Nat /\ m = n + 1 /\ n <= l /\ l = Len(cs)
  OBVIOUS
<1> HIDE DEF a, b, m, l
<1>4. a \in Seq(Nat) /\ Len(a) = (IF 1 <= n THEN n - 1 + 1 ELSE 0)
      /\ \A j \in 1..Len(a) : a[j] = cs[1 + j - 1]
  BY <1>1, Zenon DEF IsPart
<1>5. b \in Seq(Nat) /\ Len(b) = (IF m <= l THEN l - m + 1 ELSE 0)
      /\ \A j \in 1..Len(b) : b[j] = cs[m + j - 1]
  BY <1>2, Zenon DEF IsPart
<1>6. Len(a) = n
  BY <1>4
<1>7. Len(b) = l - n
  BY <1>3, <1>5
<1>8. \A j \in 1..Len(a) : cs[j] = a[j]
  <2> SUFFICES ASSUME NEW j \in 1..Len(a) PROVE cs[j] = a[j]
    OBVIOUS
  <2>1. 1 + j - 1 = j
    BY <1>6
  <2>2. QED
    BY <2>1, <1>4
<1>9. \A j \in 1..Len(b) : cs[Len(a) + j] = b[j]
  <2> SUFFICES ASSUME NEW j \in 1..Len(b) PROVE cs[Len(a) + j] = b[j]
    OBVIOUS
  <2>1. m + j - 1 = Len(a) + j
    BY <1>3, <1>6, <1>7
  <2>2. QED
    BY <2>1, <1>5
<1>10. RowBelow(cs, ka, a, kb, b)
  <2>1. Len(a) = Len(ka) + 1 /\ Len(b) = Len(kb) + 1 /\ Len(cs) = Len(a) + Len(b)
    BY <1>3, <1>6, <1>7
  <2>2. QED
    BY <2>1, <1>8, <1>9 DEF RowBelow
<1>11. QED
  BY <1>3, <1>4, <1>5, <1>10 DEF a, b, m, l

-----------------------------------------------------------------------------
(* The functions of the code as such changes.  keys[q] may differ from the *)
(* keys of page q for pages that are not at hand.                          *)

KeysOf(t) == [q \in DOMAIN t.page |-> t.page[q].keys]

Arranged(t, r, keys, may) ==
    /\ Placed(InTree(t, {}), r, Kids(t), keys, may)
    /\ \A q \in InTree(t, {}) : keys[q] \in Seq(Int) /\ Len(keys[q]) = KeyCount(t, q)

LEMMA SortedIs ==
  ASSUME NEW t \in Cache, NEW r, NEW by, NEW at, NEW level, SoundBy(t, r, {}, by, at, level),
         NEW keys, NEW may, Arranged(t, r, keys, may)
  PROVE  Sorted(DOMAIN t.page, InTree(t, {}), r, Kids(t), keys, by, at, level, may)
<1> DEFINE T == InTree(t, {})
<1>1. Names(DOMAIN t.page, T, by, at, level) /\ Forest(T, r, Kids(t), by, at, level)
  BY DEF SoundBy
<1>2. ASSUME NEW q \in T
      PROVE  /\ keys[q] \in Seq(Int) /\ Kids(t)[q] \in Seq(Nat)
             /\ level[q] = 0 => Kids(t)[q] = <<>>
             /\ level[q] # 0 => Len(Kids(t)[q]) = Len(keys[q]) + 1
             /\ InPlace(may[q], keys[q], Kids(t)[q], may)
  <2>1. q \in DOMAIN t.page /\ Fits(t, r, q) /\ Kids(t)[q] = t.page[q].children
        /\ t.page[q].kind \in {"leaf", "internal"}
    BY PageFits
  <2>2. t.page[q].kind = "leaf" <=> level[q] = 0
    BY LeavesAtBottom
  <2>3. t.page[q].children \in Seq(Nat)
    BY <2>1, PagesOf
  <2>4. level[q] = 0 => Kids(t)[q] = <<>>
    BY <2>1, <2>2 DEF Fits
  <2>5. level[q] # 0 => Len(Kids(t)[q]) = Len(t.page[q].keys) + 1
    BY <2>1, <2>2 DEF Fits
  <2>6. keys[q] \in Seq(Int) /\ Len(keys[q]) = Len(t.page[q].keys)
        /\ InPlace(may[q], keys[q], Kids(t)[q], may)
    BY DEF Arranged, KeyCount, Placed
  <2>7. QED
    BY <2>1, <2>3, <2>4, <2>5, <2>6
<1>3. may[r] = Int
  BY DEF Arranged, Placed
<1>4. QED
  BY <1>1, <1>2, <1>3 DEF Sorted

\* These changes leave the page above on its level.
LEMMA RowBelowEmpty ==
  ASSUME NEW cs \in Seq(Nat), NEW ka \in Seq(Int), NEW ca \in Seq(Nat),
         NEW kb \in Seq(Int), NEW cb \in Seq(Nat), RowBelow(cs, ka, ca, kb, cb)
  PROVE  (cs = <<>> <=> ca = <<>>) /\ (cs = <<>> <=> cb = <<>>)
<1>1. CASE cs = <<>> /\ ca = <<>> /\ cb = <<>>
  BY <1>1
<1>2. CASE Len(ca) = Len(ka) + 1 /\ Len(cb) = Len(kb) + 1 /\ Len(cs) = Len(ca) + Len(cb)
  <2>1. Len(ka) \in Nat /\ Len(kb) \in Nat /\ Len(<<>>) = 0
    OBVIOUS
  <2>2. Len(ca) # 0 /\ Len(cb) # 0 /\ Len(cs) # 0
    BY <2>1, <1>2
  <2>3. ca # <<>> /\ cb # <<>> /\ cs # <<>>
    BY <2>1, <2>2
  <2>4. QED
    BY <2>3
<1>3. QED
  BY <1>1, <1>2 DEF RowBelow

LEMMA ShiftLevel ==
  ASSUME NEW D, NEW T, NEW r, NEW kids, NEW keys, NEW by, NEW at, NEW level, NEW may,
         Sorted(D, T, r, kids, keys, by, at, level, may),
         NEW p, NEW i, NEW c, NEW s, NEW n, NEW k0, NEW c0, NEW w, NEW cw, NEW s1,
         NEW kids1, NEW keys1,
         Shifted(T, kids, keys, p, i, c, s, n, k0, c0, w, cw, s1, kids1, keys1),
         NEW level1, Leveled(T, kids1, level1)
  PROVE  level1[p] = level[p]
<1>1. Adjoin(T, kids, keys, p, i, c, s, n, k0, c0, w, cw)
      /\ Grows(k0, c0, i, s1, n, keys1[p], kids1[p])
      /\ Row(w, keys1[c], s1, keys1[n])
      /\ kids1[c] \in Seq(Nat) /\ kids1[n] \in Seq(Nat)
      /\ RowBelow(cw, keys1[c], kids1[c], keys1[n], kids1[n])
  BY DEF Shifted
<1>2. p \in T /\ i \in DOMAIN c0 /\ c = c0[i] /\ cw \in Seq(Nat)
      /\ RowBelow(cw, keys[c], kids[c], keys[n], kids[n])
  BY <1>1 DEF Adjoin
<1>3. /\ c \in T /\ n \in T /\ c # p /\ n # p
      /\ level[c] + 1 = level[p] /\ level[n] + 1 = level[p]
  BY <1>1, AdjoinPlaced
<1>4. Leveled(T, kids, level)
  BY SortedLeveled
<1>5. level[c] \in Nat /\ level[n] \in Nat /\ level[p] \in Nat /\ level[n] = level[c]
  <2>1. level[c] \in Nat /\ level[n] \in Nat /\ level[p] \in Nat
    BY <1>2, <1>3, <1>4 DEF Leveled
  <2>2. QED
    BY <2>1, <1>3
<1>6. /\ keys[c] \in Seq(Int) /\ kids[c] \in Seq(Nat)
      /\ keys[n] \in Seq(Int) /\ kids[n] \in Seq(Nat)
  BY <1>3, SortedPage
<1>7. keys1[c] \in Seq(Int) /\ keys1[n] \in Seq(Int)
  BY <1>1 DEF Row
<1>8. i \in DOMAIN kids1[p] /\ kids1[p][i] = c
  <2> DEFINE k1 == keys1[p]
             c1 == kids1[p]
  <2>1. Grows(k0, c0, i, s1, n, k1, c1)
    BY <1>1
  <2>2. Len(k0) \in Nat /\ i \in 1..Len(k0) + 1 /\ DOMAIN c1 = 1..Len(k0) + 2 /\ c1[i] = c0[i]
    <3> HIDE DEF k1, c1
    <3>1. QED
      BY <2>1, GrowPlaces
  <2>3. i \in 1..Len(k0) + 2
    BY <2>2
  <2>4. QED
    BY <2>2, <2>3, <1>2
<1>9. \A q \in T : level[q] < level[c] => q \in T /\ kids1[q] = kids[q]
  <2> SUFFICES ASSUME NEW q \in T, level[q] < level[c] PROVE kids1[q] = kids[q]
    OBVIOUS
  <2>1. level[q] \in Nat
    BY <1>4 DEF Leveled
  <2>2. q # p /\ q # c /\ q # n
    BY <2>1, <1>3, <1>5
  <2>3. QED
    BY <2>2 DEF Shifted
<1>10. level[c] = 0 <=> kids1[c] = <<>>
  <2>1. cw = <<>> <=> kids[c] = <<>>
    BY <1>2, <1>6, RowBelowEmpty
  <2>2. cw = <<>> <=> kids1[c] = <<>>
    BY <1>1, <1>2, <1>7, RowBelowEmpty
  <2>3. level[c] = 0 <=> kids[c] = <<>>
    BY <1>3, <1>4 DEF Leveled
  <2>4. QED
    BY <2>1, <2>2, <2>3
<1>11. ASSUME NEW x \in DOMAIN kids1[c]
       PROVE  kids1[c][x] \in T /\ level[kids1[c][x]] + 1 = level[c]
  <2> DEFINE ka == keys1[c]
             kb == keys1[n]
             ca == kids1[c]
             cb == kids1[n]
             ja == keys[c]
             jb == keys[n]
             da == kids[c]
             db == kids[n]
  <2>1. Row(w, ka, s1, kb) /\ RowBelow(cw, ka, ca, kb, cb) /\ ca \in Seq(Nat) /\ cb \in Seq(Nat)
    BY <1>1
  <2>2. Row(w, ja, s, jb) /\ RowBelow(cw, ja, da, jb, db) /\ da \in Seq(Nat) /\ db \in Seq(Nat)
        /\ cw \in Seq(Nat)
    BY <1>1, <1>2, <1>6 DEF Adjoin
  <2>3. (\A j \in DOMAIN ca : \E e \in DOMAIN cw : ca[j] = cw[e])
    <3> HIDE DEF ka, kb, ca, cb
    <3>1. QED
      BY <2>1, <1>2, RowBelowIn
  <2>4. FromEither(cw, da, db)
    <3> HIDE DEF ja, jb, da, db
    <3>1. FromEither(cw, da, db)
      BY <2>2, RowBelowIn
    <3>2. QED
      BY <3>1
  <2>5. \/ \E j \in DOMAIN kids[c] : kids1[c][x] = kids[c][j]
        \/ \E j \in DOMAIN kids[n] : kids1[c][x] = kids[n][j]
    BY <2>3, <2>4 DEF FromEither
  <2>6. \A q \in T : \A j \in DOMAIN kids[q] : kids[q][j] \in T /\ level[kids[q][j]] + 1 = level[q]
    BY <1>4 DEF Leveled
  <2>7. QED
    BY <2>5, <2>6, <1>3, <1>5
<1>12. level1[p] = level[c] + 1
  BY <1>2, <1>3, <1>4, <1>8, <1>9, <1>10, <1>11, LevelAbove
<1>13. QED
  BY <1>12, <1>3

LEMMA MergeLevel ==
  ASSUME NEW D, NEW T, NEW r, NEW kids, NEW keys, NEW by, NEW at, NEW level, NEW may,
         Sorted(D, T, r, kids, keys, by, at, level, may),
         NEW p, NEW i, NEW c, NEW s, NEW n, NEW kids1, NEW keys1,
         Merged(T, kids, keys, p, i, c, s, n, kids1, keys1),
         NEW level1, Leveled(T \ {n}, kids1, level1)
  PROVE  level1[p] = level[p]
<1>1. Adjoin(T, kids, keys, p, i, c, s, n, keys1[p], kids1[p], keys1[c], kids1[c])
  BY DEF Merged
<1>2. p \in T /\ i \in DOMAIN kids1[p] /\ c = kids1[p][i] /\ kids1[c] \in Seq(Nat)
      /\ RowBelow(kids1[c], keys[c], kids[c], keys[n], kids[n])
      /\ Row(keys1[c], keys[c], s, keys[n])
  BY <1>1 DEF Adjoin
<1>3. /\ c \in T /\ n \in T /\ c # p /\ n # p /\ c # n
      /\ level[c] + 1 = level[p] /\ level[n] + 1 = level[p]
  <2> DEFINE k0 == keys1[p]
             c0 == kids1[p]
             w == keys1[c]
             cw == kids1[c]
  <2>1. Adjoin(T, kids, keys, p, i, c, s, n, k0, c0, w, cw)
    BY <1>1
  <2> HIDE DEF k0, c0, w, cw
  <2>2. QED
    BY <2>1, AdjoinPlaced
<1>4. Leveled(T, kids, level)
  BY SortedLeveled
<1>5. level[c] \in Nat /\ level[n] \in Nat /\ level[p] \in Nat /\ level[n] = level[c]
  <2>1. level[c] \in Nat /\ level[n] \in Nat /\ level[p] \in Nat
    BY <1>2, <1>3, <1>4 DEF Leveled
  <2>2. QED
    BY <2>1, <1>3
<1>6. /\ keys[c] \in Seq(Int) /\ kids[c] \in Seq(Nat)
      /\ keys[n] \in Seq(Int) /\ kids[n] \in Seq(Nat)
  BY <1>3, SortedPage
<1>9. \A q \in T : level[q] < level[c] => q \in T \ {n} /\ kids1[q] = kids[q]
  <2> SUFFICES ASSUME NEW q \in T, level[q] < level[c] PROVE q # n /\ kids1[q] = kids[q]
    OBVIOUS
  <2>1. level[q] \in Nat
    BY <1>4 DEF Leveled
  <2>2. q # p /\ q # c /\ q # n
    BY <2>1, <1>3, <1>5
  <2>3. QED
    BY <2>2 DEF Merged
<1>10. level[c] = 0 <=> kids1[c] = <<>>
  <2>1. kids1[c] = <<>> <=> kids[c] = <<>>
    BY <1>2, <1>6, RowBelowEmpty
  <2>2. level[c] = 0 <=> kids[c] = <<>>
    BY <1>3, <1>4 DEF Leveled
  <2>3. QED
    BY <2>1, <2>2
<1>11. ASSUME NEW x \in DOMAIN kids1[c]
       PROVE  kids1[c][x] \in T /\ level[kids1[c][x]] + 1 = level[c]
  <2> DEFINE cw == kids1[c]
             w == keys1[c]
             ja == keys[c]
             jb == keys[n]
             da == kids[c]
             db == kids[n]
  <2>2. Row(w, ja, s, jb) /\ RowBelow(cw, ja, da, jb, db) /\ da \in Seq(Nat) /\ db \in Seq(Nat)
        /\ cw \in Seq(Nat)
    BY <1>2, <1>6
  <2>4. FromEither(cw, da, db)
    <3> HIDE DEF ja, jb, da, db, cw, w
    <3>1. FromEither(cw, da, db)
      BY <2>2, RowBelowIn
    <3>2. QED
      BY <3>1
  <2>5. \/ \E j \in DOMAIN kids[c] : kids1[c][x] = kids[c][j]
        \/ \E j \in DOMAIN kids[n] : kids1[c][x] = kids[n][j]
    BY <2>4 DEF FromEither
  <2>6. \A q \in T : \A j \in DOMAIN kids[q] : kids[q][j] \in T /\ level[kids[q][j]] + 1 = level[q]
    BY <1>4 DEF Leveled
  <2>7. QED
    BY <2>5, <2>6, <1>3, <1>5
<1>12. level1[p] = level[c] + 1
  <2>1. p \in T \ {n}
    BY <1>2, <1>3
  <2>2. QED
    BY <2>1, <1>2, <1>3, <1>4, <1>9, <1>10, <1>11, LevelAbove
<1>13. QED
  BY <1>12, <1>3

LEMMA SplitLevel ==
  ASSUME NEW D, NEW T, NEW r, NEW kids, NEW keys, NEW by, NEW at, NEW level, NEW may,
         Sorted(D, T, r, kids, keys, by, at, level, may),
         NEW p, NEW i, NEW c, NEW s, NEW n, NEW kids1, NEW keys1,
         Splits(T, kids, keys, p, i, c, s, n, kids1, keys1),
         NEW level1, Leveled(T \cup {n}, kids1, level1)
  PROVE  level1[p] = level[p]
<1>1. /\ p \in T /\ i \in DOMAIN kids[p] /\ c = kids[p][i] /\ n \notin T
      /\ Grows(keys[p], kids[p], i, s, n, keys1[p], kids1[p])
      /\ Row(keys[c], keys1[c], s, keys1[n])
      /\ kids1[c] \in Seq(Nat) /\ kids1[n] \in Seq(Nat)
      /\ RowBelow(kids[c], keys1[c], kids1[c], keys1[n], kids1[n])
      /\ \A q \in T \ {p, c} : kids1[q] = kids[q] /\ keys1[q] = keys[q]
  BY DEF Splits
<1>4. Leveled(T, kids, level)
  BY SortedLeveled
<1>3. c \in T /\ level[c] + 1 = level[p] /\ level[c] \in Nat /\ level[p] \in Nat
      /\ kids[c] \in Seq(Nat)
  BY <1>1, <1>4 DEF Leveled
<1>7. keys1[c] \in Seq(Int) /\ keys1[n] \in Seq(Int)
  BY <1>1 DEF Row
<1>8. i \in DOMAIN kids1[p] /\ kids1[p][i] = c
  <2> DEFINE k1 == keys1[p]
             c1 == kids1[p]
             k0 == keys[p]
             c0 == kids[p]
  <2>1. Grows(k0, c0, i, s, n, k1, c1)
    BY <1>1
  <2>2. Len(k0) \in Nat /\ i \in 1..Len(k0) + 1 /\ DOMAIN c1 = 1..Len(k0) + 2 /\ c1[i] = c0[i]
    <3> HIDE DEF k1, c1, k0, c0
    <3>1. QED
      BY <2>1, GrowPlaces
  <2>3. i \in 1..Len(k0) + 2
    BY <2>2
  <2>4. QED
    BY <2>2, <2>3, <1>1
<1>9. \A q \in T : level[q] < level[c] => q \in T \cup {n} /\ kids1[q] = kids[q]
  <2> SUFFICES ASSUME NEW q \in T, level[q] < level[c] PROVE kids1[q] = kids[q]
    OBVIOUS
  <2>1. level[q] \in Nat
    BY <1>4 DEF Leveled
  <2>2. q # p /\ q # c
    BY <2>1, <1>3
  <2>3. QED
    BY <2>2, <1>1
<1>10. level[c] = 0 <=> kids1[c] = <<>>
  <2>1. kids[c] = <<>> <=> kids1[c] = <<>>
    BY <1>1, <1>3, <1>7, RowBelowEmpty
  <2>2. level[c] = 0 <=> kids[c] = <<>>
    BY <1>3, <1>4 DEF Leveled
  <2>3. QED
    BY <2>1, <2>2
<1>11. ASSUME NEW x \in DOMAIN kids1[c]
       PROVE  kids1[c][x] \in T /\ level[kids1[c][x]] + 1 = level[c]
  <2> DEFINE ka == keys1[c]
             kb == keys1[n]
             ca == kids1[c]
             cb == kids1[n]
             cw == kids[c]
             w == keys[c]
  <2>1. Row(w, ka, s, kb) /\ RowBelow(cw, ka, ca, kb, cb) /\ ca \in Seq(Nat) /\ cb \in Seq(Nat)
        /\ cw \in Seq(Nat)
    BY <1>1, <1>3
  <2>3. (\A j \in DOMAIN ca : \E e \in DOMAIN cw : ca[j] = cw[e])
    <3> HIDE DEF ka, kb, ca, cb, cw, w
    <3>1. QED
      BY <2>1, RowBelowIn
  <2>5. \E j \in DOMAIN kids[c] : kids1[c][x] = kids[c][j]
    BY <2>3
  <2>6. \A q \in T : \A j \in DOMAIN kids[q] : kids[q][j] \in T /\ level[kids[q][j]] + 1 = level[q]
    BY <1>4 DEF Leveled
  <2>7. QED
    BY <2>5, <2>6, <1>3
<1>12. level1[p] = level[c] + 1
  <2>1. p \in T \cup {n}
    BY <1>1
  <2>2. QED
    BY <2>1, <1>3, <1>4, <1>8, <1>9, <1>10, <1>11, LevelAbove
<1>13. QED
  BY <1>12, <1>3

\* Children l and c of p, and the key s of p between them.
Beside(T, kids, keys, p, j, l, s, c) ==
    /\ p \in T /\ keys[p] \in Seq(Int) /\ kids[p] \in Seq(Nat)
    /\ Len(kids[p]) = Len(keys[p]) + 1 /\ j \in DOMAIN keys[p] /\ s = keys[p][j]
    /\ l = kids[p][j] /\ c = kids[p][j + 1]
    /\ keys[l] \in Seq(Int) /\ keys[c] \in Seq(Int)
    /\ kids[l] \in Seq(Nat) /\ kids[c] \in Seq(Nat)
    /\ Paired(keys[l], kids[l], keys[c], kids[c])

\* The keys of both with s between, and the children of both.
KeysInRow(keys, l, s, c) == Append(keys[l], s) \o keys[c]
KidsInRow(kids, l, c) == kids[l] \o kids[c]

LEMMA BesideAdjoins ==
  ASSUME NEW T, NEW kids, NEW keys, NEW p, NEW j, NEW l, NEW s, NEW c,
         Beside(T, kids, keys, p, j, l, s, c)
  PROVE  Adjoin(T, kids, keys, p, j, l, s, c, RemoveAt(keys[p], j), RemoveAt(kids[p], j + 1),
                KeysInRow(keys, l, s, c), KidsInRow(kids, l, c))
<1> DEFINE kp == keys[p]
           cp == kids[p]
           ka == keys[l]
           kb == keys[c]
           ca == kids[l]
           cb == kids[c]
<1>1. /\ p \in T /\ kp \in Seq(Int) /\ cp \in Seq(Nat)
      /\ Len(cp) = Len(kp) + 1 /\ j \in DOMAIN kp /\ s = kp[j]
      /\ l = cp[j] /\ c = cp[j + 1]
  BY DEF Beside
<1>2. /\ ka \in Seq(Int) /\ kb \in Seq(Int)
      /\ ca \in Seq(Nat) /\ cb \in Seq(Nat) /\ Paired(ka, ca, kb, cb)
  BY DEF Beside
<1> DEFINE k0 == RemoveAt(kp, j)
           c0 == RemoveAt(cp, j + 1)
           w == Append(ka, s) \o kb
           cw == ca \o cb
<1>3. s \in Int
  BY <1>1
<1>4. j \in DOMAIN c0 /\ c0[j] = cp[j] /\ Grows(k0, c0, j, kp[j], cp[j + 1], kp, cp)
  <2> HIDE DEF kp, cp
  <2>1. QED
    BY <1>1, <1>3, GrowsBack
<1>5. Row(w, ka, s, kb)
  <2> HIDE DEF ka, kb
  <2>1. QED
    BY <1>2, <1>3, RowOfAll
<1>6. cw \in Seq(Nat) /\ RowBelow(cw, ka, ca, kb, cb)
  <2> HIDE DEF ka, kb, ca, cb
  <2>1. QED
    BY <1>2, BelowAll
<1>7. p \in T /\ j \in DOMAIN c0 /\ l = c0[j] /\ Grows(k0, c0, j, s, c, kp, cp)
  <2> HIDE DEF kp, cp, k0, c0
  <2>1. QED
    BY <1>1, <1>4
<1>8. QED
  BY <1>5, <1>6, <1>7 DEF Adjoin, KeysInRow, KidsInRow

\* They are parted anew, at s1.
PartsAnew(T, kids, keys, p, j, l, s, c, s1, kids1, keys1) ==
    /\ s1 \in Int
    /\ Row(KeysInRow(keys, l, s, c), keys1[l], s1, keys1[c])
    /\ kids1[l] \in Seq(Nat) /\ kids1[c] \in Seq(Nat)
    /\ RowBelow(KidsInRow(kids, l, c), keys1[l], kids1[l], keys1[c], kids1[c])
    /\ keys1[p] = [keys[p] EXCEPT ![j] = s1] /\ kids1[p] = kids[p]
    /\ \A q \in T \ {p, l, c} : kids1[q] = kids[q] /\ keys1[q] = keys[q]

LEMMA BesideShifts ==
  ASSUME NEW T, NEW kids, NEW keys, NEW p, NEW j, NEW l, NEW s, NEW c,
         Beside(T, kids, keys, p, j, l, s, c), NEW s1, NEW kids1, NEW keys1,
         PartsAnew(T, kids, keys, p, j, l, s, c, s1, kids1, keys1)
  PROVE  Shifted(T, kids, keys, p, j, l, s, c, RemoveAt(keys[p], j), RemoveAt(kids[p], j + 1),
                 KeysInRow(keys, l, s, c), KidsInRow(kids, l, c), s1, kids1, keys1)
<1> DEFINE kp == keys[p]
           cp == kids[p]
           k1 == [kp EXCEPT ![j] = s1]
           k0 == RemoveAt(kp, j)
           c0 == RemoveAt(cp, j + 1)
<1>1. /\ kp \in Seq(Int) /\ cp \in Seq(Nat)
      /\ Len(cp) = Len(kp) + 1 /\ j \in DOMAIN kp /\ c = cp[j + 1]
  BY DEF Beside
<1>2. s1 \in Int /\ keys1[p] = k1 /\ kids1[p] = cp
  BY DEF PartsAnew
<1>3. Grows(k0, c0, j, s1, cp[j + 1], k1, cp)
  <2> HIDE DEF kp, cp
  <2>1. QED
    BY <1>1, <1>2, GrowsBack
<1>4. Grows(k0, c0, j, s1, c, keys1[p], kids1[p])
  <2> HIDE DEF kp, cp, k0, c0, k1
  <2>1. QED
    BY <1>1, <1>2, <1>3
<1>5. QED
  BY <1>4, BesideAdjoins DEF PartsAnew, Shifted

\* borrow_from_prev: the last key of l goes up, s goes down, and the last child over.
LEMMA GivesLeft ==
  ASSUME NEW T, NEW kids, NEW keys, NEW p, NEW j, NEW l, NEW s, NEW c,
         Beside(T, kids, keys, p, j, l, s, c), NEW kids1, NEW keys1,
         keys[l] # <<>>,
         keys1[l] = Front(keys[l]), keys1[c] = <<s>> \o keys[c],
         kids[l] = <<>> => kids1[l] = <<>> /\ kids1[c] = <<>>,
         kids[l] # <<>> => kids1[l] = SubSeq(kids[l], 1, Len(kids[l]) - 1)
                           /\ kids1[c] = <<Last(kids[l])>> \o kids[c],
         keys1[p] = [keys[p] EXCEPT ![j] = Last(keys[l])], kids1[p] = kids[p],
         \A q \in T \ {p, l, c} : kids1[q] = kids[q] /\ keys1[q] = keys[q]
  PROVE  PartsAnew(T, kids, keys, p, j, l, s, c, Last(keys[l]), kids1, keys1)
<1> DEFINE ka == keys[l]
           kb == keys[c]
           ca == kids[l]
           cb == kids[c]
<1>1. /\ ka \in Seq(Int) /\ kb \in Seq(Int) /\ ka # <<>> /\ s \in Int
      /\ ca \in Seq(Nat) /\ cb \in Seq(Nat) /\ Paired(ka, ca, kb, cb)
  BY DEF Beside
<1> DEFINE la == Last(ka)
           fa == Front(ka)
           sb == <<s>> \o kb
           w == Append(ka, s) \o kb
<1>2. Row(w, fa, la, sb)
  <2> HIDE DEF ka, kb
  <2>1. QED
    BY <1>1, RowShiftedLeft
<1>3. la \in Int /\ fa \in Seq(Int) /\ sb \in Seq(Int) /\ Len(fa) + 1 + Len(sb) = Len(w)
  <2> HIDE DEF fa, la, sb, w
  <2>1. QED
    BY <1>2 DEF Row
<1>a. Len(fa) + 1 = Len(ka) /\ Len(sb) = Len(kb) + 1
  <2>1. Len(fa) = Len(ka) - 1
    <3> HIDE DEF ka
    <3>1. QED
      BY <1>1, FrontPlaces DEF Front
  <2>2. Len(ka) \in Nat /\ Len(kb) \in Nat /\ Len(sb) = Len(kb) + 1
    BY <1>1
  <2>3. QED
    BY <2>1, <2>2
<1>4. kids1[l] \in Seq(Nat) /\ kids1[c] \in Seq(Nat)
      /\ RowBelow(ca \o cb, fa, kids1[l], sb, kids1[c])
  <2>1. CASE ca = <<>>
    <3>1. cb = <<>>
      <4>1. Len(<<>>) = 0 /\ Len(ka) \in Nat
        BY <1>1
      <4>2. Len(ca) # Len(ka) + 1
        BY <4>1, <2>1
      <4>3. QED
        BY <4>2, <1>1 DEF Paired
    <3>2. kids1[l] = <<>> /\ kids1[c] = <<>>
      BY <2>1
    <3>3. ca \o cb = <<>>
      BY <2>1, <3>1
    <3>4. QED
      BY <3>2, <3>3 DEF RowBelow
  <2>2. CASE ca # <<>>
    <3> DEFINE a1 == SubSeq(ca, 1, Len(ca) - 1)
               b1 == <<Last(ca)>> \o cb
    <3>1. kids1[l] = a1 /\ kids1[c] = b1
      BY <2>2
    <3>2. a1 \in Seq(Nat) /\ Len(a1) = Len(ca) - 1 /\ b1 \in Seq(Nat) /\ Len(b1) = Len(cb) + 1
          /\ ca \o cb = a1 \o b1
      <4> HIDE DEF ca, cb
      <4>1. QED
        BY <1>1, <2>2, JoinedLeft
    <3>3. Len(ca) = Len(ka) + 1 /\ Len(cb) = Len(kb) + 1
      BY <2>2, <1>1 DEF Paired
    <3>4. Len(a1) = Len(fa) + 1 /\ Len(b1) = Len(sb) + 1
      <4>1. Len(ka) \in Nat /\ Len(kb) \in Nat /\ Len(fa) \in Nat
        BY <1>1, <1>3
      <4> HIDE DEF a1, b1, fa, sb, ka, kb, ca, cb
      <4>2. Len(a1) = Len(ka) /\ Len(b1) = Len(kb) + 1 + 1
        BY <4>1, <3>2, <3>3
      <4>3. QED
        BY <4>1, <4>2, <1>a
    <3>5. RowBelow(ca \o cb, fa, a1, sb, b1)
      <4> DEFINE cs == ca \o cb
      <4>1. cs = a1 \o b1 /\ Paired(fa, a1, sb, b1)
        BY <3>2, <3>4 DEF Paired
      <4> HIDE DEF a1, b1, fa, sb, cs
      <4>2. QED
        BY <4>1, <3>2, <1>3, BelowAnew
    <3>6. QED
      <4> HIDE DEF a1, b1
      <4>1. QED
        BY <3>1, <3>2, <3>5
  <2>3. QED
    BY <2>1, <2>2
<1>5. QED
  BY <1>2, <1>3, <1>4 DEF PartsAnew, KeysInRow, KidsInRow

\* borrow_from_next: the first key of c goes up, s goes down, and the first child over.
LEMMA GivesRight ==
  ASSUME NEW T, NEW kids, NEW keys, NEW p, NEW j, NEW l, NEW s, NEW c,
         Beside(T, kids, keys, p, j, l, s, c), NEW kids1, NEW keys1,
         keys[c] # <<>>,
         keys1[l] = Append(keys[l], s), keys1[c] = Tail(keys[c]),
         kids[c] = <<>> => kids1[l] = <<>> /\ kids1[c] = <<>>,
         kids[c] # <<>> => kids1[l] = kids[l] \o <<Head(kids[c])>>
                           /\ kids1[c] = SubSeq(kids[c], 2, Len(kids[c])),
         keys1[p] = [keys[p] EXCEPT ![j] = Head(keys[c])], kids1[p] = kids[p],
         \A q \in T \ {p, l, c} : kids1[q] = kids[q] /\ keys1[q] = keys[q]
  PROVE  PartsAnew(T, kids, keys, p, j, l, s, c, Head(keys[c]), kids1, keys1)
<1> DEFINE ka == keys[l]
           kb == keys[c]
           ca == kids[l]
           cb == kids[c]
<1>1. /\ ka \in Seq(Int) /\ kb \in Seq(Int) /\ kb # <<>> /\ s \in Int
      /\ ca \in Seq(Nat) /\ cb \in Seq(Nat) /\ Paired(ka, ca, kb, cb)
  BY DEF Beside
<1> DEFINE hb == Head(kb)
           tb == Tail(kb)
           sa == Append(ka, s)
           w == Append(ka, s) \o kb
<1>2. Row(w, sa, hb, tb)
  <2> HIDE DEF ka, kb
  <2>1. QED
    BY <1>1, RowShiftedRight
<1>3. hb \in Int /\ sa \in Seq(Int) /\ tb \in Seq(Int)
  <2> HIDE DEF hb, sa, tb, w
  <2>1. QED
    BY <1>2 DEF Row
<1>a. Len(tb) + 1 = Len(kb) /\ Len(sa) = Len(ka) + 1 /\ Len(ka) \in Nat /\ Len(kb) \in Nat
      /\ Len(tb) \in Nat
  <2> HIDE DEF ka, kb
  <2>1. QED
    BY <1>1
<1>4. kids1[l] \in Seq(Nat) /\ kids1[c] \in Seq(Nat)
      /\ RowBelow(ca \o cb, sa, kids1[l], tb, kids1[c])
  <2>1. CASE cb = <<>>
    <3>1. ca = <<>>
      <4>1. Len(<<>>) = 0
        OBVIOUS
      <4>2. Len(cb) # Len(kb) + 1
        BY <4>1, <2>1, <1>a
      <4>3. QED
        BY <4>2, <1>1 DEF Paired
    <3>2. kids1[l] = <<>> /\ kids1[c] = <<>>
      BY <2>1
    <3>3. ca \o cb = <<>>
      BY <2>1, <3>1
    <3>4. QED
      BY <3>2, <3>3 DEF RowBelow
  <2>2. CASE cb # <<>>
    <3> DEFINE a1 == ca \o <<Head(cb)>>
               b1 == SubSeq(cb, 2, Len(cb))
    <3>1. kids1[l] = a1 /\ kids1[c] = b1
      BY <2>2
    <3>2. a1 \in Seq(Nat) /\ Len(a1) = Len(ca) + 1 /\ b1 \in Seq(Nat) /\ Len(b1) = Len(cb) - 1
          /\ ca \o cb = a1 \o b1
      <4> HIDE DEF ca, cb
      <4>1. QED
        BY <1>1, <2>2, JoinedRight
    <3>3. Len(ca) = Len(ka) + 1 /\ Len(cb) = Len(kb) + 1
      BY <2>2, <1>1 DEF Paired
    <3>4. Len(a1) = Len(sa) + 1 /\ Len(b1) = Len(tb) + 1
      <4> HIDE DEF a1, b1, sa, tb, ka, kb, ca, cb
      <4>1. Len(a1) = Len(ka) + 1 + 1 /\ Len(b1) = Len(kb)
        BY <1>a, <3>2, <3>3
      <4>2. QED
        BY <4>1, <1>a
    <3>5. RowBelow(ca \o cb, sa, a1, tb, b1)
      <4> DEFINE cs == ca \o cb
      <4>1. cs = a1 \o b1 /\ Paired(sa, a1, tb, b1)
        BY <3>2, <3>4 DEF Paired
      <4> HIDE DEF a1, b1, sa, tb, cs
      <4>2. QED
        BY <4>1, <3>2, <1>3, BelowAnew
    <3>6. QED
      <4> HIDE DEF a1, b1
      <4>1. QED
        BY <3>1, <3>2, <3>5
  <2>3. QED
    BY <2>1, <2>2
<1>5. QED
  BY <1>2, <1>3, <1>4 DEF PartsAnew, KeysInRow, KidsInRow

\* merge_children: c and s join l.
LEMMA GivesAll ==
  ASSUME NEW T, NEW kids, NEW keys, NEW p, NEW j, NEW l, NEW s, NEW c,
         Beside(T, kids, keys, p, j, l, s, c), NEW kids1, NEW keys1,
         keys1[l] = Append(keys[l], s) \o keys[c], kids1[l] = kids[l] \o kids[c],
         keys1[p] = RemoveAt(keys[p], j), kids1[p] = RemoveAt(kids[p], j + 1),
         \A q \in T \ {p, l, c} : kids1[q] = kids[q] /\ keys1[q] = keys[q]
  PROVE  Merged(T, kids, keys, p, j, l, s, c, kids1, keys1)
<1> DEFINE w == KeysInRow(keys, l, s, c)
           cw == KidsInRow(kids, l, c)
           k0 == RemoveAt(keys[p], j)
           c0 == RemoveAt(kids[p], j + 1)
<1>1. Adjoin(T, kids, keys, p, j, l, s, c, k0, c0, w, cw)
  BY BesideAdjoins
<1>2. keys1[l] = w /\ kids1[l] = cw /\ keys1[p] = k0 /\ kids1[p] = c0
  BY DEF KeysInRow, KidsInRow
<1> HIDE DEF w, cw, k0, c0
<1>3. QED
  BY <1>1, <1>2 DEF Merged

\* split_child: n gets the upper half of c, and its middle key goes up.
LEMMA GivesHalf ==
  ASSUME NEW T, NEW kids, NEW keys, NEW p \in T, NEW i, NEW c, NEW n \in Nat, NEW h \in Nat,
         keys[p] \in Seq(Int), kids[p] \in Seq(Nat), Len(kids[p]) = Len(keys[p]) + 1,
         i \in DOMAIN kids[p], c = kids[p][i], n \notin T,
         keys[c] \in Seq(Int), kids[c] \in Seq(Nat), Len(keys[c]) = 2 * h + 1,
         kids[c] = <<>> \/ Len(kids[c]) = 2 * h + 2,
         NEW kids1, NEW keys1,
         keys1[c] = SubSeq(keys[c], 1, h), keys1[n] = SubSeq(keys[c], h + 2, Len(keys[c])),
         kids[c] = <<>> => kids1[c] = <<>> /\ kids1[n] = <<>>,
         kids[c] # <<>> => kids1[c] = SubSeq(kids[c], 1, h + 1)
                           /\ kids1[n] = SubSeq(kids[c], h + 2, Len(kids[c])),
         keys1[p] = InsertAt(keys[p], i, keys[c][h + 1]), kids1[p] = InsertAt(kids[p], i + 1, n),
         \A q \in T \ {p, c} : kids1[q] = kids[q] /\ keys1[q] = keys[q]
  PROVE  Splits(T, kids, keys, p, i, c, keys[c][h + 1], n, kids1, keys1)
<1> DEFINE kp == keys[p]
           cp == kids[p]
           kc == keys[c]
           cc == kids[c]
           s == kc[h + 1]
           k1 == InsertAt(kp, i, s)
           c1 == InsertAt(cp, i + 1, n)
           ka == SubSeq(kc, 1, h)
           kb == SubSeq(kc, h + 2, Len(kc))
<1>1. kp \in Seq(Int) /\ cp \in Seq(Nat) /\ Len(cp) = Len(kp) + 1 /\ i \in DOMAIN cp /\ c = cp[i]
  OBVIOUS
<1>2. kc \in Seq(Int) /\ cc \in Seq(Nat) /\ Len(kc) = 2 * h + 1 /\ (cc = <<>> \/ Len(cc) = 2 * h + 2)
  OBVIOUS
<1>3. s \in Int
  <2> HIDE DEF kc
  <2>1. h + 1 \in 1..Len(kc)
    BY <1>2
  <2>2. QED
    BY <1>2, <2>1
<1>4. Row(kc, ka, s, kb) /\ Len(ka) = h /\ Len(kb) = Len(kc) - h - 1
  <2> HIDE DEF kc
  <2>1. h + 1 <= Len(kc)
    BY <1>2
  <2>2. QED
    BY <1>2, <2>1, RowOfHalves
<1>5. Grows(kp, cp, i, s, n, k1, c1)
  <2> HIDE DEF kp, cp, s
  <2>1. i \in 1..Len(kp) + 1 /\ i + 1 \in 1..Len(cp) + 1
    <3>1. Len(kp) \in Nat /\ DOMAIN cp = 1..Len(cp)
      BY <1>1
    <3>2. i \in 1..Len(cp) /\ Len(cp) = Len(kp) + 1
      BY <3>1, <1>1
    <3> HIDE DEF k1, c1
    <3>3. i \in 1..Len(kp) + 1
      BY <3>2
    <3>4. i + 1 \in 1..Len(cp) + 1
      <4>1. Len(cp) \in Nat /\ i \in 1..Len(cp)
        BY <3>1, <3>2
      <4>2. QED
        BY ONLY <4>1, SMT
    <3>5. QED
      BY <3>3, <3>4
  <2>2. HasInserted(Int, kp, i, s, k1)
    BY <1>1, <1>3, <2>1, Inserting
  <2>3. HasInserted(Nat, cp, i + 1, n, c1)
    BY <1>1, <2>1, Inserting
  <2>4. k1 \in Seq(Int) /\ c1 \in Seq(Nat)
    BY <2>2, <2>3 DEF HasInserted
  <2> HIDE DEF k1, c1
  <2>5. QED
    BY <1>1, <1>3, <2>1, <2>2, <2>3, <2>4 DEF Grows, Adds
<1>6. kids1[c] \in Seq(Nat) /\ kids1[n] \in Seq(Nat) /\ RowBelow(cc, ka, kids1[c], kb, kids1[n])
  <2>1. CASE cc = <<>>
    <3>1. kids1[c] = <<>> /\ kids1[n] = <<>>
      BY <2>1
    <3>2. QED
      BY <2>1, <3>1 DEF RowBelow
  <2>2. CASE cc # <<>>
    <3> DEFINE m == h + 1
               a1 == SubSeq(cc, 1, m)
               b1 == SubSeq(cc, m + 1, Len(cc))
    <3>1. kids1[c] = a1 /\ kids1[n] = b1
      <4>1. m + 1 = h + 2
        OBVIOUS
      <4>2. kids1[c] = SubSeq(cc, 1, m) /\ kids1[n] = SubSeq(cc, h + 2, Len(cc))
        BY <2>2
      <4> HIDE DEF cc, m
      <4>3. QED
        BY <4>1, <4>2
    <3>2. m \in Nat /\ m <= Len(cc) /\ Len(ka) + 1 = m /\ Len(kb) + 1 = Len(cc) - m
      <4>1. m = h + 1 /\ Len(cc) = 2 * h + 2
        BY <2>2, <1>2
      <4> HIDE DEF m, cc, ka, kb, kc
      <4>2. Len(kb) = 2 * h + 1 - h - 1
        BY <1>4, <1>2
      <4>3. QED
        BY <4>1, <4>2, <1>4
    <3>3. a1 \in Seq(Nat) /\ b1 \in Seq(Nat) /\ RowBelow(cc, ka, a1, kb, b1)
      <4> HIDE DEF m, cc, ka, kb
      <4>1. QED
        BY <1>2, <3>2, BelowHalves
    <3>4. QED
      <4> HIDE DEF a1, b1
      <4>1. QED
        BY <3>1, <3>3
  <2>3. QED
    BY <2>1, <2>2
<1>7. keys1[c] = ka /\ keys1[n] = kb /\ keys1[p] = k1 /\ kids1[p] = c1
  OBVIOUS
<1>8. /\ p \in T /\ i \in DOMAIN cp /\ c = cp[i] /\ n \notin T
      /\ Grows(kp, cp, i, s, n, keys1[p], kids1[p])
      /\ Row(kc, keys1[c], s, keys1[n])
      /\ kids1[c] \in Seq(Nat) /\ kids1[n] \in Seq(Nat)
      /\ RowBelow(cc, keys1[c], kids1[c], keys1[n], kids1[n])
      /\ \A q \in T \ {p, c} : kids1[q] = kids[q] /\ keys1[q] = keys[q]
  <2> HIDE DEF ka, kb, k1, c1
  <2>1. QED
    BY <1>1, <1>4, <1>5, <1>6, <1>7
<1>9. QED
  BY <1>8 DEF Splits

-----------------------------------------------------------------------------
(* Moving keys between pages of a cache, above whose page P shows the keys  *)
(* kp instead of its own.                                                  *)

Shows(t, P, kp) == [q \in DOMAIN t.page |-> IF q = P THEN kp ELSE t.page[q].keys]

HeldIn(t, P, kp) == Held(InTree(t, {}), Shows(t, P, kp))

\* P is neither p nor a child of p.
Aside(t, p, P) == P # p /\ \A j \in DOMAIN t.page[p].children : Child(t, p, j) # P

\* P is as it was.
Spared(t, s, P, may, may1) ==
    P \in InTree(t, {}) =>
        P \in InTree(s, {}) /\ s.page[P].keys = t.page[P].keys /\ may1[P] = may[P]

\* The keys are elsewhere, but all are there, in order, and page p is on its
\* level and may hold what it might.
Moved(t, s, r, p, P, kp, level, may, may1) ==
    /\ Arranged(s, r, Shows(s, P, kp), may1)
    /\ HeldIn(s, P, kp) = HeldIn(t, P, kp)
    /\ p \in InTree(s, {}) /\ may1[p] = may[p]
    /\ Spared(t, s, P, may, may1)
    /\ \A by1, at1, level1 : SoundBy(s, r, {}, by1, at1, level1) => level1[p] = level[p]

\* The keys shown are keys.
LEMMA ShowsTyped ==
  ASSUME NEW s \in Cache, NEW P, NEW kp,
         P \in InTree(s, {}) => kp \in Seq(Int) /\ Len(kp) = KeyCount(s, P)
  PROVE  \A q \in InTree(s, {}) : /\ Shows(s, P, kp)[q] \in Seq(Int)
                                  /\ Len(Shows(s, P, kp)[q]) = KeyCount(s, q)
<1> SUFFICES ASSUME NEW q \in InTree(s, {})
             PROVE  Shows(s, P, kp)[q] \in Seq(Int) /\ Len(Shows(s, P, kp)[q]) = KeyCount(s, q)
  OBVIOUS
<1>1. q \in DOMAIN s.page
  BY DEF InTree
<1>2. Shows(s, P, kp)[q] = IF q = P THEN kp ELSE s.page[q].keys
  BY <1>1 DEF Shows
<1>3. s.page[q].keys \in Seq(Int)
  BY <1>1, PagesOf
<1>4. QED
  BY <1>2, <1>3 DEF KeyCount

LEMMA ArrangedIs ==
  ASSUME NEW t, NEW r, NEW keys, NEW may
  PROVE  Arranged(t, r, keys, may) <=>
            /\ Placed(InTree(t, {}), r, Kids(t), keys, may)
            /\ \A q \in InTree(t, {}) : keys[q] \in Seq(Int) /\ Len(keys[q]) = KeyCount(t, q)
  BY Zenon DEF Arranged

LEMMA ShowsElsewhere ==
  ASSUME NEW t, NEW P, NEW kp, NEW q \in DOMAIN t.page, q # P
  PROVE  Shows(t, P, kp)[q] = t.page[q].keys
  BY DEF Shows

LEMMA ShowsThere ==
  ASSUME NEW t, NEW P, NEW kp, P \in DOMAIN t.page
  PROVE  Shows(t, P, kp)[P] = kp
  BY DEF Shows

\* A page that has children next to each other.
LEMMA PairAbove ==
  ASSUME NEW t \in Cache, NEW r, NEW by, NEW at, NEW level,
         SoundBy(t, r, {}, by, at, level), NEW p \in InTree(t, {}),
         NEW j \in DOMAIN t.page[p].children, j + 1 \in DOMAIN t.page[p].children
  PROVE  /\ p \in DOMAIN t.page /\ t.page[p].keys \in Seq(Int) /\ t.page[p].children \in Seq(Nat)
         /\ Len(t.page[p].children) = Len(t.page[p].keys) + 1
         /\ j \in DOMAIN t.page[p].keys /\ j \in Nat
         /\ Kids(t)[p] = t.page[p].children
         /\ ArePair(t, r, level, p, Child(t, p, j), Child(t, p, j + 1))
<1>1. p \in DOMAIN t.page /\ Fits(t, r, p) /\ Kids(t)[p] = t.page[p].children
  BY PageFits
<1>2. t.page[p].keys \in Seq(Int) /\ t.page[p].children \in Seq(Nat)
  BY <1>1, PagesOf
<1>3. Len(t.page[p].children) = Len(t.page[p].keys) + 1
  <2>1. t.page[p].kind = "internal"
    BY ChildFits
  <2>2. QED
    BY <2>1, <1>1 DEF Fits
<1>4. j \in DOMAIN t.page[p].keys /\ j \in Nat
  <2> DEFINE ks == t.page[p].keys
             cs == t.page[p].children
  <2>1. /\ Len(ks) \in Nat /\ DOMAIN ks = 1..Len(ks) /\ DOMAIN cs = 1..Len(cs)
        /\ Len(cs) = Len(ks) + 1
    BY <1>2, <1>3
  <2>2. j \in DOMAIN cs /\ j + 1 \in DOMAIN cs
    OBVIOUS
  <2> HIDE DEF ks, cs
  <2>3. j \in 1..Len(ks)
    BY <2>1, <2>2
  <2>4. j \in DOMAIN ks
    BY <2>1, <2>3
  <2>5. QED
    BY <2>3, <2>4 DEF ks
<1>5. ArePair(t, r, level, p, Child(t, p, j), Child(t, p, j + 1))
  <2> DEFINE e == j + 1
  <2>1. e \in DOMAIN t.page[p].children /\ j # e
    BY <1>4
  <2> HIDE DEF e
  <2>2. ArePair(t, r, level, p, Child(t, p, j), Child(t, p, e))
    BY <2>1, Siblings
  <2>3. QED
    BY <2>2 DEF e
<1>6. QED
  BY <1>1, <1>2, <1>3, <1>4, <1>5

LEMMA BesideIs ==
  ASSUME NEW t \in Cache, NEW r, NEW by, NEW at, NEW level,
         SoundBy(t, r, {}, by, at, level), NEW p \in InTree(t, {}),
         NEW j \in DOMAIN t.page[p].children, j + 1 \in DOMAIN t.page[p].children,
         NEW P, NEW kp, Aside(t, p, P)
  PROVE  Beside(InTree(t, {}), Kids(t), Shows(t, P, kp), p, j, Child(t, p, j),
                t.page[p].keys[j], Child(t, p, j + 1))
<1> DEFINE l == Child(t, p, j)
           c == Child(t, p, j + 1)
           T == InTree(t, {})
           kids == Kids(t)
           keys == Shows(t, P, kp)
<1>1. /\ p \in DOMAIN t.page /\ t.page[p].keys \in Seq(Int) /\ t.page[p].children \in Seq(Nat)
      /\ Len(t.page[p].children) = Len(t.page[p].keys) + 1
      /\ j \in DOMAIN t.page[p].keys /\ kids[p] = t.page[p].children
      /\ ArePair(t, r, level, p, l, c)
  BY PairAbove
<1>2. p # P /\ l # P /\ c # P
  BY DEF Aside
<1>3. l \in DOMAIN t.page /\ c \in DOMAIN t.page
  BY <1>1 DEF ArePair
<1>4. keys[p] = t.page[p].keys /\ keys[l] = t.page[l].keys /\ keys[c] = t.page[c].keys
      /\ kids[l] = t.page[l].children /\ kids[c] = t.page[c].children
  BY <1>1, <1>2, <1>3, ShowsElsewhere DEF Kids
<1>5. /\ keys[l] \in Seq(Int) /\ keys[c] \in Seq(Int)
      /\ kids[l] \in Seq(Nat) /\ kids[c] \in Seq(Nat)
  BY <1>3, <1>4, PagesOf
<1>6. Paired(keys[l], kids[l], keys[c], kids[c])
  <2>1. \/ kids[l] = <<>> /\ kids[c] = <<>>
        \/ Len(kids[l]) = Len(keys[l]) + 1 /\ Len(kids[c]) = Len(keys[c]) + 1
    BY <1>1, <1>4 DEF ArePair
  <2> HIDE DEF l, c, kids, keys
  <2>2. QED
    BY <2>1 DEF Paired
<1>7. l = kids[p][j] /\ c = kids[p][j + 1]
  BY <1>1 DEF Child
<1>8. QED
  <2> HIDE DEF l, c, kids, keys, T
  <2>1. p \in T
    BY DEF T
  <2>2. Beside(T, kids, keys, p, j, l, t.page[p].keys[j], c)
    BY <1>1, <1>4, <1>5, <1>6, <1>7, <2>1, Zenon DEF Beside
  <2>3. QED
    BY <2>2 DEF T, l, c, kids, keys

\* The names of the cache afterwards: page p is on its level.
LEMMA SoundLeveled ==
  ASSUME NEW s \in Cache, NEW r, NEW by, NEW at, NEW level, SoundBy(s, r, {}, by, at, level)
  PROVE  Leveled(InTree(s, {}), Kids(s), level)
<1> SUFFICES ASSUME NEW q \in InTree(s, {})
             PROVE  /\ level[q] \in Nat /\ Kids(s)[q] \in Seq(Nat)
                    /\ level[q] = 0 <=> Kids(s)[q] = <<>>
                    /\ \A j \in DOMAIN Kids(s)[q] : /\ Kids(s)[q][j] \in InTree(s, {})
                                                    /\ level[Kids(s)[q][j]] + 1 = level[q]
  BY DEF Leveled
<1>1. q \in DOMAIN s.page /\ s.page[q].kind \in {"leaf", "internal"} /\ Fits(s, r, q)
      /\ Kids(s)[q] = s.page[q].children /\ level[q] \in Nat
  BY PageFits
<1>2. s.page[q].children \in Seq(Nat) /\ s.page[q].keys \in Seq(Int)
  BY <1>1, PagesOf
<1>3. s.page[q].kind = "leaf" <=> level[q] = 0
  BY LeavesAtBottom
<1>4. \A j \in DOMAIN s.page[q].children :
         Child(s, q, j) \in InTree(s, {}) /\ level[Child(s, q, j)] + 1 = level[q]
  BY ChildFits
<1>5. s.page[q].kind = "internal" => s.page[q].children # <<>>
  <2> DEFINE ks == s.page[q].keys
             cs == s.page[q].children
  <2>1. s.page[q].kind = "internal" => Len(cs) = Len(ks) + 1
    BY <1>1 DEF Fits
  <2>2. Len(ks) \in Nat /\ Len(<<>>) = 0
    BY <1>2
  <2> HIDE DEF ks, cs
  <2>3. s.page[q].kind = "internal" => cs # <<>>
    BY <2>1, <2>2
  <2>4. QED
    BY <2>3 DEF cs
<1>6. s.page[q].kind = "leaf" => s.page[q].children = <<>>
  BY <1>1 DEF Fits
<1>7. QED
  BY <1>1, <1>2, <1>3, <1>4, <1>5, <1>6 DEF Child

\* The keys shown at P are keys afterwards, if they were before.
LEMMA ShownStays ==
  ASSUME NEW t \in Cache, NEW r, NEW P, NEW kp, NEW may, Arranged(t, r, Shows(t, P, kp), may),
         NEW s \in Cache, P \in InTree(s, {}) => P \in InTree(t, {}),
         P \in InTree(t, {}) => s.page[P].keys = t.page[P].keys
  PROVE  \A q \in InTree(s, {}) : /\ Shows(s, P, kp)[q] \in Seq(Int)
                                  /\ Len(Shows(s, P, kp)[q]) = KeyCount(s, q)
<1>1. ASSUME P \in InTree(s, {}) PROVE kp \in Seq(Int) /\ Len(kp) = KeyCount(s, P)
  <2>1. P \in InTree(t, {}) /\ P \in DOMAIN t.page
    BY <1>1 DEF InTree
  <2>2. Shows(t, P, kp)[P] = kp
    BY <2>1, ShowsThere
  <2>3. Shows(t, P, kp)[P] \in Seq(Int) /\ Len(Shows(t, P, kp)[P]) = KeyCount(t, P)
    BY <2>1 DEF Arranged
  <2>4. KeyCount(s, P) = KeyCount(t, P)
    BY <2>1 DEF KeyCount
  <2>5. QED
    BY <2>2, <2>3, <2>4
<1>2. QED
  BY <1>1, ShowsTyped

LEMMA ShiftMoves ==
  ASSUME NEW t \in Cache, NEW r, NEW by, NEW at, NEW level, SoundBy(t, r, {}, by, at, level),
         NEW P, NEW kp, NEW may, Arranged(t, r, Shows(t, P, kp), may),
         NEW p, NEW j, NEW l, NEW s0, NEW c,
         Beside(InTree(t, {}), Kids(t), Shows(t, P, kp), p, j, l, s0, c),
         P \notin {p, l, c}, NEW s \in Cache, InTree(s, {}) = InTree(t, {}),
         P \in InTree(t, {}) => s.page[P].keys = t.page[P].keys, NEW s1,
         PartsAnew(InTree(t, {}), Kids(t), Shows(t, P, kp), p, j, l, s0, c, s1,
                   Kids(s), Shows(s, P, kp))
  PROVE  \E may1 : Moved(t, s, r, p, P, kp, level, may, may1)
<1> DEFINE T == InTree(t, {})
           kids == Kids(t)
           keys == Shows(t, P, kp)
           kids1 == Kids(s)
           keys1 == Shows(s, P, kp)
           k0 == RemoveAt(keys[p], j)
           c0 == RemoveAt(kids[p], j + 1)
           w == KeysInRow(keys, l, s0, c)
           cw == KidsInRow(kids, l, c)
           g == Gap(may[p], k0, j)
           may1 == [q \in T |-> IF q = l THEN Low(g, s1) ELSE IF q = c THEN High(g, s1) ELSE may[q]]
<1>1. Sorted(DOMAIN t.page, T, r, kids, keys, by, at, level, may)
  BY SortedIs
<1>2. Shifted(T, kids, keys, p, j, l, s0, c, k0, c0, w, cw, s1, kids1, keys1)
  BY BesideShifts
<1>3. \A q \in InTree(s, {}) : keys1[q] \in Seq(Int) /\ Len(keys1[q]) = KeyCount(s, q)
  BY ShownStays
<1>4. Adjoin(T, kids, keys, p, j, l, s0, c, k0, c0, w, cw)
  BY BesideAdjoins
<1>5. p \in T /\ l \in T /\ c \in T /\ l # p /\ c # p /\ l # c /\ l # r /\ c # r
  <2> HIDE DEF T, kids, keys, k0, c0, w, cw
  <2>1. p \in T
    BY <1>4 DEF Adjoin
  <2>2. QED
    BY <1>1, <1>4, <2>1, AdjoinPlaced
<1>6. /\ \A q \in T \ {l, c} : may1[q] = may[q]
      /\ may1[l] = Low(g, s1) /\ may1[c] = High(g, s1)
  <2> HIDE DEF T, g
  <2>1. QED
    BY <1>5
<1>7. Placed(T, r, kids1, keys1, may1) /\ Held(T, keys1) = Held(T, keys)
  <2> HIDE DEF T, kids, keys, k0, c0, w, cw, kids1, keys1, may1
  <2>1. QED
    BY <1>1, <1>2, <1>6, ShiftPlaced
<1>8. Arranged(s, r, keys1, may1) /\ HeldIn(s, P, kp) = HeldIn(t, P, kp)
  BY <1>3, <1>7 DEF Arranged, HeldIn
<1>9. p \in InTree(s, {}) /\ may1[p] = may[p] /\ Spared(t, s, P, may, may1)
  <2>1. P \in T => may1[P] = may[P]
    BY <1>6
  <2>2. QED
    BY <2>1, <1>5, <1>6 DEF Spared
<1>10. ASSUME NEW by1, NEW at1, NEW level1, SoundBy(s, r, {}, by1, at1, level1)
       PROVE  level1[p] = level[p]
  <2>1. Leveled(T, kids1, level1)
    BY <1>10, SoundLeveled
  <2> HIDE DEF T, kids, keys, k0, c0, w, cw, kids1, keys1, may1
  <2>2. QED
    BY <1>1, <1>2, <2>1, ShiftLevel
<1>11. Moved(t, s, r, p, P, kp, level, may, may1)
  <2> HIDE DEF may1
  <2>1. QED
    BY <1>8, <1>9, <1>10 DEF Moved
<1>12. QED
  BY <1>11

LEMMA MergeMoves ==
  ASSUME NEW t \in Cache, NEW r, NEW by, NEW at, NEW level, SoundBy(t, r, {}, by, at, level),
         NEW P, NEW kp, NEW may, Arranged(t, r, Shows(t, P, kp), may),
         NEW p, NEW j, NEW l, NEW s0, NEW c,
         Beside(InTree(t, {}), Kids(t), Shows(t, P, kp), p, j, l, s0, c),
         P \notin {p, l, c}, NEW s \in Cache, InTree(s, {}) = InTree(t, {}) \ {c},
         P \in InTree(t, {}) => s.page[P].keys = t.page[P].keys,
         Merged(InTree(t, {}), Kids(t), Shows(t, P, kp), p, j, l, s0, c,
                Kids(s), Shows(s, P, kp))
  PROVE  \E may1 : Moved(t, s, r, p, P, kp, level, may, may1)
<1> DEFINE T == InTree(t, {})
           kids == Kids(t)
           keys == Shows(t, P, kp)
           kids1 == Kids(s)
           keys1 == Shows(s, P, kp)
           k0 == keys1[p]
           c0 == kids1[p]
           w == keys1[l]
           cw == kids1[l]
           g == Gap(may[p], k0, j)
           may1 == [q \in T |-> IF q = l THEN g ELSE may[q]]
<1>1. Sorted(DOMAIN t.page, T, r, kids, keys, by, at, level, may)
  BY SortedIs
<1>2. Merged(T, kids, keys, p, j, l, s0, c, kids1, keys1)
  OBVIOUS
<1>3. \A q \in InTree(s, {}) : keys1[q] \in Seq(Int) /\ Len(keys1[q]) = KeyCount(s, q)
  BY ShownStays
<1>4. Adjoin(T, kids, keys, p, j, l, s0, c, k0, c0, w, cw)
  BY <1>2 DEF Merged
<1>5. p \in T /\ l \in T /\ c \in T /\ l # p /\ c # p /\ l # c /\ l # r /\ c # r
  <2> HIDE DEF T, kids, keys, k0, c0, w, cw
  <2>1. p \in T
    BY <1>4 DEF Adjoin
  <2>2. QED
    BY <1>1, <1>4, <2>1, AdjoinPlaced
<1>6. (\A q \in T \ {l} : may1[q] = may[q]) /\ may1[l] = Gap(may[p], keys1[p], j)
  <2>1. \A q \in T : may1[q] = IF q = l THEN g ELSE may[q]
    OBVIOUS
  <2>2. g = Gap(may[p], keys1[p], j)
    OBVIOUS
  <2> HIDE DEF T, g, may1, keys1
  <2>3. QED
    BY <1>5, <2>1, <2>2
<1>7. Placed(T \ {c}, r, kids1, keys1, may1) /\ Held(T \ {c}, keys1) = Held(T, keys)
  <2> HIDE DEF T, kids, keys, k0, c0, w, cw, kids1, keys1, may1
  <2>1. QED
    BY <1>1, <1>2, <1>6, MergePlaced
<1>8. Arranged(s, r, keys1, may1) /\ HeldIn(s, P, kp) = HeldIn(t, P, kp)
  BY <1>3, <1>7 DEF Arranged, HeldIn
<1>9. p \in InTree(s, {}) /\ may1[p] = may[p] /\ Spared(t, s, P, may, may1)
  <2>1. P \in T => may1[P] = may[P] /\ P \in InTree(s, {})
    BY <1>6
  <2>2. QED
    BY <2>1, <1>5, <1>6 DEF Spared
<1>10. ASSUME NEW by1, NEW at1, NEW level1, SoundBy(s, r, {}, by1, at1, level1)
       PROVE  level1[p] = level[p]
  <2>1. Leveled(T \ {c}, kids1, level1)
    BY <1>10, SoundLeveled
  <2> HIDE DEF T, kids, keys, k0, c0, w, cw, kids1, keys1, may1
  <2>2. QED
    BY <1>1, <1>2, <2>1, MergeLevel
<1>11. Moved(t, s, r, p, P, kp, level, may, may1)
  <2> HIDE DEF may1
  <2>1. QED
    BY <1>8, <1>9, <1>10 DEF Moved
<1>12. QED
  BY <1>11

LEMMA SplitMoves ==
  ASSUME NEW t \in Cache, NEW r, NEW by, NEW at, NEW level, SoundBy(t, r, {}, by, at, level),
         NEW P, NEW kp, NEW may, Arranged(t, r, Shows(t, P, kp), may),
         NEW p, NEW i, NEW c, NEW s0, NEW n,
         P \notin {p, c, n}, NEW s \in Cache, InTree(s, {}) = InTree(t, {}) \cup {n},
         P \in InTree(t, {}) => s.page[P].keys = t.page[P].keys,
         Splits(InTree(t, {}), Kids(t), Shows(t, P, kp), p, i, c, s0, n,
                Kids(s), Shows(s, P, kp))
  PROVE  \E may1 : Moved(t, s, r, p, P, kp, level, may, may1)
<1> DEFINE T == InTree(t, {})
           kids == Kids(t)
           keys == Shows(t, P, kp)
           kids1 == Kids(s)
           keys1 == Shows(s, P, kp)
           may1 == [q \in T \cup {n} |-> IF q = c THEN Low(may[c], s0)
                                        ELSE IF q = n THEN High(may[c], s0) ELSE may[q]]
<1>1. Sorted(DOMAIN t.page, T, r, kids, keys, by, at, level, may)
  BY SortedIs
<1>2. Splits(T, kids, keys, p, i, c, s0, n, kids1, keys1)
  OBVIOUS
<1>3. \A q \in InTree(s, {}) : keys1[q] \in Seq(Int) /\ Len(keys1[q]) = KeyCount(s, q)
  BY ShownStays
<1>5. p \in T /\ c \in T /\ c # p /\ n \notin T
  <2> HIDE DEF T, kids, keys, kids1, keys1
  <2>1. p \in T /\ i \in DOMAIN kids[p] /\ c = kids[p][i] /\ n \notin T
    BY <1>2 DEF Splits
  <2>2. QED
    BY <1>1, <2>1, SortedPage
<1>6. /\ \A q \in T \ {c} : may1[q] = may[q]
      /\ may1[c] = Low(may[c], s0) /\ may1[n] = High(may[c], s0)
  <2> HIDE DEF T
  <2>1. QED
    BY <1>5
<1>7. Placed(T \cup {n}, r, kids1, keys1, may1) /\ Held(T \cup {n}, keys1) = Held(T, keys)
  <2> HIDE DEF T, kids, keys, kids1, keys1, may1
  <2>1. QED
    BY <1>1, <1>2, <1>6, SplitPlaced
<1>8. Arranged(s, r, keys1, may1) /\ HeldIn(s, P, kp) = HeldIn(t, P, kp)
  BY <1>3, <1>7 DEF Arranged, HeldIn
<1>9. p \in InTree(s, {}) /\ may1[p] = may[p] /\ Spared(t, s, P, may, may1)
  <2>1. P \in T => may1[P] = may[P] /\ P \in InTree(s, {})
    BY <1>6
  <2>2. QED
    BY <2>1, <1>5, <1>6 DEF Spared
<1>10. ASSUME NEW by1, NEW at1, NEW level1, SoundBy(s, r, {}, by1, at1, level1)
       PROVE  level1[p] = level[p]
  <2>1. Leveled(T \cup {n}, kids1, level1)
    BY <1>10, SoundLeveled
  <2> HIDE DEF T, kids, keys, kids1, keys1, may1
  <2>2. QED
    BY <1>1, <1>2, <2>1, SplitLevel
<1>11. Moved(t, s, r, p, P, kp, level, may, may1)
  <2> HIDE DEF may1
  <2>1. QED
    BY <1>8, <1>9, <1>10 DEF Moved
<1>12. QED
  BY <1>11

\* Three pages of the tree are rewritten: what is shown of the others stays.
LEMMA RewriteShows ==
  ASSUME NEW t \in Cache, NEW s, NEW a, NEW ka, NEW ca, NEW b, NEW kb, NEW cb, NEW c, NEW kc, NEW cc,
         Rewrites(t, a, ka, ca, b, kb, cb, c, kc, cc, s),
         a \in DOMAIN t.page, b \in DOMAIN t.page, c \in DOMAIN t.page,
         NEW P, NEW kp, P \notin {a, b, c}
  PROVE  /\ s \in Cache /\ DOMAIN s.page = DOMAIN t.page /\ InTree(s, {}) = InTree(t, {})
         /\ P \in InTree(t, {}) => s.page[P].keys = t.page[P].keys
         /\ Shows(s, P, kp)[a] = ka /\ Shows(s, P, kp)[b] = kb /\ Shows(s, P, kp)[c] = kc
         /\ Kids(s)[a] = ca /\ Kids(s)[b] = cb /\ Kids(s)[c] = cc
         /\ s.page[a].keys = ka /\ s.page[b].keys = kb /\ s.page[c].keys = kc
         /\ s.page[a].children = ca /\ s.page[b].children = cb /\ s.page[c].children = cc
         /\ \A q \in InTree(t, {}) \ {a, b, c} : /\ Kids(s)[q] = Kids(t)[q]
                                                 /\ Shows(s, P, kp)[q] = Shows(t, P, kp)[q]
<1>1. /\ s \in Cache /\ DOMAIN s.page = DOMAIN t.page
      /\ s.page[a].keys = ka /\ s.page[a].children = ca
      /\ s.page[b].keys = kb /\ s.page[b].children = cb
      /\ s.page[c].keys = kc /\ s.page[c].children = cc
      /\ \A q \in {a, b, c} : s.page[q].kind = t.page[q].kind
      /\ \A q \in DOMAIN t.page \ {a, b, c} : s.page[q] = t.page[q]
  BY DEF Rewrites
<1>2. InTree(s, {}) = InTree(t, {})
  <2>1. \A q \in DOMAIN t.page \ {} : s.page[q].kind = t.page[q].kind
    BY <1>1
  <2>2. QED
    BY <1>1, <2>1, SameKinds
<1>3. P \in InTree(t, {}) => s.page[P].keys = t.page[P].keys
  BY <1>1 DEF InTree
<1>4. Shows(s, P, kp)[a] = ka /\ Shows(s, P, kp)[b] = kb /\ Shows(s, P, kp)[c] = kc
  BY <1>1, ShowsElsewhere
<1>5. Kids(s)[a] = ca /\ Kids(s)[b] = cb /\ Kids(s)[c] = cc
  BY <1>1 DEF Kids
<1>6. ASSUME NEW q \in InTree(t, {}) \ {a, b, c}
      PROVE  Kids(s)[q] = Kids(t)[q] /\ Shows(s, P, kp)[q] = Shows(t, P, kp)[q]
  <2>1. q \in DOMAIN t.page /\ q \in DOMAIN s.page /\ s.page[q] = t.page[q]
    BY <1>1 DEF InTree
  <2>2. Kids(s)[q] = Kids(t)[q]
    BY <2>1 DEF Kids
  <2>3. Shows(s, P, kp)[q] = Shows(t, P, kp)[q]
    BY <2>1 DEF Shows
  <2>4. QED
    BY <2>2, <2>3
<1>7. QED
  BY <1>1, <1>2, <1>3, <1>4, <1>5, <1>6

LEMMA BorrowPrevMoves ==
  ASSUME NEW t \in Cache, NEW r, NEW by, NEW at, NEW level, SoundBy(t, r, {}, by, at, level),
         NEW P, NEW kp, NEW may, Arranged(t, r, Shows(t, P, kp), may),
         NEW p \in InTree(t, {}), Aside(t, p, P),
         NEW i \in DOMAIN t.page[p].children, i - 1 \in DOMAIN t.page[p].children,
         KeyCount(t, Child(t, p, i - 1)) >= MinDegree
  PROVE  LET s == BorrowFromPrev(t, p, i)
         IN  /\ \E may1 : Moved(t, s, r, p, P, kp, level, may, may1)
             /\ s.page[p].keys = [t.page[p].keys EXCEPT
                                    ![i - 1] = Last(t.page[Child(t, p, i - 1)].keys)]
             /\ s.page[p].children = t.page[p].children
<1>1. i \in Nat /\ (i - 1) + 1 = i
  <2>1. t.page[p].children \in Seq(Nat)
    BY PagesOf DEF InTree
  <2>2. i \in Nat
    BY <2>1
  <2>3. QED
    BY <2>2
<1> DEFINE j == i - 1
<1>2. j \in DOMAIN t.page[p].children /\ j + 1 \in DOMAIN t.page[p].children /\ j + 1 = i
  BY <1>1
<1> HIDE DEF j
<1> DEFINE l == Child(t, p, j)
           c == Child(t, p, i)
           x == t.page[l]
           y == t.page[c]
           kt == t.page[p].keys
           ct == t.page[p].children
           s0 == kt[j]
           s1 == Last(x.keys)
           moved == IF IsLeaf(t, l) THEN <<>> ELSE <<Last(x.children)>>
           s == BorrowFromPrev(t, p, i)
           T == InTree(t, {})
           kids == Kids(t)
           keys == Shows(t, P, kp)
           kids1 == Kids(s)
           keys1 == Shows(s, P, kp)
<1>3. Beside(T, kids, keys, p, j, l, s0, c)
  BY <1>2, BesideIs
<1>4. /\ p \in DOMAIN t.page /\ kt \in Seq(Int) /\ ct \in Seq(Nat) /\ j \in DOMAIN kt
      /\ ArePair(t, r, level, p, l, c)
  BY <1>2, PairAbove
<1>5. /\ l \in DOMAIN t.page /\ c \in DOMAIN t.page /\ l # c /\ p # l /\ p # c
      /\ x.kind = "leaf" => x.children = <<>> /\ y.children = <<>>
      /\ x.kind \in {"leaf", "internal"}
      /\ x.kind = "internal" => Len(x.children) = Len(x.keys) + 1
  BY <1>4 DEF ArePair
<1>6. x.keys \in Seq(Int) /\ x.children \in Seq(Nat) /\ y.children \in Seq(Nat)
      /\ x.keys # <<>> /\ (x.kind = "internal" => x.children # <<>>)
      /\ (IsLeaf(t, l) <=> x.kind = "leaf")
  <2>1. x.keys \in Seq(Int) /\ x.children \in Seq(Nat) /\ y.children \in Seq(Nat)
    BY <1>5, PagesOf
  <2>2. Len(x.keys) >= MinDegree /\ MinDegree >= 2 /\ MinDegree \in Nat
    BY BTreeAssumption DEF KeyCount, j
  <2>3. IsLeaf(t, l) <=> x.kind = "leaf"
    BY DEF IsLeaf
  <2> DEFINE xk == x.keys
             xc == x.children
  <2>4. xk \in Seq(Int) /\ xc \in Seq(Nat) /\ Len(xk) >= MinDegree
        /\ (x.kind = "internal" => Len(xc) = Len(xk) + 1)
    BY <1>5, <2>1, <2>2
  <2> HIDE DEF xk, xc
  <2>5. xk # <<>> /\ (x.kind = "internal" => xc # <<>>)
    <3>1. Len(<<>>) = 0 /\ Len(xk) \in Nat
      BY <2>4
    <3>2. QED
      BY <3>1, <2>2, <2>4
  <2>6. QED
    BY <2>1, <2>3, <2>5 DEF xk, xc
<1>7. Rewrites(t, c, <<s0>> \o y.keys, moved \o y.children, p, [kt EXCEPT ![j] = s1], ct,
               l, Front(x.keys), SubSeq(x.children, 1, Len(x.children) - Len(moved)), s)
  <2>1. /\ i \in Nat /\ i - 1 \in DOMAIN t.page[p].keys /\ l = Child(t, p, i - 1)
        /\ IsLeaf(t, l) \/ t.page[l].children # <<>>
    BY <1>1, <1>4, <1>5, <1>6 DEF j
  <2>2. /\ p \in DOMAIN t.page /\ c \in DOMAIN t.page /\ l \in DOMAIN t.page
        /\ p # c /\ p # l /\ c # l /\ t.page[l].keys # <<>>
    BY <1>4, <1>5, <1>6
  <2> HIDE DEF l
  <2>3. QED
    BY <2>1, <2>2, BorrowingPrev DEF j
<1>8. P \notin {p, l, c}
  BY <1>2 DEF Aside
<1>9. /\ s \in Cache /\ DOMAIN s.page = DOMAIN t.page /\ InTree(s, {}) = T
      /\ P \in T => s.page[P].keys = t.page[P].keys
      /\ keys1[c] = <<s0>> \o y.keys /\ keys1[p] = [kt EXCEPT ![j] = s1] /\ keys1[l] = Front(x.keys)
      /\ kids1[c] = moved \o y.children /\ kids1[p] = ct
      /\ kids1[l] = SubSeq(x.children, 1, Len(x.children) - Len(moved))
      /\ s.page[p].keys = [kt EXCEPT ![j] = s1] /\ s.page[p].children = ct
      /\ \A q \in T \ {c, p, l} : kids1[q] = kids[q] /\ keys1[q] = keys[q]
  <2> DEFINE ka == <<s0>> \o y.keys
             ca == moved \o y.children
             kb == [kt EXCEPT ![j] = s1]
             kc == Front(x.keys)
             cc == SubSeq(x.children, 1, Len(x.children) - Len(moved))
  <2>1. Rewrites(t, c, ka, ca, p, kb, ct, l, kc, cc, s) /\ P \notin {c, p, l}
    BY <1>7, <1>8
  <2> HIDE DEF ka, ca, kb, ct, kc, cc, s, c, l
  <2>2. /\ s \in Cache /\ DOMAIN s.page = DOMAIN t.page /\ InTree(s, {}) = InTree(t, {})
        /\ P \in InTree(t, {}) => s.page[P].keys = t.page[P].keys
        /\ Shows(s, P, kp)[c] = ka /\ Shows(s, P, kp)[p] = kb /\ Shows(s, P, kp)[l] = kc
        /\ Kids(s)[c] = ca /\ Kids(s)[p] = ct /\ Kids(s)[l] = cc
        /\ s.page[c].keys = ka /\ s.page[p].keys = kb /\ s.page[l].keys = kc
        /\ s.page[c].children = ca /\ s.page[p].children = ct /\ s.page[l].children = cc
        /\ \A q \in InTree(t, {}) \ {c, p, l} : /\ Kids(s)[q] = Kids(t)[q]
                                                /\ Shows(s, P, kp)[q] = Shows(t, P, kp)[q]
    BY <2>1, <1>4, <1>5, RewriteShows
  <2>3. QED
    BY <2>2 DEF ka, ca, kb, kc, cc
<1>10. /\ keys[l] = x.keys /\ keys[c] = y.keys /\ keys[p] = kt
       /\ kids[l] = x.children /\ kids[c] = y.children /\ kids[p] = ct
  BY <1>4, <1>5, <1>8, ShowsElsewhere DEF Kids
<1>11. PartsAnew(T, kids, keys, p, j, l, s0, c, s1, kids1, keys1)
  <2>1. /\ kids[l] = <<>> => kids1[l] = <<>> /\ kids1[c] = <<>>
        /\ kids[l] # <<>> => /\ kids1[l] = SubSeq(kids[l], 1, Len(kids[l]) - 1)
                             /\ kids1[c] = <<Last(kids[l])>> \o kids[c]
    <3> DEFINE xc == x.children
               yc == y.children
    <3>0. kids1[c] = moved \o yc /\ kids1[l] = SubSeq(xc, 1, Len(xc) - Len(moved))
          /\ kids[l] = xc /\ kids[c] = yc /\ xc \in Seq(Nat) /\ yc \in Seq(Nat)
      BY <1>6, <1>9, <1>10
    <3>1. CASE x.kind = "leaf"
      <4>1. moved = <<>> /\ xc = <<>> /\ yc = <<>>
        BY <3>1, <1>5, <1>6
      <4> HIDE DEF moved, kids1, kids, xc, yc, l, c
      <4>2. kids1[c] = <<>> \o <<>> /\ kids1[l] = SubSeq(<<>>, 1, Len(<<>>) - Len(<<>>)) /\ kids[l] = <<>>
        BY <3>0, <4>1
      <4>3. <<>> \o <<>> = <<>> /\ SubSeq(<<>>, 1, Len(<<>>) - Len(<<>>)) = <<>>
        OBVIOUS
      <4>4. QED
        BY <4>2, <4>3
    <3>2. CASE x.kind = "internal"
      <4>1. moved = <<Last(xc)>> /\ xc # <<>>
        BY <3>2, <1>6
      <4>2. Len(<<Last(xc)>>) = 1
        OBVIOUS
      <4>3. Len(moved) = 1
        BY <4>1, <4>2
      <4> HIDE DEF moved, kids1, kids, xc, yc, l, c
      <4>4. QED
        BY <3>0, <4>1, <4>3
    <3>3. QED
      BY <3>1, <3>2, <1>5
  <2>2. keys[l] # <<>> /\ keys1[l] = Front(keys[l]) /\ keys1[c] = <<s0>> \o keys[c]
        /\ keys1[p] = [keys[p] EXCEPT ![j] = Last(keys[l])] /\ kids1[p] = kids[p]
        /\ s1 = Last(keys[l])
        /\ \A q \in T \ {p, l, c} : kids1[q] = kids[q] /\ keys1[q] = keys[q]
    BY <1>6, <1>9, <1>10
  <2>3. PartsAnew(T, kids, keys, p, j, l, s0, c, Last(keys[l]), kids1, keys1)
    <3> HIDE DEF T, kids, keys, l, s0, c, kids1, keys1, s1
    <3>1. QED
      BY <1>3, <2>1, <2>2, GivesLeft
  <2>4. QED
    BY <2>2, <2>3
<1>12. \E may1 : Moved(t, s, r, p, P, kp, level, may, may1)
  <2> HIDE DEF s, l, c, s0, s1
  <2>1. QED
    BY <1>3, <1>8, <1>9, <1>11, ShiftMoves
<1>13. s.page[p].keys = [t.page[p].keys EXCEPT ![i - 1] = Last(t.page[Child(t, p, i - 1)].keys)]
       /\ s.page[p].children = t.page[p].children
  BY <1>9 DEF j
<1>14. QED
  BY <1>12, <1>13

LEMMA BorrowNextMoves ==
  ASSUME NEW t \in Cache, NEW r, NEW by, NEW at, NEW level, SoundBy(t, r, {}, by, at, level),
         NEW P, NEW kp, NEW may, Arranged(t, r, Shows(t, P, kp), may),
         NEW p \in InTree(t, {}), Aside(t, p, P),
         NEW j \in DOMAIN t.page[p].children, j + 1 \in DOMAIN t.page[p].children,
         KeyCount(t, Child(t, p, j + 1)) >= MinDegree
  PROVE  LET s == BorrowFromNext(t, p, j)
         IN  /\ \E may1 : Moved(t, s, r, p, P, kp, level, may, may1)
             /\ s.page[p].keys = [t.page[p].keys EXCEPT
                                    ![j] = Head(t.page[Child(t, p, j + 1)].keys)]
             /\ s.page[p].children = t.page[p].children
<1> DEFINE l == Child(t, p, j)
           c == Child(t, p, j + 1)
           x == t.page[c]
           y == t.page[l]
           kt == t.page[p].keys
           ct == t.page[p].children
           s0 == kt[j]
           s1 == Head(x.keys)
           moved == IF IsLeaf(t, c) THEN <<>> ELSE <<Head(x.children)>>
           s == BorrowFromNext(t, p, j)
           T == InTree(t, {})
           kids == Kids(t)
           keys == Shows(t, P, kp)
           kids1 == Kids(s)
           keys1 == Shows(s, P, kp)
<1>3. Beside(T, kids, keys, p, j, l, s0, c)
  BY BesideIs
<1>4. /\ p \in DOMAIN t.page /\ kt \in Seq(Int) /\ ct \in Seq(Nat) /\ j \in DOMAIN kt
      /\ ArePair(t, r, level, p, l, c) /\ j \in Nat
  BY PairAbove
<1>5. /\ l \in DOMAIN t.page /\ c \in DOMAIN t.page /\ l # c /\ p # l /\ p # c
      /\ x.kind = "leaf" => x.children = <<>> /\ y.children = <<>>
      /\ x.kind \in {"leaf", "internal"}
      /\ x.kind = "internal" => Len(x.children) = Len(x.keys) + 1
  BY <1>4 DEF ArePair
<1>6. x.keys \in Seq(Int) /\ x.children \in Seq(Nat) /\ y.children \in Seq(Nat)
      /\ x.keys # <<>> /\ (x.kind = "internal" => x.children # <<>>)
      /\ (IsLeaf(t, c) <=> x.kind = "leaf")
  <2>1. x.keys \in Seq(Int) /\ x.children \in Seq(Nat) /\ y.children \in Seq(Nat)
    BY <1>5, PagesOf
  <2>2. Len(x.keys) >= MinDegree /\ MinDegree >= 2 /\ MinDegree \in Nat
    BY BTreeAssumption DEF KeyCount
  <2>3. IsLeaf(t, c) <=> x.kind = "leaf"
    BY DEF IsLeaf
  <2> DEFINE xk == x.keys
             xc == x.children
  <2>4. xk \in Seq(Int) /\ xc \in Seq(Nat) /\ Len(xk) >= MinDegree
        /\ (x.kind = "internal" => Len(xc) = Len(xk) + 1)
    BY <1>5, <2>1, <2>2
  <2> HIDE DEF xk, xc
  <2>5. xk # <<>> /\ (x.kind = "internal" => xc # <<>>)
    <3>1. Len(<<>>) = 0 /\ Len(xk) \in Nat
      BY <2>4
    <3>2. QED
      BY <3>1, <2>2, <2>4
  <2>6. QED
    BY <2>1, <2>3, <2>5 DEF xk, xc
<1>7. Rewrites(t, l, Append(y.keys, s0), y.children \o moved, p, [kt EXCEPT ![j] = s1], ct,
               c, Tail(x.keys), SubSeq(x.children, Len(moved) + 1, Len(x.children)), s)
  <2>1. /\ j \in Nat /\ j \in DOMAIN t.page[p].keys
        /\ IsLeaf(t, c) \/ t.page[c].children # <<>>
    BY <1>4, <1>5, <1>6
  <2>2. /\ p \in DOMAIN t.page /\ c \in DOMAIN t.page /\ l \in DOMAIN t.page
        /\ p # c /\ p # l /\ c # l /\ t.page[c].keys # <<>>
    BY <1>4, <1>5, <1>6
  <2>3. QED
    BY <2>1, <2>2, BorrowingNext
<1>8. P \notin {p, l, c}
  BY DEF Aside
<1>9. /\ s \in Cache /\ DOMAIN s.page = DOMAIN t.page /\ InTree(s, {}) = T
      /\ P \in T => s.page[P].keys = t.page[P].keys
      /\ keys1[l] = Append(y.keys, s0) /\ keys1[p] = [kt EXCEPT ![j] = s1] /\ keys1[c] = Tail(x.keys)
      /\ kids1[l] = y.children \o moved /\ kids1[p] = ct
      /\ kids1[c] = SubSeq(x.children, Len(moved) + 1, Len(x.children))
      /\ s.page[p].keys = [kt EXCEPT ![j] = s1] /\ s.page[p].children = ct
      /\ \A q \in T \ {l, p, c} : kids1[q] = kids[q] /\ keys1[q] = keys[q]
  <2> DEFINE ka == Append(y.keys, s0)
             ca == y.children \o moved
             kb == [kt EXCEPT ![j] = s1]
             kc == Tail(x.keys)
             cc == SubSeq(x.children, Len(moved) + 1, Len(x.children))
  <2>1. Rewrites(t, l, ka, ca, p, kb, ct, c, kc, cc, s) /\ P \notin {l, p, c}
    BY <1>7, <1>8
  <2> HIDE DEF ka, ca, kb, ct, kc, cc, s, c, l
  <2>2. /\ s \in Cache /\ DOMAIN s.page = DOMAIN t.page /\ InTree(s, {}) = InTree(t, {})
        /\ P \in InTree(t, {}) => s.page[P].keys = t.page[P].keys
        /\ Shows(s, P, kp)[l] = ka /\ Shows(s, P, kp)[p] = kb /\ Shows(s, P, kp)[c] = kc
        /\ Kids(s)[l] = ca /\ Kids(s)[p] = ct /\ Kids(s)[c] = cc
        /\ s.page[l].keys = ka /\ s.page[p].keys = kb /\ s.page[c].keys = kc
        /\ s.page[l].children = ca /\ s.page[p].children = ct /\ s.page[c].children = cc
        /\ \A q \in InTree(t, {}) \ {l, p, c} : /\ Kids(s)[q] = Kids(t)[q]
                                                /\ Shows(s, P, kp)[q] = Shows(t, P, kp)[q]
    BY <2>1, <1>4, <1>5, RewriteShows
  <2>3. QED
    BY <2>2 DEF ka, ca, kb, kc, cc
<1>10. /\ keys[l] = y.keys /\ keys[c] = x.keys /\ keys[p] = kt
       /\ kids[l] = y.children /\ kids[c] = x.children /\ kids[p] = ct
  BY <1>4, <1>5, <1>8, ShowsElsewhere DEF Kids
<1>11. PartsAnew(T, kids, keys, p, j, l, s0, c, s1, kids1, keys1)
  <2>1. /\ kids[c] = <<>> => kids1[l] = <<>> /\ kids1[c] = <<>>
        /\ kids[c] # <<>> => /\ kids1[l] = kids[l] \o <<Head(kids[c])>>
                             /\ kids1[c] = SubSeq(kids[c], 2, Len(kids[c]))
    <3> DEFINE xc == x.children
               yc == y.children
    <3>0. kids1[l] = yc \o moved /\ kids1[c] = SubSeq(xc, Len(moved) + 1, Len(xc))
          /\ kids[c] = xc /\ kids[l] = yc /\ xc \in Seq(Nat) /\ yc \in Seq(Nat)
      BY <1>6, <1>9, <1>10
    <3>1. CASE x.kind = "leaf"
      <4>1. moved = <<>> /\ xc = <<>> /\ yc = <<>>
        BY <3>1, <1>5, <1>6
      <4> HIDE DEF moved, kids1, kids, xc, yc, l, c
      <4>2. kids1[l] = <<>> \o <<>> /\ kids1[c] = SubSeq(<<>>, Len(<<>>) + 1, Len(<<>>)) /\ kids[c] = <<>>
        BY <3>0, <4>1
      <4>3. <<>> \o <<>> = <<>> /\ SubSeq(<<>>, Len(<<>>) + 1, Len(<<>>)) = <<>>
        OBVIOUS
      <4>4. QED
        BY <4>2, <4>3
    <3>2. CASE x.kind = "internal"
      <4>1. moved = <<Head(xc)>> /\ xc # <<>>
        BY <3>2, <1>6
      <4>2. Len(<<Head(xc)>>) = 1 /\ 1 + 1 = 2
        OBVIOUS
      <4>3. Len(moved) + 1 = 2
        BY <4>1, <4>2
      <4> HIDE DEF moved, kids1, kids, xc, yc, l, c
      <4>4. QED
        BY <3>0, <4>1, <4>3
    <3>3. QED
      BY <3>1, <3>2, <1>5
  <2>2. keys[c] # <<>> /\ keys1[l] = Append(keys[l], s0) /\ keys1[c] = Tail(keys[c])
        /\ keys1[p] = [keys[p] EXCEPT ![j] = Head(keys[c])] /\ kids1[p] = kids[p]
        /\ s1 = Head(keys[c])
        /\ \A q \in T \ {p, l, c} : kids1[q] = kids[q] /\ keys1[q] = keys[q]
    BY <1>6, <1>9, <1>10
  <2>3. PartsAnew(T, kids, keys, p, j, l, s0, c, Head(keys[c]), kids1, keys1)
    <3> HIDE DEF T, kids, keys, l, s0, c, kids1, keys1, s1
    <3>1. QED
      BY <1>3, <2>1, <2>2, GivesRight
  <2>4. QED
    BY <2>2, <2>3
<1>12. \E may1 : Moved(t, s, r, p, P, kp, level, may, may1)
  <2> HIDE DEF s, l, c, s0, s1
  <2>1. QED
    BY <1>3, <1>8, <1>9, <1>11, ShiftMoves
<1>13. s.page[p].keys = [t.page[p].keys EXCEPT ![j] = Head(t.page[Child(t, p, j + 1)].keys)]
       /\ s.page[p].children = t.page[p].children
  BY <1>9
<1>14. QED
  BY <1>12, <1>13

LEMMA MergeChildrenMoves ==
  ASSUME NEW t \in Cache, NEW r, NEW by, NEW at, NEW level, SoundBy(t, r, {}, by, at, level),
         NEW P, NEW kp, NEW may, Arranged(t, r, Shows(t, P, kp), may),
         NEW p \in InTree(t, {}), Aside(t, p, P),
         NEW j \in DOMAIN t.page[p].children, j + 1 \in DOMAIN t.page[p].children
  PROVE  LET s == MergeChildren(t, p, j)
         IN  /\ \E may1 : Moved(t, s, r, p, P, kp, level, may, may1)
             /\ s.page[p].keys = RemoveAt(t.page[p].keys, j)
             /\ s.page[p].children = RemoveAt(t.page[p].children, j + 1)
<1> DEFINE l == Child(t, p, j)
           c == Child(t, p, j + 1)
           x == t.page[c]
           y == t.page[l]
           kt == t.page[p].keys
           ct == t.page[p].children
           s0 == kt[j]
           s == MergeChildren(t, p, j)
           T == InTree(t, {})
           kids == Kids(t)
           keys == Shows(t, P, kp)
           kids1 == Kids(s)
           keys1 == Shows(s, P, kp)
<1>3. Beside(T, kids, keys, p, j, l, s0, c)
  BY BesideIs
<1>4. /\ p \in DOMAIN t.page /\ kt \in Seq(Int) /\ ct \in Seq(Nat) /\ j \in DOMAIN kt
      /\ ArePair(t, r, level, p, l, c) /\ j \in Nat \ {0}
  <2>1. /\ p \in DOMAIN t.page /\ kt \in Seq(Int) /\ ct \in Seq(Nat) /\ j \in DOMAIN kt
        /\ ArePair(t, r, level, p, l, c) /\ j \in Nat
    BY PairAbove
  <2>2. j # 0
    BY <2>1
  <2>3. QED
    BY <2>1, <2>2
<1>5. /\ l \in DOMAIN t.page /\ c \in DOMAIN t.page /\ l # c /\ p # l /\ p # c
      /\ l \in T /\ c \in T
  BY <1>4 DEF ArePair
<1>6. PICK u : /\ s = ReleasePage(u, c)
               /\ Merges(t, l, Append(y.keys, s0) \o x.keys, y.children \o x.children,
                         p, RemoveAt(kt, j), RemoveAt(ct, j + 1), u)
  BY <1>4, <1>5, Merging
<1>7. /\ u \in Cache /\ DOMAIN u.page = DOMAIN t.page
      /\ u.page[l].keys = Append(y.keys, s0) \o x.keys /\ u.page[l].children = y.children \o x.children
      /\ u.page[p].keys = RemoveAt(kt, j) /\ u.page[p].children = RemoveAt(ct, j + 1)
      /\ \A q \in {l, p} : u.page[q].kind = t.page[q].kind
      /\ \A q \in DOMAIN t.page \ {l, p} : u.page[q] = t.page[q]
  BY <1>6 DEF Merges
<1>8. /\ s \in Cache /\ DOMAIN s.page = DOMAIN u.page
      /\ s.page[c] = [MakePage("free") EXCEPT !.link = u.free]
      /\ \A q \in DOMAIN u.page \ {c} : s.page[q] = u.page[q]
  <2>1. s = ReleasePage(u, c) /\ u \in Cache /\ c \in DOMAIN u.page
    BY <1>5, <1>6, <1>7
  <2> HIDE DEF s, c, l
  <2>2. LET t1 == ReleasePage(u, c)
        IN  /\ t1 \in Cache
            /\ DOMAIN t1.page = DOMAIN u.page
            /\ t1.page[c] = [MakePage("free") EXCEPT !.link = u.free]
            /\ \A q \in DOMAIN u.page \ {c} : t1.page[q] = u.page[q]
    BY <2>1, Releasing
  <2>3. QED
    BY <2>1, <2>2
<1>9. s.page[c].kind = "free"
  BY <1>8 DEF MakePage
<1>10. InTree(s, {}) = T \ {c}
  <2>1. \A q \in DOMAIN t.page \ {c} : s.page[q].kind = t.page[q].kind
    BY <1>7, <1>8
  <2>2. DOMAIN s.page = DOMAIN t.page
    BY <1>7, <1>8
  <2>3. QED
    BY <2>1, <2>2, <1>9 DEF InTree
<1>11. P \notin {p, l, c}
  BY DEF Aside
<1>12. P \in T => s.page[P].keys = t.page[P].keys
  BY <1>7, <1>8, <1>11 DEF InTree
<1>13. /\ s.page[p].keys = RemoveAt(kt, j) /\ s.page[p].children = RemoveAt(ct, j + 1)
       /\ s.page[l].keys = Append(y.keys, s0) \o x.keys /\ s.page[l].children = y.children \o x.children
  BY <1>4, <1>5, <1>7, <1>8
<1>14. /\ keys[l] = y.keys /\ keys[c] = x.keys /\ keys[p] = kt
       /\ kids[l] = y.children /\ kids[c] = x.children /\ kids[p] = ct
  BY <1>4, <1>5, <1>11, ShowsElsewhere DEF Kids
<1>15. /\ keys1[l] = s.page[l].keys /\ keys1[p] = s.page[p].keys
       /\ kids1[l] = s.page[l].children /\ kids1[p] = s.page[p].children
  <2>1. l \in DOMAIN s.page /\ p \in DOMAIN s.page
    BY <1>4, <1>5, <1>7, <1>8
  <2>2. QED
    BY <2>1, <1>11, ShowsElsewhere DEF Kids
<1>16. ASSUME NEW q \in T \ {p, l, c} PROVE kids1[q] = kids[q] /\ keys1[q] = keys[q]
  <2>1. q \in DOMAIN t.page /\ q \in DOMAIN s.page /\ s.page[q] = t.page[q]
    BY <1>7, <1>8 DEF InTree
  <2>2. kids1[q] = kids[q]
    BY <2>1 DEF Kids
  <2>3. keys1[q] = keys[q]
    BY <2>1 DEF Shows
  <2>4. QED
    BY <2>2, <2>3
<1>17. Merged(T, kids, keys, p, j, l, s0, c, kids1, keys1)
  <2>1. /\ keys1[l] = Append(keys[l], s0) \o keys[c] /\ kids1[l] = kids[l] \o kids[c]
        /\ keys1[p] = RemoveAt(keys[p], j) /\ kids1[p] = RemoveAt(kids[p], j + 1)
    BY <1>13, <1>14, <1>15, Zenon
  <2> HIDE DEF T, kids, keys, l, s0, c, kids1, keys1
  <2>2. QED
    BY <1>3, <1>16, <2>1, GivesAll, Zenon
<1>18. \E may1 : Moved(t, s, r, p, P, kp, level, may, may1)
  <2>1. s \in Cache
    BY <1>8
  <2> HIDE DEF s, l, c, s0
  <2>2. QED
    BY <1>3, <1>10, <1>11, <1>12, <1>17, <2>1, MergeMoves
<1>19. QED
  BY <1>13, <1>18

\* A full child is split.
LEMMA SplitChildMoves ==
  ASSUME NEW t \in Cache, NEW r, NEW by, NEW at, NEW level, SoundBy(t, r, {}, by, at, level),
         NEW kp, NEW may, Arranged(t, r, Shows(t, NoPage, kp), may),
         NEW p \in InTree(t, {}), NEW i \in DOMAIN t.page[p].children,
         KeyCount(t, Child(t, p, i)) = MaxKeys
  PROVE  LET s == SplitChild(t, p, i)
         IN  /\ \E may1 : Moved(t, s, r, p, NoPage, kp, level, may, may1)
             /\ Adds(t.page[p].keys, i, s.page[p].keys[i], s.page[p].keys)
<1> DEFINE c == Child(t, p, i)
           n == AllocatedPage(t)
           u == AllocatePage(t, t.page[c].kind)
           s == SplitChild(t, p, i)
           x == t.page[c]
           y == t.page[p]
           T == InTree(t, {})
           kids == Kids(t)
           keys == Shows(t, NoPage, kp)
           kids1 == Kids(s)
           keys1 == Shows(s, NoPage, kp)
           m == x.keys[MinKeys + 1]
<1>1. /\ p \in DOMAIN t.page /\ c \in T /\ c \in DOMAIN t.page
      /\ c # p /\ x.kind \in {"leaf", "internal"}
      /\ Len(y.children) = Len(y.keys) + 1 /\ y.kind = "internal"
      /\ IF IsLeaf(t, c) THEN x.children = <<>> ELSE Len(x.children) = MaxKeys + 1
      /\ t.free # NoPage => t.free \in DOMAIN t.page
      /\ p # NoPage /\ c # NoPage
  <2>2. /\ p \in DOMAIN t.page /\ Fits(t, r, p) /\ y.kind = "internal"
        /\ c \in InTree(t, {}) /\ c # p /\ p # NoPage
    BY PageFits, ChildFits
  <2> HIDE DEF c
  <2>3. c \in DOMAIN t.page /\ t.page[c].kind \in {"leaf", "internal"} /\ Fits(t, r, c) /\ c # NoPage
    BY <2>2, PageFits
  <2>4. t.free # NoPage => t.free \in DOMAIN t.page
    BY DEF SoundBy, ListHolds, OnList
  <2>5. QED
    BY <2>2, <2>3, <2>4 DEF Fits, KeyCount, IsLeaf, c
<1>2. /\ InTree(u, {n}) = T /\ n \notin T /\ n # c /\ n # p
  <2>1. Sound(t, r, {})
    BY SoundIs
  <2>2. QED
    BY <1>1, <2>1, AllocateHolds
<1>3. /\ u \in Cache /\ n \in Nat \ {0}
      /\ DOMAIN u.page = DOMAIN t.page \cup {n} /\ n \in DOMAIN u.page
      /\ u.page[n] = MakePage(x.kind)
      /\ \A q \in DOMAIN t.page \ {n} : u.page[q] = t.page[q]
  <2>1. t.free # NoPage => t.free \in DOMAIN t.page
    BY <1>1
  <2>2. x.kind \in {"leaf", "internal"}
    BY <1>1
  <2> HIDE DEF x
  <2>3. /\ u \in Cache /\ n \in Nat \ {0}
        /\ DOMAIN u.page = DOMAIN t.page \cup {n}
        /\ u.page[n] = MakePage(x.kind)
        /\ \A q \in DOMAIN t.page \ {n} : u.page[q] = t.page[q]
    BY <2>1, <2>2, Allocating DEF x
  <2> HIDE DEF n, u
  <2>4. QED
    BY <2>3
<1>4. /\ s \in Cache
      /\ DOMAIN s.page = DOMAIN u.page
      /\ s.page[c].keys = SubSeq(x.keys, 1, MinKeys)
      /\ s.page[c].children = SubSeq(x.children, 1, IF IsLeaf(t, c) THEN 0 ELSE MinDegree)
      /\ s.page[n].keys = SubSeq(x.keys, MinDegree + 1, MaxKeys)
      /\ s.page[n].children = SubSeq(x.children, MinDegree + 1, Len(x.children))
      /\ s.page[p].keys = InsertAt(y.keys, i, x.keys[MinDegree])
      /\ s.page[p].children = InsertAt(y.children, i + 1, n)
      /\ \A q \in {c, n, p} : s.page[q].kind = u.page[q].kind
      /\ \A q \in DOMAIN u.page \ {c, n, p} : s.page[q] = u.page[q]
  <2>1. i <= KeyCount(t, p) + 1
    BY <1>1, PagesOf, SMTT(60) DEF KeyCount
  <2>2. IsLeaf(t, c) \/ Len(x.children) = MaxKeys + 1
    BY <1>1
  <2>3. KeyCount(t, c) = MaxKeys /\ i \in DOMAIN y.children /\ c = Child(t, p, i)
    OBVIOUS
  <2>4. /\ s \in Cache
        /\ DOMAIN s.page = DOMAIN u.page
        /\ s.page[c].keys = SubSeq(x.keys, 1, MinKeys)
        /\ s.page[c].children = SubSeq(x.children, 1, IF IsLeaf(t, c) THEN 0 ELSE MinDegree)
        /\ s.page[n].keys = SubSeq(x.keys, MinDegree + 1, MaxKeys)
        /\ s.page[n].children = SubSeq(x.children, MinDegree + 1, Len(x.children))
        /\ s.page[p].keys = InsertAt(y.keys, i, x.keys[MinDegree])
        /\ s.page[p].children = InsertAt(y.children, i + 1, n)
        /\ \A q \in {c, n, p} : /\ s.page[q].kind = u.page[q].kind
                                /\ s.page[q].link = u.page[q].link
        /\ \A q \in DOMAIN u.page \ {c, n, p} : s.page[q] = u.page[q]
        /\ Marks(u, {c, n, p}, s)
    <3> HIDE DEF n
    <3>1. QED
      BY <1>1, <1>2, <2>1, <2>2, <2>3, Splitting, ZenonT(60) DEF n
  <2> HIDE DEF n, s, u, c, x, y
  <2>5. QED
    BY <2>4
<1>5. /\ MinKeys \in Nat /\ MinKeys + 1 = MinDegree /\ MaxKeys = 2 * MinKeys + 1
      /\ MinDegree + 1 = MinKeys + 2 /\ MaxKeys + 1 = 2 * MinKeys + 2
  BY BTreeAssumption DEF MinKeys, MaxKeys
<1>6. /\ x.keys \in Seq(Int) /\ x.children \in Seq(Nat) /\ Len(x.keys) = 2 * MinKeys + 1
      /\ y.keys \in Seq(Int) /\ y.children \in Seq(Nat)
      /\ x.children = <<>> \/ Len(x.children) = 2 * MinKeys + 2
  <2>1. x.keys \in Seq(Int) /\ x.children \in Seq(Nat) /\ y.keys \in Seq(Int) /\ y.children \in Seq(Nat)
    BY <1>1, PagesOf
  <2>2. Len(x.keys) = MaxKeys
    BY DEF KeyCount
  <2>3. QED
    BY <2>1, <2>2, <1>1, <1>5
<1>7. /\ keys[p] = y.keys /\ keys[c] = x.keys /\ kids[p] = y.children /\ kids[c] = x.children
  BY <1>1, ShowsElsewhere DEF Kids
<1>8. /\ keys1[p] = s.page[p].keys /\ keys1[c] = s.page[c].keys /\ keys1[n] = s.page[n].keys
      /\ kids1[p] = s.page[p].children /\ kids1[c] = s.page[c].children
      /\ kids1[n] = s.page[n].children
  <2>1. p \in DOMAIN s.page /\ c \in DOMAIN s.page /\ n \in DOMAIN s.page
        /\ p # NoPage /\ c # NoPage /\ n # NoPage
    BY <1>1, <1>3, <1>4 DEF NoPage
  <2>2. QED
    BY <2>1, ShowsElsewhere DEF Kids
<1>9. ASSUME NEW q \in T \ {p, c} PROVE kids1[q] = kids[q] /\ keys1[q] = keys[q]
  <2>1. q \in DOMAIN t.page /\ q \in DOMAIN s.page /\ s.page[q] = t.page[q]
    <3>1. q # n /\ q \in DOMAIN t.page
      BY <1>2 DEF InTree
    <3>2. QED
      BY <3>1, <1>3, <1>4
  <2>2. kids1[q] = kids[q]
    BY <2>1 DEF Kids
  <2>3. keys1[q] = keys[q]
    BY <2>1 DEF Shows
  <2>4. QED
    BY <2>2, <2>3
<1>10. InTree(s, {}) = T \cup {n}
  <2>1. /\ DOMAIN s.page = DOMAIN t.page \cup {n} /\ s.page[n].kind # "free"
        /\ \A q \in DOMAIN t.page \ {n} : s.page[q].kind = t.page[q].kind
    <3>1. u.page[n].kind = x.kind
      BY <1>3 DEF MakePage
    <3>2. s.page[n].kind = u.page[n].kind
      BY <1>4
    <3>3. \A q \in DOMAIN t.page \ {n} : s.page[q].kind = u.page[q].kind /\ u.page[q] = t.page[q]
      BY <1>3, <1>4
    <3>4. QED
      BY <3>1, <3>2, <3>3, <1>1, <1>3, <1>4
  <2>2. QED
    BY <2>1, <1>2 DEF InTree
<1>11. Splits(T, kids, keys, p, i, c, m, n, kids1, keys1)
  <2>1. /\ keys1[c] = SubSeq(keys[c], 1, MinKeys)
        /\ keys1[n] = SubSeq(keys[c], MinKeys + 2, Len(keys[c]))
        /\ keys1[p] = InsertAt(keys[p], i, keys[c][MinKeys + 1])
        /\ kids1[p] = InsertAt(kids[p], i + 1, n)
        /\ m = keys[c][MinKeys + 1]
    <3>1. Len(x.keys) = MaxKeys
      BY DEF KeyCount
    <3>2. QED
      BY <3>1, <1>4, <1>5, <1>7, <1>8, Zenon
  <2>2. /\ kids[c] = <<>> => kids1[c] = <<>> /\ kids1[n] = <<>>
        /\ kids[c] # <<>> => /\ kids1[c] = SubSeq(kids[c], 1, MinKeys + 1)
                             /\ kids1[n] = SubSeq(kids[c], MinKeys + 2, Len(kids[c]))
    <3> DEFINE xc == x.children
               e == IF IsLeaf(t, c) THEN 0 ELSE MinDegree
    <3>1. kids1[c] = SubSeq(xc, 1, e) /\ kids1[n] = SubSeq(xc, MinKeys + 2, Len(xc)) /\ kids[c] = xc
      BY <1>4, <1>5, <1>7, <1>8
    <3>2. IF IsLeaf(t, c) THEN xc = <<>> ELSE Len(xc) = MaxKeys + 1
      BY <1>1
    <3>3. CASE IsLeaf(t, c)
      <4>1. xc = <<>> /\ e = 0
        BY <3>2, <3>3
      <4> HIDE DEF kids1, kids, xc, e, c, n
      <4>2. SubSeq(<<>>, 1, 0) = <<>> /\ SubSeq(<<>>, MinKeys + 2, Len(<<>>)) = <<>>
        BY <1>5
      <4>3. QED
        BY <3>1, <4>1, <4>2
    <3>4. CASE ~IsLeaf(t, c)
      <4>1. Len(xc) = MaxKeys + 1 /\ e = MinKeys + 1
        BY <3>2, <3>4, <1>5
      <4>2. xc # <<>>
        <5>1. Len(<<>>) = 0
          OBVIOUS
        <5> HIDE DEF xc
        <5>2. Len(xc) # 0
          BY <4>1, <1>5
        <5>3. QED
          BY <5>1, <5>2
      <4> HIDE DEF kids1, kids, xc, e, c, n
      <4>3. QED
        BY <3>1, <4>1, <4>2
    <3>5. QED
      BY <3>3, <3>4
  <2>3. /\ p \in T /\ n \in Nat /\ MinKeys \in Nat
        /\ keys[p] \in Seq(Int) /\ kids[p] \in Seq(Nat) /\ Len(kids[p]) = Len(keys[p]) + 1
        /\ i \in DOMAIN kids[p] /\ c = kids[p][i] /\ n \notin T
        /\ keys[c] \in Seq(Int) /\ kids[c] \in Seq(Nat) /\ Len(keys[c]) = 2 * MinKeys + 1
        /\ kids[c] = <<>> \/ Len(kids[c]) = 2 * MinKeys + 2
    <3>1. c = kids[p][i] /\ i \in DOMAIN kids[p]
      BY <1>7 DEF Child
    <3>2. QED
      BY <3>1, <1>1, <1>2, <1>3, <1>5, <1>6, <1>7, Zenon
  <2>4. \A q \in T \ {p, c} : kids1[q] = kids[q] /\ keys1[q] = keys[q]
    BY <1>9
  <2> HIDE DEF T, kids, keys, c, n, kids1, keys1, m
  <2>5. Splits(T, kids, keys, p, i, c, keys[c][MinKeys + 1], n, kids1, keys1)
    BY <2>1, <2>2, <2>3, <2>4, GivesHalf
  <2>6. QED
    BY <2>1, <2>5
<1>12. \E may1 : Moved(t, s, r, p, NoPage, kp, level, may, may1)
  <2>1. NoPage \notin {p, c, n} /\ NoPage \notin T
    <3>1. NoPage \notin DOMAIN t.page
      BY PagesOf DEF NoPage
    <3>2. QED
      BY <3>1, <1>1, <1>3 DEF InTree, NoPage
  <2>2. s \in Cache
    BY <1>4
  <2> HIDE DEF s, n, c, m
  <2>3. QED
    BY <1>10, <1>11, <2>1, <2>2, SplitMoves
<1>13. Adds(y.keys, i, s.page[p].keys[i], s.page[p].keys)
  <2>1. Grows(keys[p], kids[p], i, m, n, keys1[p], kids1[p])
    BY <1>11 DEF Splits
  <2>2. Adds(y.keys, i, m, s.page[p].keys)
    BY <2>1, <1>7, <1>8 DEF Grows
  <2>3. s.page[p].keys[i] = m
    BY <2>2 DEF Adds, HasInserted
  <2>4. QED
    BY <2>2, <2>3
<1>14. QED
  BY <1>12, <1>13

-----------------------------------------------------------------------------
(* The way down.  A call comes to a page whose cuts its key lies inside.    *)

LEMMA FindsMore ==
  ASSUME NEW k0, NEW i, NEW s, NEW k1, Adds(k0, i, s, k1), NEW k \in Int, Finds(k0, i, k)
  PROVE  Finds(k1, IF s < k THEN i + 1 ELSE i, k)
<1>1. /\ Len(k0) \in Nat /\ i \in Nat /\ s \in Int
      /\ DOMAIN k0 = 1..Len(k0) /\ DOMAIN k1 = 1..Len(k0) + 1 /\ i \in 1..Len(k0) + 1
      /\ k1[i] = s
      /\ \A j \in 1..Len(k0) : /\ k0[j] \in Int
                               /\ j < i => k1[j] = k0[j]
                               /\ i <= j => k1[j + 1] = k0[j]
      /\ \A j \in 1..Len(k0) + 1 : /\ k1[j] \in Int
                                   /\ j < i => j \in 1..Len(k0)
                                   /\ i < j => \E e \in 1..Len(k0) : j = e + 1 /\ i <= e
  BY AddPlaces
<1>2. Len(k1) = Len(k0) + 1
  BY DEF Adds, HasInserted
<1> DEFINE x == IF s < k THEN i + 1 ELSE i
<1>3. x \in 1..Len(k1) + 1 /\ x \in {i, i + 1} /\ (x = i + 1 => s < k) /\ (x = i => k <= s)
  BY <1>1, <1>2
<1>4. ASSUME NEW j \in DOMAIN k1 PROVE IF j < x THEN k1[j] < k ELSE k <= k1[j]
  <2>1. j \in 1..Len(k0) + 1 /\ j \in Nat
    BY <1>1
  <2>2. CASE j < i
    <3>1. j \in 1..Len(k0) /\ k1[j] = k0[j]
      BY <1>1, <2>1, <2>2
    <3>2. k0[j] < k
      BY <3>1, <2>2, <1>1 DEF Finds
    <3>3. QED
      BY <3>1, <3>2, <1>3, <2>1, <2>2, <1>1
  <2>3. CASE j = i
    BY <2>3, <1>1, <1>3
  <2>4. CASE i < j
    <3>1. PICK e \in 1..Len(k0) : j = e + 1 /\ i <= e
      BY <1>1, <2>1, <2>4
    <3>2. k1[j] = k0[e] /\ k <= k0[e]
      <4>1. k1[e + 1] = k0[e]
        BY <3>1, <1>1
      <4>2. ~(e < i) /\ e \in DOMAIN k0
        BY <3>1, <1>1
      <4>3. QED
        BY <3>1, <4>1, <4>2 DEF Finds
    <3>3. ~(j < x)
      BY <1>3, <2>1, <2>4, <1>1
    <3>4. QED
      BY <3>2, <3>3
  <2>5. QED
    BY <2>1, <2>2, <2>3, <2>4, <1>1
<1>5. Finds(k1, x, k)
  BY <1>3, <1>4 DEF Finds
<1>6. QED
  BY <1>5

\* The key at place j is taken out.
LEMMA FindsLess ==
  ASSUME NEW k1 \in Seq(Int), NEW j \in DOMAIN k1, NEW i, NEW k \in Int, Finds(k1, i, k)
  PROVE  /\ i = j => Finds(RemoveAt(k1, j), j, k)
         /\ i = j + 1 => Finds(RemoveAt(k1, j), j, k)
<1> DEFINE k0 == RemoveAt(k1, j)
<1>1. HasRemoved(Int, k1, j, k0)
  BY Removing
<1>2. /\ DOMAIN k1 = 1..Len(k1) /\ Len(k1) \in Nat /\ j \in 1..Len(k1) /\ j \in Nat
  OBVIOUS
<1>3. /\ k0 \in Seq(Int) /\ Len(k0) = Len(k1) - 1 /\ DOMAIN k0 = 1..Len(k0)
      /\ \A e \in 1..j - 1 : k0[e] = k1[e]
      /\ \A e \in j..Len(k1) - 1 : k0[e] = k1[e + 1]
  BY <1>1, <1>2 DEF HasRemoved
<1> HIDE DEF k0
<1>4. j \in 1..Len(k0) + 1
  BY <1>2, <1>3
<1>5. ASSUME i = j \/ i = j + 1, NEW e \in DOMAIN k0 PROVE IF e < j THEN k0[e] < k ELSE k <= k0[e]
  <2>1. e \in 1..Len(k1) - 1 /\ e \in Nat /\ e \in DOMAIN k1 /\ e + 1 \in DOMAIN k1
    BY <1>2, <1>3, <1>5
  <2>2. CASE e < j
    <3>1. e \in 1..j - 1 /\ e < i
      BY <2>1, <2>2, <1>2, <1>5
    <3>2. k1[e] < k
      BY <3>1, <2>1 DEF Finds
    <3>3. QED
      BY <3>1, <3>2, <2>2, <1>3
  <2>3. CASE ~(e < j)
    <3>1. e \in j..Len(k1) - 1 /\ ~(e + 1 < i)
      BY <2>1, <2>3, <1>2, <1>5
    <3>2. k <= k1[e + 1]
      BY <3>1, <2>1 DEF Finds
    <3>3. QED
      BY <3>1, <3>2, <2>3, <1>3
  <2>4. QED
    BY <2>2, <2>3
<1>6. i = j \/ i = j + 1 => Finds(k0, j, k)
  BY <1>4, <1>5 DEF Finds
<1>7. QED
  BY <1>6 DEF k0

\* One key is exchanged for another on the same side.
LEMMA FindsAnew ==
  ASSUME NEW k0 \in Seq(Int), NEW j \in DOMAIN k0, NEW x \in Int, NEW i, NEW k \in Int,
         Finds(k0, i, k), IF j < i THEN x < k ELSE k <= x
  PROVE  Finds([k0 EXCEPT ![j] = x], i, k)
<1> DEFINE k1 == [k0 EXCEPT ![j] = x]
<1>1. k1 \in Seq(Int) /\ Len(k1) = Len(k0) /\ DOMAIN k1 = DOMAIN k0
  OBVIOUS
<1>2. \A e \in DOMAIN k0 : k1[e] = IF e = j THEN x ELSE k0[e]
  OBVIOUS
<1> HIDE DEF k1
<1>3. ASSUME NEW e \in DOMAIN k1 PROVE IF e < i THEN k1[e] < k ELSE k <= k1[e]
  BY <1>1, <1>2, <1>3 DEF Finds
<1>4. Finds(k1, i, k)
  BY <1>1, <1>3 DEF Finds
<1>5. QED
  BY <1>4 DEF k1

\* The page p is less than n levels above the leaves.
Within(t, r, p, n) ==
    p \in InTree(t, {}) /\ \A by, at, level : SoundBy(t, r, {}, by, at, level) => level[p] < n

Comes(t, r, p, P, kp, may, k, n) ==
    /\ Arranged(t, r, Shows(t, P, kp), may)
    /\ Inside(k, may[p])
    /\ Within(t, r, p, n)

LEMMA MovedComes ==
  ASSUME NEW t \in Cache, NEW r, NEW by, NEW at, NEW level, SoundBy(t, r, {}, by, at, level),
         NEW p, NEW P, NEW kp, NEW may, NEW k, NEW n, Comes(t, r, p, P, kp, may, k, n),
         NEW s, NEW may1, Moved(t, s, r, p, P, kp, level, may, may1)
  PROVE  Comes(s, r, p, P, kp, may1, k, n)
<1>1. level[p] < n
  BY DEF Comes, Within
<1>2. Within(s, r, p, n)
  BY <1>1 DEF Within, Moved
<1>3. QED
  BY <1>2 DEF Comes, Moved

\* From a page to the child whose gap the key is in.
LEMMA Descends ==
  ASSUME NEW t \in Cache, NEW r, Sound(t, r, {}),
         NEW p, NEW P, NEW kp, NEW may, NEW k \in Int, NEW n \in Nat,
         Comes(t, r, p, P, kp, may, k, n + 1),
         P # p, NEW j \in DOMAIN t.page[p].children,
         Finds(t.page[p].keys, j, k), \A e \in DOMAIN t.page[p].keys : t.page[p].keys[e] # k
  PROVE  /\ Comes(t, r, Child(t, p, j), P, kp, may, k, n)
         /\ may[Child(t, p, j)] \subseteq may[p]
<1> DEFINE T == InTree(t, {})
           keys == Shows(t, P, kp)
           kids == Kids(t)
           D == DOMAIN t.page
           c == Child(t, p, j)
<1>1. PICK by, at, level : SoundBy(t, r, {}, by, at, level)
  BY SoundIs
<1>2. p \in T /\ p \in D
  BY DEF Comes, Within, InTree
<1>3. keys[p] = t.page[p].keys /\ kids[p] = t.page[p].children /\ c = kids[p][j]
  BY <1>2, ShowsElsewhere DEF Kids, Child
<1>4. Sorted(D, T, r, kids, keys, by, at, level, may)
  BY <1>1, SortedIs DEF Comes
<1>5. j \in DOMAIN kids[p] /\ Finds(keys[p], j, k) /\ \A e \in DOMAIN keys[p] : keys[p][e] # k
  BY <1>3
<1>6. c \in T
  BY <1>2, <1>3, <1>5, <1>4, SortedPage
<1>7. ASSUME NEW by1, NEW at1, NEW level1, SoundBy(t, r, {}, by1, at1, level1)
      PROVE  level1[c] < n
  <2>1. level1[p] < n + 1
    BY <1>7 DEF Comes, Within
  <2>2. level1[c] + 1 = level1[p]
    BY <1>7, <1>2, ChildFits
  <2>3. level1[c] \in Nat
    BY <1>7, <1>6, PageFits
  <2>4. QED
    BY <2>1, <2>2, <2>3
<1>8. Arranged(t, r, keys, may) /\ Inside(k, may[p])
  BY DEF Comes
<1> HIDE DEF T, keys, kids, D, c
<1>9. /\ keys[p] \in Seq(Int) /\ Convex(may[p]) /\ may[c] = Gap(may[p], keys[p], j)
  <2>1. \A e \in DOMAIN kids[p] : may[kids[p][e]] = Gap(may[p], keys[p], e)
    BY <1>2, <1>4, SortedPage
  <2>2. keys[p] \in Seq(Int) /\ Convex(may[p])
    BY <1>2, <1>4, SortedPage
  <2>3. QED
    BY <2>1, <2>2, <1>3, <1>5
<1>10. Inside(k, may[c])
  BY <1>5, <1>8, <1>9, InGap
<1>11. may[c] \subseteq may[p]
  BY <1>9 DEF Gap
<1>12. Within(t, r, c, n)
  BY <1>6, <1>7 DEF Within, T
<1>13. QED
  BY <1>8, <1>10, <1>11, <1>12 DEF Comes, c, keys

\* A leaf with other keys.
ShowsAnew(t, s, p, ks, P, kp) ==
    /\ s \in Cache /\ DOMAIN s.page = DOMAIN t.page /\ InTree(s, {}) = InTree(t, {})
    /\ Kids(s) = Kids(t)
    /\ Shows(s, P, kp)[p] = ks
    /\ \A q \in InTree(t, {}) \ {p} : Shows(s, P, kp)[q] = Shows(t, P, kp)[q]
    /\ P \in InTree(t, {}) => s.page[P].keys = t.page[P].keys

LEMMA RekeyShows ==
  ASSUME NEW t \in Cache, NEW r, NEW p \in InTree(t, {}), NEW ks, NEW s, Rekeys(t, r, p, ks, s),
         NEW P, NEW kp, P # p
  PROVE  ShowsAnew(t, s, p, ks, P, kp)
<1>1. /\ s \in Cache /\ DOMAIN s.page = DOMAIN t.page /\ s.page[p].keys = ks
      /\ s.page[p].children = t.page[p].children /\ s.page[p].kind = t.page[p].kind
      /\ \A q \in DOMAIN t.page \ {p} : s.page[q] = t.page[q]
  BY DEF Rekeys
<1>2. p \in DOMAIN t.page
  BY DEF InTree
<1>3. \A q \in DOMAIN t.page : s.page[q].children = t.page[q].children /\ s.page[q].kind = t.page[q].kind
  BY <1>1
<1>4. InTree(s, {}) = InTree(t, {})
  BY <1>1, <1>3 DEF InTree
<1>5. Kids(s) = Kids(t)
  BY <1>1, <1>3 DEF Kids
<1>6. Shows(s, P, kp)[p] = ks
  BY <1>1, <1>2, ShowsElsewhere
<1>7. \A q \in InTree(t, {}) \ {p} : Shows(s, P, kp)[q] = Shows(t, P, kp)[q]
  BY <1>1 DEF Shows, InTree
<1>8. P \in InTree(t, {}) => s.page[P].keys = t.page[P].keys
  BY <1>1 DEF InTree
<1>9. QED
  BY <1>1, <1>4, <1>5, <1>6, <1>7, <1>8 DEF ShowsAnew

\* The keys shown are H, in order.
Holding(t, r, P, kp, may, H) ==
    Arranged(t, r, Shows(t, P, kp), may) /\ HeldIn(t, P, kp) = H

LEMMA LeafGainsShown ==
  ASSUME NEW t \in Cache, NEW r, Sound(t, r, {}),
         NEW P, NEW kp, NEW may, Arranged(t, r, Shows(t, P, kp), may),
         NEW p \in InTree(t, {}), P # p, IsLeaf(t, p), NEW i, NEW k, NEW ks,
         Adds(t.page[p].keys, i, k, ks), Belongs(t.page[p].keys, i, k), Inside(k, may[p]),
         NEW s, Rekeys(t, r, p, ks, s)
  PROVE  Holding(s, r, P, kp, may, HeldIn(t, P, kp) \cup {k})
<1> DEFINE T == InTree(t, {})
           keys == Shows(t, P, kp)
           keys1 == Shows(s, P, kp)
           kids == Kids(t)
           D == DOMAIN t.page
<1>1. PICK by, at, level : SoundBy(t, r, {}, by, at, level)
  BY SoundIs
<1>2. /\ s \in Cache /\ InTree(s, {}) = T /\ Kids(s) = kids
      /\ keys1[p] = ks /\ \A q \in T \ {p} : keys1[q] = keys[q]
      /\ P \in T => s.page[P].keys = t.page[P].keys
  <2>1. ShowsAnew(t, s, p, ks, P, kp)
    BY RekeyShows, Zenon
  <2>2. QED
    BY <2>1 DEF ShowsAnew
<1>3. keys[p] = t.page[p].keys
  BY ShowsElsewhere DEF InTree
<1>4. Sorted(D, T, r, kids, keys, by, at, level, may)
  BY <1>1, SortedIs
<1>5. level[p] = 0
  BY <1>1, LeavesAtBottom DEF IsLeaf
<1>6. \A q \in T : keys1[q] \in Seq(Int) /\ Len(keys1[q]) = KeyCount(s, q)
  BY <1>2, ShownStays
<1> HIDE DEF T, keys, keys1, kids, D
<1>7. Adds(keys[p], i, k, keys1[p]) /\ Belongs(keys[p], i, k) /\ p \in T
  BY <1>2, <1>3 DEF T
<1>8. Placed(T, r, kids, keys1, may) /\ Held(T, keys1) = Held(T, keys) \cup {k}
  BY <1>2, <1>4, <1>5, <1>7, LeafGains
<1>9. QED
  BY <1>2, <1>6, <1>8 DEF Holding, Arranged, HeldIn, T, keys, keys1

LEMMA LeafLosesShown ==
  ASSUME NEW t \in Cache, NEW r, Sound(t, r, {}),
         NEW P, NEW kp, NEW may, Arranged(t, r, Shows(t, P, kp), may),
         NEW p \in InTree(t, {}), P # p, IsLeaf(t, p), NEW i, NEW k, NEW ks,
         Adds(ks, i, k, t.page[p].keys),
         NEW s, Rekeys(t, r, p, ks, s)
  PROVE  Holding(s, r, P, kp, may, HeldIn(t, P, kp) \ {k})
<1> DEFINE T == InTree(t, {})
           keys == Shows(t, P, kp)
           keys1 == Shows(s, P, kp)
           kids == Kids(t)
           D == DOMAIN t.page
<1>1. PICK by, at, level : SoundBy(t, r, {}, by, at, level)
  BY SoundIs
<1>2. /\ s \in Cache /\ InTree(s, {}) = T /\ Kids(s) = kids
      /\ keys1[p] = ks /\ \A q \in T \ {p} : keys1[q] = keys[q]
      /\ P \in T => s.page[P].keys = t.page[P].keys
  <2>1. ShowsAnew(t, s, p, ks, P, kp)
    BY RekeyShows, Zenon
  <2>2. QED
    BY <2>1 DEF ShowsAnew
<1>3. keys[p] = t.page[p].keys
  BY ShowsElsewhere DEF InTree
<1>4. Sorted(D, T, r, kids, keys, by, at, level, may)
  BY <1>1, SortedIs
<1>5. level[p] = 0
  BY <1>1, LeavesAtBottom DEF IsLeaf
<1>6. \A q \in T : keys1[q] \in Seq(Int) /\ Len(keys1[q]) = KeyCount(s, q)
  BY <1>2, ShownStays
<1> HIDE DEF T, keys, keys1, kids, D
<1>7. Adds(keys1[p], i, k, keys[p]) /\ p \in T
  BY <1>2, <1>3 DEF T
<1>8. Placed(T, r, kids, keys1, may) /\ Held(T, keys1) = Held(T, keys) \ {k}
  BY <1>2, <1>4, <1>5, <1>7, LeafLoses
<1>9. QED
  BY <1>2, <1>6, <1>8 DEF Holding, Arranged, HeldIn, T, keys, keys1

\* Every page shows its own keys.
LEMMA ShowsAll ==
  ASSUME NEW t \in Cache, NEW kp
  PROVE  Shows(t, NoPage, kp) = KeysOf(t) /\ \A q \in DOMAIN t.page : KeysOf(t)[q] = t.page[q].keys
<1>1. NoPage \notin DOMAIN t.page
  BY PagesOf DEF NoPage
<1>2. QED
  BY <1>1 DEF Shows, KeysOf

\* The passes of a call, counted: a set of calls for each number of passes left.
LEMMA PassesCount ==
  ASSUME NEW D, \A x \in D : Pass(x) \in D,
         NEW F, NEW N \in Nat, NEW c \in D, c \in F[N],
         \A n \in Nat : \A x \in F[n + 1] : Pass(x) \in F[n]
  PROVE  Passes(c, N) \in F[0]
<1> DEFINE S == {i \in Nat : i <= N => Passes(c, i) \in F[N - i]}
<1>1. /\ Passes(c, 0) = c
      /\ \A i \in Nat : Passes(c, i + 1) = Pass(Passes(c, i))
  BY PassesAre
<1>2. 0 \in S
  BY <1>1
<1>3. ASSUME NEW i \in Nat, i \in S PROVE i + 1 \in S
  <2>1. ASSUME i + 1 <= N PROVE Passes(c, i + 1) \in F[N - (i + 1)]
    <3>1. i <= N /\ N - (i + 1) \in Nat /\ N - i = (N - (i + 1)) + 1
      BY <2>1
    <3>2. Passes(c, i) \in F[(N - (i + 1)) + 1]
      BY <3>1, <1>3
    <3>3. Pass(Passes(c, i)) \in F[N - (i + 1)]
      BY <3>1, <3>2
    <3>4. QED
      BY <3>3, <1>1
  <2>2. QED
    BY <2>1
<1> HIDE DEF S
<1>4. N \in S
  BY <1>2, <1>3, AllNaturals
<1>5. QED
  BY <1>4 DEF S

-----------------------------------------------------------------------------
(* Insertion, pass by pass.                                                *)

\* The pages hold the keys H, in order.
Has(t, r, H) ==
    \E may : Holding(t, r, NoPage, <<>>, may, H)

\* So they do, and the call is at a page whose cuts its key lies inside.
Plain(t, r, p, k, n, H) ==
    \E may : Comes(t, r, p, NoPage, <<>>, may, k, n) /\ Holding(t, r, NoPage, <<>>, may, H)

\* A key that is held nowhere is not in a page.
LEMMA NotInPage ==
  ASSUME NEW t \in Cache, NEW r, NEW H, Has(t, r, H), NEW k, k \notin H,
         NEW p \in InTree(t, {})
  PROVE  /\ t.page[p].keys \in Seq(Int)
         /\ \A e \in DOMAIN t.page[p].keys : t.page[p].keys[e] # k
<1> DEFINE ks == t.page[p].keys
           T == InTree(t, {})
           keys == Shows(t, NoPage, <<>>)
<1>1. p \in DOMAIN t.page /\ p # NoPage
  BY PagesOf DEF InTree, NoPage
<1>2. keys[p] = ks /\ ks \in Seq(Int)
  BY <1>1, ShowsElsewhere, PagesOf
<1>3. UNION {ToSet(keys[q]) : q \in T} = H
  BY DEF Has, Holding, HeldIn, Held
<1> HIDE DEF ks, keys
<1>4. ASSUME NEW e \in DOMAIN ks, ks[e] = k PROVE FALSE
  <2>1. k \in ToSet(keys[p])
    BY <1>2, <1>4 DEF ToSet
  <2>2. k \in H
    BY <1>3, <2>1
  <2>3. QED
    BY <2>2
<1>5. QED
  BY <1>2, <1>4 DEF ks

LEMMA PlainHas ==
  ASSUME NEW t, NEW r, NEW p, NEW k, NEW n, NEW H, Plain(t, r, p, k, n, H)
  PROVE  Has(t, r, H) /\ p \in InTree(t, {})
BY DEF Plain, Has, Holding, Comes, Within

\* Where lower_bound_index leads in a page the call is at.
LEMMA PlainFinds ==
  ASSUME NEW t \in Cache, NEW r, Sound(t, r, {}), NEW P, NEW kp, NEW may,
         NEW p, NEW k \in Int, NEW n, Comes(t, r, p, P, kp, may, k, n), P # p,
         NEW i, i = LowerBound(t, p, k)
  PROVE  /\ t.page[p].keys \in Seq(Int) /\ Ascends(t.page[p].keys)
         /\ Finds(t.page[p].keys, i, k)
         /\ HasKeyAt(t, p, i, k) => i \in DOMAIN t.page[p].keys /\ t.page[p].keys[i] = k
         /\ ~HasKeyAt(t, p, i, k) => \A e \in DOMAIN t.page[p].keys : t.page[p].keys[e] # k
<1> DEFINE ks == t.page[p].keys
<1>1. p \in InTree(t, {}) /\ p \in DOMAIN t.page
  BY DEF Comes, Within, InTree
<1>2. ks \in Seq(Int)
  BY <1>1, PagesOf
<1>3. Shows(t, P, kp)[p] = ks
  BY <1>1, ShowsElsewhere
<1>4. Ascends(ks)
  BY <1>1, <1>3 DEF Comes, Arranged, Placed, InPlace
<1>5. /\ Finds(ks, i, k)
      /\ HasKeyAt(t, p, i, k) => i \in DOMAIN ks /\ ks[i] = k
      /\ ~HasKeyAt(t, p, i, k) => \A j \in DOMAIN ks : ks[j] # k
  BY <1>2, <1>4, BoundFinds
<1>6. QED
  BY <1>2, <1>4, <1>5

LEMMA InsertLeafHas ==
  ASSUME NEW t, NEW r, NEW c \in Inserts(t, r), c.todo = "insert_nonfull",
         IsLeaf(c.t, c.at), NEW n, NEW H, c.key \notin H, Plain(c.t, r, c.at, c.key, n, H)
  PROVE  LET d == InsertNonfull(c)
         IN  d.todo = "inserted" /\ d.key = c.key /\ Has(d.t, r, H \cup {c.key})
<1> DEFINE u == c.t
           p == c.at
           k == c.key
           ks == u.page[p].keys
           d == InsertNonfull(c)
<1>1. PICK i : i = LowerBound(u, p, k)
  OBVIOUS
<1>2. PICK keys : keys = InsertAt(ks, i, k)
  OBVIOUS
<1>3. PICK s : s = MarkDirty([u EXCEPT !.page[p].keys = keys], {p})
  OBVIOUS
<1>4. /\ d = [c EXCEPT !.t = s, !.todo = "inserted"]
      /\ HasInserted(Int, ks, i, k, keys)
      /\ i \in 1..Len(ks) + 1
      /\ ks \in Seq(Int)
      /\ Rekeys(u, r, p, keys, s)
  <2>1. FillsLeaf(c, u, r, p, i, keys, s)
    BY <1>1, <1>2, <1>3, InsertRekeys
  <2>2. QED
    BY <2>1, Zenon DEF FillsLeaf
<1>5. c \in Calls /\ u \in Cache /\ Sound(u, r, {}) /\ k \in Int
  BY DEF Inserts, IsInsert, Calls
<1>6. d.todo = "inserted" /\ d.key = k /\ d.t = s
  BY <1>4, <1>5 DEF Calls
<1>7. PICK may : Comes(u, r, p, NoPage, <<>>, may, k, n) /\ HeldIn(u, NoPage, <<>>) = H
  BY DEF Plain, Holding
<1>8. p \in InTree(u, {}) /\ p # NoPage /\ Arranged(u, r, Shows(u, NoPage, <<>>), may)
      /\ Inside(k, may[p])
  BY <1>5, <1>7, PagesOf DEF Comes, Within, InTree, NoPage
<1>9. IsLeaf(u, p) /\ k \notin H
  OBVIOUS
<1> HIDE DEF u, p, k, ks, d
<1>10. Finds(ks, i, k) /\ \A e \in DOMAIN ks : ks[e] # k
  <2>1. Finds(ks, i, k)
    BY <1>1, <1>5, <1>7, <1>8, PlainFinds DEF ks
  <2>2. Has(u, r, H)
    BY <1>7, <1>8 DEF Has, Holding
  <2>3. \A e \in DOMAIN ks : ks[e] # k
    BY <2>2, <1>5, <1>8, <1>9, NotInPage DEF ks
  <2>4. QED
    BY <2>1, <2>3
<1>11. Adds(ks, i, k, keys) /\ Belongs(ks, i, k)
  <2>1. Adds(ks, i, k, keys)
    BY <1>4, <1>5 DEF Adds, HasInserted
  <2>2. ASSUME NEW j \in DOMAIN ks PROVE IF j < i THEN ks[j] < k ELSE k < ks[j]
    <3>1. IF j < i THEN ks[j] < k ELSE k <= ks[j]
      BY <1>10 DEF Finds
    <3>2. ks[j] \in Int /\ ks[j] # k
      BY <1>4, <1>10
    <3>3. QED
      BY <3>1, <3>2, <1>5
  <2>3. QED
    BY <2>1, <2>2 DEF Belongs
<1>12. Holding(s, r, NoPage, <<>>, may, H \cup {k})
  <2>1. Adds(u.page[p].keys, i, k, keys) /\ Belongs(u.page[p].keys, i, k)
    BY <1>11 DEF ks
  <2>2. Rekeys(u, r, p, keys, s)
    BY <1>4
  <2>3. Holding(s, r, NoPage, <<>>, may, HeldIn(u, NoPage, <<>>) \cup {k})
    BY ONLY <2>1, <2>2, <1>5, <1>8, <1>9, LeafGainsShown
  <2>4. QED
    BY <2>3, <1>7
<1>13. Has(s, r, H \cup {k})
  BY <1>12 DEF Has
<1>14. QED
  BY <1>6, <1>13 DEF d, k

LEMMA InsertBelowPlain ==
  ASSUME NEW t, NEW r, NEW c \in Inserts(t, r), c.todo = "insert_nonfull",
         ~IsLeaf(c.t, c.at), NEW n \in Nat, NEW H, c.key \notin H,
         Plain(c.t, r, c.at, c.key, n + 1, H)
  PROVE  LET d == InsertNonfull(c)
         IN  d.todo = "insert_nonfull" /\ d.key = c.key /\ Plain(d.t, r, d.at, d.key, n, H)
<1> DEFINE u == c.t
           p == c.at
           k == c.key
           i == LowerBound(u, p, k)
           x == Child(u, p, i)
           s == SplitChild(u, p, i)
           j == IF s.page[p].keys[i] < k THEN i + 1 ELSE i
           d == InsertNonfull(c)
<1>1. /\ u \in Cache /\ Sound(u, r, {}) /\ p \in InTree(u, {}) /\ KeyCount(u, p) < MaxKeys
      /\ k \in Int /\ k \notin H /\ p \in DOMAIN u.page
  BY DEF Inserts, IsInsert, Calls, InTree
<1>2. c \in Calls
  BY DEF Inserts
<1>3. d = IF KeyCount(u, x) = MaxKeys
          THEN [c EXCEPT !.t = s, !.at = Child(s, p, j)]
          ELSE [c EXCEPT !.at = x]
  BY DEF InsertNonfull
<1>4. PICK by, at, level : SoundBy(u, r, {}, by, at, level)
  BY <1>1, SoundIs
<1>5. PICK may : Comes(u, r, p, NoPage, <<>>, may, k, n + 1) /\ HeldIn(u, NoPage, <<>>) = H
  BY DEF Plain, Holding
<1>6. NoPage # p
  BY <1>1, PagesOf DEF NoPage
<1>7. u.page[p].kind = "internal"
  <2>1. u.page[p].kind \in {"leaf", "internal"}
    BY <1>1, <1>4, PageFits
  <2>2. QED
    BY <2>1 DEF IsLeaf
<1> HIDE DEF d, u, p, k, i, s, j, x
<1>8. i \in DOMAIN u.page[p].children /\ Len(u.page[p].children) = Len(u.page[p].keys) + 1
  <2>1. Fits(u, r, p)
    BY <1>1, <1>4, PageFits
  <2>2. Len(u.page[p].children) = Len(u.page[p].keys) + 1
    BY <1>7, <2>1 DEF Fits
  <2>3. i \in 1..Len(u.page[p].keys) + 1
    BY <1>1, BoundInPage DEF KeyCount, i
  <2>4. u.page[p].children \in Seq(Nat)
    BY <1>1, PagesOf
  <2>5. QED
    BY <2>2, <2>3, <2>4
<1>9. Finds(u.page[p].keys, i, k)
  BY <1>1, <1>5, <1>6, PlainFinds DEF i
<1>10. Has(u, r, H)
  BY <1>5 DEF Has, Holding, Comes
<1>11. CASE KeyCount(u, x) = MaxKeys
  <2>1. /\ \E may1 : Moved(u, s, r, p, NoPage, <<>>, level, may, may1)
        /\ Adds(u.page[p].keys, i, s.page[p].keys[i], s.page[p].keys)
    BY <1>1, <1>4, <1>5, <1>8, <1>11, SplitChildMoves DEF s, x, Comes
  <2>2. PICK may1 : Moved(u, s, r, p, NoPage, <<>>, level, may, may1)
    BY <2>1
  <2>3. Comes(s, r, p, NoPage, <<>>, may1, k, n + 1)
    BY <2>2, <1>1, <1>4, <1>5, MovedComes
  <2>4. HeldIn(s, NoPage, <<>>) = H
    BY <2>2, <1>5 DEF Moved
  <2>5. SplitDone(u, r, p, i, s)
    BY <1>1, <1>8, <1>11, SplitHolds DEF s, x
  <2>6. s \in Cache /\ Sound(s, r, {}) /\ j \in DOMAIN s.page[p].children
    BY <2>5 DEF SplitDone, j
  <2>7. Finds(s.page[p].keys, j, k)
    BY <2>1, <1>1, <1>9, FindsMore DEF j
  <2>8. \A e \in DOMAIN s.page[p].keys : s.page[p].keys[e] # k
    <3>1. Has(s, r, H) /\ p \in InTree(s, {})
      BY <2>3, <2>4 DEF Has, Holding, Comes, Within
    <3>2. QED
      BY <3>1, <2>6, <1>1, NotInPage
  <2>9. Comes(s, r, Child(s, p, j), NoPage, <<>>, may1, k, n)
    BY <2>3, <2>6, <2>7, <2>8, <1>1, <1>6, Descends
  <2>10. d.todo = "insert_nonfull" /\ d.key = k /\ d.t = s /\ d.at = Child(s, p, j)
    <3>1. d = [c EXCEPT !.t = s, !.at = Child(s, p, j)]
      BY <1>3, <1>11
    <3>2. QED
      BY <3>1, <1>2 DEF Calls, k
  <2>11. Plain(d.t, r, d.at, d.key, n, H)
    BY <2>4, <2>9, <2>10 DEF Plain, Holding, Comes
  <2>12. QED
    BY <2>10, <2>11 DEF d, k
<1>12. CASE KeyCount(u, x) # MaxKeys
  <2>1. \A e \in DOMAIN u.page[p].keys : u.page[p].keys[e] # k
    BY <1>1, <1>10, NotInPage
  <2>2. Comes(u, r, x, NoPage, <<>>, may, k, n)
    BY <2>1, <1>1, <1>5, <1>6, <1>8, <1>9, Descends DEF x
  <2>3. d.todo = "insert_nonfull" /\ d.key = k /\ d.t = u /\ d.at = x
    <3>1. d = [c EXCEPT !.at = x]
      BY <1>3, <1>12
    <3>2. QED
      BY <3>1, <1>2 DEF Calls, k, u
  <2>4. Plain(d.t, r, d.at, d.key, n, H)
    BY <1>5, <2>2, <2>3 DEF Plain, Holding, Comes
  <2>5. QED
    BY <2>3, <2>4 DEF d, k
<1>13. QED
  BY <1>11, <1>12

\* There is no page less than no levels above the leaves.
LEMMA NotWithin ==
  ASSUME NEW t \in Cache, NEW r, Sound(t, r, {}), NEW p, Within(t, r, p, 0)
  PROVE  FALSE
<1>1. PICK by, at, level : SoundBy(t, r, {}, by, at, level)
  BY SoundIs
<1>2. p \in InTree(t, {}) /\ level[p] < 0
  BY <1>1 DEF Within
<1>3. level[p] \in Nat
  BY <1>1, <1>2, PageFits
<1>4. QED
  BY <1>2, <1>3

\* A call at the root, with as many passes to go as there are pages.
LEMMA RootComes ==
  ASSUME NEW t \in Cache, NEW r, r # NoPage, Sound(t, r, {}),
         NEW P, NEW kp, NEW may, Arranged(t, r, Shows(t, P, kp), may), NEW k \in Int
  PROVE  Comes(t, r, r, P, kp, may, k, Len(t.page))
<1>1. r \in InTree(t, {})
  <2>1. PICK by, at, level : SoundBy(t, r, {}, by, at, level)
    BY SoundIs
  <2>2. QED
    BY <2>1 DEF SoundBy, Forest
<1>2. InTree(t, {}) \subseteq 1..Len(t.page) /\ Len(t.page) \in Nat
  BY PagesOf DEF InTree
<1>3. ASSUME NEW by, NEW at, NEW level, SoundBy(t, r, {}, by, at, level)
      PROVE  level[r] < Len(t.page)
  <2>1. Leveled(InTree(t, {}), Kids(t), level)
    BY <1>3, SoundLeveled
  <2>2. QED
    BY <2>1, <1>1, <1>2, HeightBound
<1>4. may[r] = Int
  BY DEF Arranged, Placed
<1>5. k \in may[r] /\ k + 1 \in may[r]
  BY <1>4
<1>6. QED
  BY <1>1, <1>3, <1>5 DEF Comes, Within, Inside

\* The calls insert_nonfull comes to, with n passes to go.
InsertsIn(t, r, k, H, n) ==
    {c \in Inserts(t, r) :
        /\ c.key = k
        /\ c.todo = "insert_nonfull" => Plain(c.t, r, c.at, k, n, H)
        /\ c.todo = "inserted" => Has(c.t, r, H \cup {k})}

LEMMA InsertPass ==
  ASSUME NEW t, NEW r, NEW k, NEW H, k \notin H, NEW n \in Nat, NEW c \in InsertsIn(t, r, k, H, n + 1)
  PROVE  Pass(c) \in InsertsIn(t, r, k, H, n)
<1>1. c \in Inserts(t, r) /\ c.key = k /\ c.todo \in {"insert_nonfull", "inserted"}
  BY DEF InsertsIn, Inserts, IsInsert
<1>2. CASE c.todo = "inserted"
  BY <1>1, <1>2 DEF InsertsIn, Pass
<1>3. CASE c.todo = "insert_nonfull"
  <2> DEFINE d == InsertNonfull(c)
  <2>1. Pass(c) = d
    BY <1>3 DEF Pass
  <2>2. d \in Inserts(t, r)
    BY <1>1, <1>3, InsertLeaf, InsertBelow
  <2>3. Plain(c.t, r, c.at, c.key, n + 1, H) /\ c.key \notin H
    BY <1>1, <1>3 DEF InsertsIn
  <2>4. CASE IsLeaf(c.t, c.at)
    <3>1. d.todo = "inserted" /\ d.key = c.key /\ Has(d.t, r, H \cup {c.key})
      BY <1>1, <1>3, <2>3, <2>4, InsertLeafHas
    <3> HIDE DEF d
    <3>2. QED
      BY <1>1, <2>1, <2>2, <3>1 DEF InsertsIn
  <2>5. CASE ~IsLeaf(c.t, c.at)
    <3>1. d.todo = "insert_nonfull" /\ d.key = c.key /\ Plain(d.t, r, d.at, d.key, n, H)
      BY <1>1, <1>3, <2>3, <2>5, InsertBelowPlain
    <3> HIDE DEF d
    <3>2. QED
      BY <1>1, <2>1, <2>2, <3>1 DEF InsertsIn
  <2>6. QED
    BY <2>4, <2>5
<1>4. QED
  BY <1>1, <1>2, <1>3

\* What a call of insert_nonfull leaves in the pages.
LEMMA InsertCallHas ==
  ASSUME NEW t \in Cache, NEW r \in InTree(t, {}), Sound(t, r, {}), KeyCount(t, r) < MaxKeys,
         NEW k \in Int, NEW H, Has(t, r, H), k \notin H
  PROVE  Has(Call("insert_nonfull", t, r, k).t, r, H \cup {k})
<1> DEFINE D == Inserts(t, r)
           c == [todo |-> "insert_nonfull", t |-> t, at |-> r, key |-> k]
           N == Len(t.page)
           F == [n \in Nat |-> InsertsIn(t, r, k, H, n)]
<1>1. r \in Nat /\ N \in Nat /\ r # NoPage
  BY PagesOf DEF InTree, NoPage
<1>2. c \in Calls /\ c.t = t /\ c.at = r /\ c.todo = "insert_nonfull" /\ c.key = k
  BY <1>1 DEF Calls
<1>3. Plain(t, r, r, k, N, H)
  <2>1. PICK may : Holding(t, r, NoPage, <<>>, may, H)
    BY DEF Has
  <2>2. Comes(t, r, r, NoPage, <<>>, may, k, N)
    BY <1>1, <2>1, RootComes DEF Holding
  <2>3. QED
    BY <2>1, <2>2 DEF Plain
<1> HIDE DEF c, N
<1>4. c \in D
  BY <1>2, TracksSame DEF Inserts, IsInsert
<1>5. c \in InsertsIn(t, r, k, H, N)
  BY <1>2, <1>3, <1>4 DEF InsertsIn
<1>6. ASSUME NEW x \in D PROVE Pass(x) \in D
  <2>1. x.todo \in {"insert_nonfull", "inserted"}
    BY DEF Inserts, IsInsert
  <2>2. CASE x.todo = "inserted"
    BY <2>2 DEF Pass
  <2>3. CASE x.todo = "insert_nonfull"
    <3>1. Pass(x) = InsertNonfull(x)
      BY <2>3 DEF Pass
    <3>2. InsertNonfull(x) \in D
      BY <2>3, InsertLeaf, InsertBelow
    <3>3. QED
      BY <3>1, <3>2
  <2>4. QED
    BY <2>1, <2>2, <2>3
<1>7. \A n \in Nat : \A x \in F[n + 1] : Pass(x) \in F[n]
  BY InsertPass
<1>8. c \in F[N] /\ F[0] = InsertsIn(t, r, k, H, 0)
  BY <1>1, <1>5
<1> HIDE DEF D, F
<1>9. Passes(c, N) \in F[0]
  BY <1>1, <1>4, <1>6, <1>7, <1>8, PassesCount
<1> DEFINE d == Passes(c, N)
<1>10. d = Call("insert_nonfull", t, r, k)
  BY DEF Call, c, N
<1> HIDE DEF d
<1>11. d \in InsertsIn(t, r, k, H, 0)
  BY <1>8, <1>9 DEF d
<1>12. d \in Inserts(t, r) /\ (d.todo = "insert_nonfull" => Plain(d.t, r, d.at, k, 0, H))
       /\ (d.todo = "inserted" => Has(d.t, r, H \cup {k}))
  BY <1>11 DEF InsertsIn
<1>13. d.t \in Cache /\ Sound(d.t, r, {}) /\ d.todo \in {"insert_nonfull", "inserted"}
  BY <1>12 DEF Inserts, IsInsert, Calls
<1>14. d.todo # "insert_nonfull"
  <2>1. ASSUME d.todo = "insert_nonfull" PROVE FALSE
    <3>1. Within(d.t, r, d.at, 0)
      BY <1>12, <2>1 DEF Plain, Comes
    <3>2. QED
      BY <3>1, <1>13, NotWithin
  <2>2. QED
    BY <2>1
<1>15. QED
  BY <1>10, <1>12, <1>13, <1>14

\* The marks hold no keys.
LEMMA SameHas ==
  ASSUME NEW t, NEW s, s.page = t.page, NEW r, NEW H, Has(t, r, H)
  PROVE  Has(s, r, H)
<1>1. InTree(s, {}) = InTree(t, {}) /\ Kids(s) = Kids(t)
      /\ Shows(s, NoPage, <<>>) = Shows(t, NoPage, <<>>)
  BY DEF InTree, Kids, Shows
<1>2. \A q : KeyCount(s, q) = KeyCount(t, q)
  BY DEF KeyCount
<1>3. PICK may : Holding(t, r, NoPage, <<>>, may, H)
  BY DEF Has
<1>4. Holding(s, r, NoPage, <<>>, may, H)
  BY <1>1, <1>2, <1>3 DEF Holding, HeldIn, Arranged
<1>5. QED
  BY <1>4 DEF Has

\* Without a root there are no pages and no keys.
LEMMA NoneHeld ==
  ASSUME NEW t, Sound(t, NoPage, {}), NEW H, Has(t, NoPage, H)
  PROVE  H = {} /\ InTree(t, {}) = {}
<1>1. InTree(t, {}) = {}
  BY DEF Sound, Holds, TreeHolds
<1>2. QED
  BY <1>1 DEF Has, Holding, HeldIn, Held

\* One key in one page.
LEMMA OneInPlace ==
  ASSUME NEW k \in Int, NEW may
  PROVE  InPlace(Int, <<k>>, <<>>, may)
BY DEF InPlace, Convex, Inside, Ascends, Allots

LEMMA FirstHas ==
  ASSUME NEW t \in Cache, Sound(t, NoPage, {}), NEW k \in Int, NEW n, NEW keys, keys = <<k>>,
         NEW s, Taken(t, NoPage, n, "leaf", keys, <<>>, s)
  PROVE  Has(s, n, {k})
<1> DEFINE may == [q \in {n} |-> Int]
           ks == Shows(s, NoPage, <<>>)
<1>1. /\ s \in Cache /\ n \in DOMAIN s.page /\ n # NoPage /\ s.page[n].kind = "leaf"
      /\ InTree(s, {n}) = InTree(t, {}) /\ s.page[n].keys = keys /\ s.page[n].children = <<>>
  BY DEF Taken, NoPage
<1>2. InTree(t, {}) = {}
  BY DEF Sound, Holds, TreeHolds
<1>3. InTree(s, {}) = {n}
  <2>1. s.page[n].kind # "free"
    BY <1>1
  <2>2. InTree(s, {}) = InTree(s, {n}) \cup {n}
    BY <1>1, <2>1, HandedIn
  <2>3. QED
    BY <1>1, <1>2, <2>2
<1>4. ks[n] = keys /\ Kids(s)[n] = <<>>
  BY <1>1 DEF Shows, Kids
<1>5. may[n] = Int
  OBVIOUS
<1>6. keys \in Seq(Int) /\ Len(keys) = KeyCount(s, n) /\ ToSet(keys) = {k}
  <2>1. keys \in Seq(Int) /\ DOMAIN keys = 1..1 /\ keys[1] = k
    OBVIOUS
  <2>2. ToSet(keys) = {k}
    BY <2>1 DEF ToSet
  <2>3. QED
    BY <1>1, <2>1, <2>2 DEF KeyCount
<1>7. InPlace(Int, keys, <<>>, may)
  BY OneInPlace
<1> HIDE DEF ks, may
<1>8. Arranged(s, n, ks, may)
  BY <1>3, <1>4, <1>5, <1>6, <1>7 DEF Arranged, Placed
<1>9. Held(InTree(s, {}), ks) = {k}
  BY <1>3, <1>4, <1>6 DEF Held
<1>10. Holding(s, n, NoPage, <<>>, may, {k})
  BY <1>8, <1>9 DEF Holding, HeldIn, ks
<1>11. QED
  BY <1>10 DEF Has

LEMMA AboveHas ==
  ASSUME NEW t \in Cache, NEW p, p # NoPage, Sound(t, p, {}), NEW H, Has(t, p, H),
         NEW n, NEW children, children = <<p>>,
         NEW v, Taken(t, p, n, "internal", <<>>, children, v)
  PROVE  Has(v, n, H)
<1> DEFINE T == InTree(t, {})
           ks0 == Shows(t, NoPage, <<>>)
           ks1 == Shows(v, NoPage, <<>>)
<1>1. /\ v \in Cache /\ n \in DOMAIN v.page /\ n # NoPage /\ v.page[n].kind = "internal"
      /\ InTree(v, {n}) = T /\ n \notin T /\ v.page[n].keys = <<>> /\ v.page[n].children = children
      /\ \A q \in T : v.page[q] = t.page[q]
  BY DEF Taken, NoPage
<1>2. InTree(v, {}) = T \cup {n}
  BY <1>1, HandedIn
<1>3. PICK may : Arranged(t, p, ks0, may) /\ Held(T, ks0) = H
  BY DEF Has, Holding, HeldIn
<1>4. PICK by, at, level : SoundBy(t, p, {}, by, at, level)
  BY SoundIs
<1>5. Sorted(DOMAIN t.page, T, p, Kids(t), ks0, by, at, level, may)
  BY <1>3, <1>4, SortedIs
<1>6. p \in T /\ \A q \in T : \A j \in DOMAIN Kids(t)[q] : Kids(t)[q][j] \in T
  <2>1. p \in T
    BY <1>4 DEF SoundBy, Forest
  <2>2. ASSUME NEW q \in T, NEW j \in DOMAIN Kids(t)[q] PROVE Kids(t)[q][j] \in T
    BY <1>5, SortedPage
  <2>3. QED
    BY <2>1, <2>2
<1>7. T \subseteq DOMAIN t.page /\ T \subseteq DOMAIN v.page
  BY <1>1 DEF InTree
<1>8. \A q \in T : Kids(v)[q] = Kids(t)[q] /\ ks1[q] = ks0[q]
  BY <1>1, <1>7 DEF Kids, Shows
<1>9. ks1[n] = <<>> /\ Kids(v)[n] = <<p>>
  BY <1>1 DEF Kids, Shows
<1>10. \A q \in T \cup {n} : ks1[q] \in Seq(Int) /\ Len(ks1[q]) = KeyCount(v, q)
  <2>1. ks1[n] \in Seq(Int) /\ Len(ks1[n]) = KeyCount(v, n)
    <3>1. ks1[n] = <<>> /\ v.page[n].keys = <<>>
      BY <1>1, <1>9
    <3>2. <<>> \in Seq(Int)
      OBVIOUS
    <3>3. QED
      BY ONLY <3>1, <3>2 DEF KeyCount
  <2>2. ASSUME NEW q \in T PROVE ks1[q] \in Seq(Int) /\ Len(ks1[q]) = KeyCount(v, q)
    <3>1. ks1[q] = ks0[q] /\ ks0[q] \in Seq(Int) /\ Len(ks0[q]) = KeyCount(t, q)
      BY <1>3, <1>8 DEF Arranged
    <3>2. KeyCount(v, q) = KeyCount(t, q)
      BY <1>1 DEF KeyCount
    <3>3. QED
      BY <3>1, <3>2
  <2>3. QED
    BY <2>1, <2>2
<1>11. Placed(T, p, Kids(t), ks0, may)
  BY <1>3 DEF Arranged
<1>12. HasSole(Kids(v), n, p)
  BY <1>9 DEF HasSole
<1>13. PICK may1 : (\A q \in T : may1[q] = may[q]) /\ may1[n] = Int
  <2> DEFINE m == [q \in T \cup {n} |-> IF q = n THEN Int ELSE may[q]]
  <2>1. (\A q \in T : m[q] = may[q]) /\ m[n] = Int
    BY <1>1
  <2>2. QED
    BY <2>1
<1> DEFINE kids0 == Kids(t)
           kids1 == Kids(v)
<1> HIDE DEF T, ks0, ks1, kids0, kids1
<1>14. Placed(T \cup {n}, n, kids1, ks1, may1) /\ Held(T \cup {n}, ks1) = Held(T, ks0)
  <2>1. n \notin T /\ p \in T
    BY <1>1, <1>6
  <2>2. Placed(T, p, kids0, ks0, may) /\ \A q \in T : \A j \in DOMAIN kids0[q] : kids0[q][j] \in T
    BY <1>6, <1>11 DEF kids0
  <2>3. \A q \in T : kids1[q] = kids0[q] /\ ks1[q] = ks0[q]
    BY <1>8 DEF kids0, kids1
  <2>4. ks1[n] = <<>> /\ HasSole(kids1, n, p)
    BY <1>9, <1>12 DEF kids1
  <2>5. QED
    BY ONLY <2>1, <2>2, <2>3, <2>4, <1>13, RaisedPlaced
<1>15. Holding(v, n, NoPage, <<>>, may1, H)
  <2>1. Arranged(v, n, ks1, may1)
    BY <1>2, <1>10, <1>14 DEF Arranged, kids1
  <2>2. Held(InTree(v, {}), ks1) = H
    BY <1>2, <1>3, <1>14
  <2>3. QED
    BY <2>1, <2>2 DEF Holding, HeldIn, ks1
<1>16. QED
  BY <1>15 DEF Has

\* split_child leaves the keys held as they were.
LEMMA SplitHas ==
  ASSUME NEW t \in Cache, NEW r, Sound(t, r, {}), NEW H, Has(t, r, H),
         NEW p \in InTree(t, {}), NEW i \in DOMAIN t.page[p].children,
         KeyCount(t, Child(t, p, i)) = MaxKeys
  PROVE  Has(SplitChild(t, p, i), r, H)
<1> DEFINE s == SplitChild(t, p, i)
<1>1. PICK may : Holding(t, r, NoPage, <<>>, may, H)
  BY DEF Has
<1>2. PICK by, at, level : SoundBy(t, r, {}, by, at, level)
  BY SoundIs
<1>3. PICK may1 : Moved(t, s, r, p, NoPage, <<>>, level, may, may1)
  BY <1>1, <1>2, SplitChildMoves DEF Holding
<1> HIDE DEF s
<1>4. Holding(s, r, NoPage, <<>>, may1, H)
  BY <1>1, <1>3 DEF Moved, Holding
<1>5. QED
  BY <1>4 DEF Has, s

\* insert: the new key, and all that were there.
LEMMA InsertedHas ==
  ASSUME NEW t \in Cache, NEW p \in Nat, Sound(t, p, {}), NEW k \in Int,
         NEW H, Has(t, p, H), k \notin H
  PROVE  Has(Inserted(t, p, k).t, Inserted(t, p, k).root, H \cup {k})
<1>1. CASE p = NoPage
  <2>1. PICK f : f = Inserted(t, NoPage, k)
    OBVIOUS
  <2>2. PICK keys : keys = <<k>>
    OBVIOUS
  <2>3. Taken(t, NoPage, f.root, "leaf", keys, <<>>, f.t)
    BY <1>1, <2>1, <2>2, FirstTaken
  <2>4. Has(f.t, f.root, {k})
    BY <1>1, <2>2, <2>3, FirstHas
  <2>5. H = {}
    BY <1>1, NoneHeld
  <2>6. H \cup {k} = {k}
    BY <2>5
  <2>7. QED
    BY <1>1, <2>1, <2>4, <2>6
<1>2. CASE p # NoPage /\ KeyCount(t, p) # MaxKeys
  <2> DEFINE c == Call("insert_nonfull", t, p, k)
             s == [c.t EXCEPT !.header = TRUE]
  <2>1. Inserted(t, p, k).t = s /\ Inserted(t, p, k).root = p
    BY <1>2 DEF Inserted
  <2>2. p \in InTree(t, {})
    BY <1>2 DEF Sound, Holds, TreeHolds
  <2>3. KeyCount(t, p) < MaxKeys
    <3>1. PICK by, at, level : SoundBy(t, p, {}, by, at, level)
      BY SoundIs
    <3>2. Fits(t, p, p) /\ t.page[p].keys \in Seq(Int)
      BY <2>2, <3>1, PageFits, PagesOf
    <3>3. KeyCount(t, p) \in Nat /\ KeyCount(t, p) <= MaxKeys
      BY <3>2 DEF KeyCount, Fits
    <3>4. MaxKeys \in Nat
      BY BTreeAssumption DEF MaxKeys
    <3>5. QED
      BY <1>2, <3>3, <3>4
  <2>4. c \in Inserts(t, p)
    BY <2>2, <2>3, InsertCallHolds
  <2>5. Has(c.t, p, H \cup {k})
    BY <2>2, <2>3, InsertCallHas
  <2> HIDE DEF c
  <2>6. s.page = c.t.page
    BY <2>4 DEF Inserts, Calls, Cache
  <2> HIDE DEF s
  <2>7. Has(s, p, H \cup {k})
    BY <2>5, <2>6, SameHas
  <2>8. QED
    BY <2>1, <2>7
<1>3. CASE p # NoPage /\ KeyCount(t, p) = MaxKeys
  <2>1. PICK n, v : TakenAbove(t, p, k, n, v)
    BY <1>3, AboveTaken
  <2>2. PICK children : children = <<p>>
    OBVIOUS
  <2>3. Taken(t, p, n, "internal", <<>>, children, v)
    BY <2>1, <2>2 DEF TakenAbove
  <2>4. IsAbove(t, p, n, v)
    BY <1>3, <2>2, <2>3, NewRoot
  <2>5. Has(v, n, H)
    BY <1>3, <2>2, <2>3, AboveHas
  <2>6. /\ Sound(v, n, {}) /\ v \in Cache /\ n \in InTree(v, {}) /\ KeyCount(v, n) = 0
        /\ 1 \in DOMAIN v.page[n].children /\ KeyCount(v, Child(v, n, 1)) = MaxKeys
    BY <2>4 DEF IsAbove
  <2>7. MaxKeys \in Nat /\ 1 < MaxKeys /\ 0 < MaxKeys
    BY BTreeAssumption DEF MaxKeys
  <2> DEFINE w == SplitChild(v, n, 1)
  <2>8. SplitDone(v, n, n, 1, w)
    BY <2>6, <2>7, SplitHolds
  <2>9. Has(w, n, H)
    BY <2>5, <2>6, SplitHas
  <2> HIDE DEF w
  <2>10. w \in Cache /\ Sound(w, n, {}) /\ n \in InTree(w, {}) /\ KeyCount(w, n) < MaxKeys
    BY <2>6, <2>7, <2>8 DEF SplitDone
  <2>11. Has(Call("insert_nonfull", w, n, k).t, n, H \cup {k})
    BY <2>9, <2>10, InsertCallHas
  <2>12. QED
    BY <2>1, <2>11 DEF TakenAbove, w
<1>4. QED
  BY <1>1, <1>2, <1>3

-----------------------------------------------------------------------------
(* ensure_child_has_extra: the key looked for is still below the child the   *)
(* call goes on with.                                                        *)

\* A key of a child lies between its neighbours in the page above.
LEMMA ChildKey ==
  ASSUME NEW D, NEW T, NEW r, NEW kids, NEW keys, NEW by, NEW at, NEW level, NEW may,
         Sorted(D, T, r, kids, keys, by, at, level, may),
         NEW p \in T, NEW j \in DOMAIN kids[p], NEW c, c = kids[p][j],
         NEW e \in DOMAIN keys[c], NEW y, y = keys[c][e]
  PROVE  /\ y \in Int /\ Inside(y, may[p]) /\ c \in T
         /\ \A i \in DOMAIN keys[p] : IF i < j THEN keys[p][i] < y ELSE y < keys[p][i]
<1>1. c \in T /\ may[c] = Gap(may[p], keys[p], j)
  BY SortedPage
<1>2. y \in Int /\ Inside(y, may[c])
  BY <1>1, SortedPage
<1>3. y \in Gap(may[p], keys[p], j) /\ y + 1 \in Gap(may[p], keys[p], j)
  BY <1>1, <1>2 DEF Inside
<1>4. \A i \in DOMAIN keys[p] : keys[p][i] \in Int
  BY SortedPage
<1>5. ASSUME NEW i \in DOMAIN keys[p] PROVE IF i < j THEN keys[p][i] < y ELSE y < keys[p][i]
  <2>1. (IF i < j THEN keys[p][i] < y ELSE y <= keys[p][i])
        /\ (IF i < j THEN keys[p][i] < y + 1 ELSE y + 1 <= keys[p][i])
    BY <1>3 DEF Gap
  <2>2. QED
    BY ONLY <2>1, <1>2, <1>4, <1>5
<1>6. Inside(y, may[p])
  BY <1>3 DEF Inside, Gap
<1>7. QED
  BY <1>1, <1>2, <1>5, <1>6

LEMMA ChildKeyShown ==
  ASSUME NEW t \in Cache, NEW r, Sound(t, r, {}),
         NEW P, NEW kp, NEW may, Arranged(t, r, Shows(t, P, kp), may),
         NEW p \in InTree(t, {}), P # p, NEW j \in DOMAIN t.page[p].children,
         NEW c, c = Child(t, p, j), c # P,
         NEW e \in DOMAIN t.page[c].keys, NEW y, y = t.page[c].keys[e]
  PROVE  /\ y \in Int /\ Inside(y, may[p]) /\ y \in HeldIn(t, P, kp)
         /\ \A i \in DOMAIN t.page[p].keys :
               IF i < j THEN t.page[p].keys[i] < y ELSE y < t.page[p].keys[i]
<1> DEFINE T == InTree(t, {})
           keys == Shows(t, P, kp)
           kids == Kids(t)
           D == DOMAIN t.page
<1>1. PICK by, at, level : SoundBy(t, r, {}, by, at, level)
  BY SoundIs
<1>2. Sorted(D, T, r, kids, keys, by, at, level, may)
  BY <1>1, SortedIs
<1>3. c \in T /\ T \subseteq D
  BY <1>1, ChildFits DEF InTree
<1>4. keys[p] = t.page[p].keys /\ keys[c] = t.page[c].keys /\ kids[p] = t.page[p].children
      /\ c = kids[p][j]
  BY <1>3, ShowsElsewhere DEF Kids, Child
<1>5. y \in HeldIn(t, P, kp)
  <2>1. y \in ToSet(keys[c])
    BY <1>4 DEF ToSet
  <2>2. y \in Held(T, keys)
    BY <1>3, <2>1 DEF Held
  <2>3. QED
    BY <2>2 DEF HeldIn
<1> HIDE DEF T, keys, kids, D
<1>6. p \in T /\ j \in DOMAIN kids[p] /\ c = kids[p][j] /\ e \in DOMAIN keys[c] /\ y = keys[c][e]
  BY <1>4 DEF T
<1>7. /\ y \in Int /\ Inside(y, may[p])
      /\ \A i \in DOMAIN keys[p] : IF i < j THEN keys[p][i] < y ELSE y < keys[p][i]
  BY ONLY <1>2, <1>6, ChildKey
<1>8. QED
  BY <1>4, <1>5, <1>7, Zenon

\* From t to s keys are moved, and below child i of p the key k is looked for.
Ready(t, s, r, p, P, kp, level, may, k, i) ==
    /\ \E may1 : Moved(t, s, r, p, P, kp, level, may, may1)
    /\ i \in DOMAIN s.page[p].children
    /\ Finds(s.page[p].keys, i, k)
    /\ \A e \in DOMAIN s.page[p].keys : s.page[p].keys[e] # k

LEMMA SameReady ==
  ASSUME NEW t \in Cache, NEW r, NEW by, NEW at, NEW level, SoundBy(t, r, {}, by, at, level),
         NEW P, NEW kp, NEW may, Arranged(t, r, Shows(t, P, kp), may),
         NEW p \in InTree(t, {}), NEW i \in DOMAIN t.page[p].children, NEW k,
         Finds(t.page[p].keys, i, k), \A e \in DOMAIN t.page[p].keys : t.page[p].keys[e] # k
  PROVE  Ready(t, t, r, p, P, kp, level, may, k, i)
<1> DEFINE T == InTree(t, {})
<1>1. ASSUME NEW by1, NEW at1, NEW level1, SoundBy(t, r, {}, by1, at1, level1)
      PROVE  level1[p] = level[p]
  <2>1. Leveled(T, Kids(t), level) /\ Leveled(T, Kids(t), level1)
    BY <1>1, SoundLeveled
  <2>2. level[p] \in Nat
    BY PageFits
  <2>3. level[p] + 1 \in Int /\ level[p] < level[p] + 1
    BY <2>2
  <2>4. \A q \in T : level[q] < level[p] + 1 => level1[q] = level[q]
    BY <2>1, <2>3, LevelsStay
  <2>5. QED
    BY <2>3, <2>4
<1>2. Spared(t, t, P, may, may)
  BY DEF Spared
<1>3. Moved(t, t, r, p, P, kp, level, may, may)
  BY <1>1, <1>2 DEF Moved
<1>4. QED
  BY <1>3 DEF Ready

LEMMA PrevReady ==
  ASSUME NEW t \in Cache, NEW r, NEW by, NEW at, NEW level, SoundBy(t, r, {}, by, at, level),
         NEW P, NEW kp, NEW may, Arranged(t, r, Shows(t, P, kp), may),
         NEW p \in InTree(t, {}), Aside(t, p, P),
         NEW i \in DOMAIN t.page[p].children, i - 1 \in DOMAIN t.page[p].children,
         KeyCount(t, Child(t, p, i - 1)) >= MinDegree, NEW k \in Int,
         Finds(t.page[p].keys, i, k), \A e \in DOMAIN t.page[p].keys : t.page[p].keys[e] # k
  PROVE  Ready(t, BorrowFromPrev(t, p, i), r, p, P, kp, level, may, k, i)
<1> DEFINE s == BorrowFromPrev(t, p, i)
           j == i - 1
           l == Child(t, p, j)
           ks == t.page[p].keys
           kl == t.page[l].keys
           x == Last(kl)
<1>1. /\ \E may1 : Moved(t, s, r, p, P, kp, level, may, may1)
      /\ s.page[p].keys = [ks EXCEPT ![j] = x]
      /\ s.page[p].children = t.page[p].children
  BY BorrowPrevMoves
<1>2. /\ p \in DOMAIN t.page /\ ks \in Seq(Int) /\ t.page[p].children \in Seq(Nat)
      /\ j \in DOMAIN ks /\ j \in Nat
  <2>1. j \in DOMAIN t.page[p].children /\ j + 1 \in DOMAIN t.page[p].children
    <3>1. p \in DOMAIN t.page
      BY PageFits
    <3>2. t.page[p].children \in Seq(Nat)
      BY <3>1, PagesOf
    <3>3. i \in Nat
      BY <3>2
    <3>4. QED
      BY <3>3
  <2>2. QED
    BY <2>1, PairAbove
<1>3. Len(kl) \in DOMAIN kl /\ kl \in Seq(Int) /\ x = kl[Len(kl)]
  <2>1. l \in InTree(t, {}) /\ l # r
    BY ChildFits
  <2>2. Sound(t, r, {})
    BY SoundIs
  <2>3. Len(kl) \in Nat \ {0} /\ kl \in Seq(Int)
    BY <2>1, <2>2, HasKeys
  <2>4. QED
    BY <2>3 DEF Last
<1>4. x \in Int /\ x < ks[j]
  <2>1. Sound(t, r, {})
    BY SoundIs
  <2>2. P # p /\ l # P
    BY DEF Aside
  <2> HIDE DEF s, ks, kl, l, x, j
  <2>3. /\ x \in Int
        /\ \A e \in DOMAIN t.page[p].keys :
              IF e < j THEN t.page[p].keys[e] < x ELSE x < t.page[p].keys[e]
    <3>1. /\ l = Child(t, p, j) /\ Len(kl) \in DOMAIN t.page[l].keys
          /\ x = t.page[l].keys[Len(kl)] /\ j \in DOMAIN t.page[p].children
      BY <1>3 DEF l, kl, j
    <3>2. QED
      BY <2>1, <2>2, <3>1, ChildKeyShown
  <2>4. j \in DOMAIN t.page[p].keys /\ ~(j < j)
    BY <1>2 DEF ks
  <2>5. QED
    BY <2>3, <2>4 DEF ks
<1> HIDE DEF s, l, kl, x
<1>5. Finds(ks, i, k) /\ \A e \in DOMAIN ks : ks[e] # k
  OBVIOUS
<1>6. j < i /\ i \in Nat
  BY <1>2
<1>7. ks[j] < k /\ ks[j] \in Int
  BY <1>2, <1>5, <1>6 DEF Finds
<1> HIDE DEF ks, j
<1>8. x < k
  BY <1>4, <1>7
<1>9. Finds([ks EXCEPT ![j] = x], i, k)
  BY <1>2, <1>4, <1>5, <1>6, <1>8, FindsAnew
<1>10. \A e \in DOMAIN ks : [ks EXCEPT ![j] = x][e] # k
  BY <1>4, <1>5, <1>8
<1>11. DOMAIN [ks EXCEPT ![j] = x] = DOMAIN ks
  OBVIOUS
<1>12. Ready(t, s, r, p, P, kp, level, may, k, i)
  BY <1>1, <1>9, <1>10, <1>11 DEF Ready
<1>13. QED
  BY <1>12 DEF s

LEMMA NextReady ==
  ASSUME NEW t \in Cache, NEW r, NEW by, NEW at, NEW level, SoundBy(t, r, {}, by, at, level),
         NEW P, NEW kp, NEW may, Arranged(t, r, Shows(t, P, kp), may),
         NEW p \in InTree(t, {}), Aside(t, p, P),
         NEW i \in DOMAIN t.page[p].children, i + 1 \in DOMAIN t.page[p].children,
         KeyCount(t, Child(t, p, i + 1)) >= MinDegree, NEW k \in Int,
         Finds(t.page[p].keys, i, k), \A e \in DOMAIN t.page[p].keys : t.page[p].keys[e] # k
  PROVE  Ready(t, BorrowFromNext(t, p, i), r, p, P, kp, level, may, k, i)
<1>0. LET s == BorrowFromNext(t, p, i)
      IN  /\ \E may1 : Moved(t, s, r, p, P, kp, level, may, may1)
          /\ s.page[p].keys = [t.page[p].keys EXCEPT
                                 ![i] = Head(t.page[Child(t, p, i + 1)].keys)]
          /\ s.page[p].children = t.page[p].children
  <2>1. /\ t \in Cache /\ SoundBy(t, r, {}, by, at, level) /\ Arranged(t, r, Shows(t, P, kp), may)
        /\ p \in InTree(t, {}) /\ Aside(t, p, P)
        /\ i \in DOMAIN t.page[p].children /\ i + 1 \in DOMAIN t.page[p].children
        /\ KeyCount(t, Child(t, p, i + 1)) >= MinDegree
    OBVIOUS
  <2>2. QED
    BY ONLY <2>1, BorrowNextMoves
<1> DEFINE s == BorrowFromNext(t, p, i)
           j == i + 1
           l == Child(t, p, j)
           ks == t.page[p].keys
           kl == t.page[l].keys
           x == Head(kl)
<1>1. /\ \E may1 : Moved(t, s, r, p, P, kp, level, may, may1)
      /\ s.page[p].keys = [ks EXCEPT ![i] = x]
      /\ s.page[p].children = t.page[p].children
  BY <1>0
<1>2. /\ p \in DOMAIN t.page /\ ks \in Seq(Int) /\ t.page[p].children \in Seq(Nat)
      /\ i \in DOMAIN ks /\ i \in Nat
  BY PairAbove
<1>3. 1 \in DOMAIN kl /\ kl \in Seq(Int) /\ x = kl[1]
  <2>1. l \in InTree(t, {}) /\ l # r
    BY ChildFits
  <2>2. Sound(t, r, {})
    BY SoundIs
  <2>3. Len(kl) \in Nat \ {0} /\ kl \in Seq(Int)
    BY <2>1, <2>2, HasKeys
  <2>4. QED
    BY <2>3
<1>4. x \in Int /\ ks[i] < x
  <2>1. Sound(t, r, {})
    BY SoundIs
  <2>2. P # p /\ l # P
    BY DEF Aside
  <2> HIDE DEF s, ks, kl, l, x, j
  <2>3. /\ x \in Int
        /\ \A e \in DOMAIN t.page[p].keys :
              IF e < j THEN t.page[p].keys[e] < x ELSE x < t.page[p].keys[e]
    <3>1. /\ l = Child(t, p, j) /\ 1 \in DOMAIN t.page[l].keys
          /\ x = t.page[l].keys[1] /\ j \in DOMAIN t.page[p].children
      BY <1>3 DEF l, kl, j
    <3>2. QED
      BY <2>1, <2>2, <3>1, ChildKeyShown
  <2>4. i \in DOMAIN t.page[p].keys /\ i < j
    BY <1>2 DEF ks, j
  <2>5. QED
    BY <2>3, <2>4 DEF ks
<1> HIDE DEF s, l, kl, x
<1>5. Finds(ks, i, k) /\ \A e \in DOMAIN ks : ks[e] # k
  OBVIOUS
<1>6. ~(i < i)
  BY <1>2
<1>7. k <= ks[i] /\ ks[i] \in Int
  BY <1>2, <1>5, <1>6 DEF Finds
<1> HIDE DEF ks, j
<1>8. k < x /\ k <= x
  BY <1>4, <1>7
<1>9. Finds([ks EXCEPT ![i] = x], i, k)
  BY <1>2, <1>4, <1>5, <1>6, <1>8, FindsAnew
<1>10. \A e \in DOMAIN ks : [ks EXCEPT ![i] = x][e] # k
  BY <1>4, <1>5, <1>8
<1>11. DOMAIN [ks EXCEPT ![i] = x] = DOMAIN ks
  OBVIOUS
<1>12. Ready(t, s, r, p, P, kp, level, may, k, i)
  BY <1>1, <1>9, <1>10, <1>11 DEF Ready
<1>13. QED
  BY <1>12 DEF s

\* A key that is at most at place j, of a page that ascends, is not there without it.
LEMMA NotLeft ==
  ASSUME NEW ks \in Seq(Int), Ascends(ks), NEW j \in DOMAIN ks, NEW k,
         \A e \in DOMAIN ks : ks[e] = k => e = j
  PROVE  \A e \in DOMAIN RemoveAt(ks, j) : RemoveAt(ks, j)[e] # k
<1> DEFINE k0 == RemoveAt(ks, j)
<1>1. HasRemoved(Int, ks, j, k0)
  BY Removing
<1>2. /\ DOMAIN ks = 1..Len(ks) /\ Len(ks) \in Nat /\ j \in 1..Len(ks) /\ j \in Nat
  OBVIOUS
<1>3. /\ k0 \in Seq(Int) /\ Len(k0) = Len(ks) - 1 /\ DOMAIN k0 = 1..Len(k0)
      /\ \A e \in 1..j - 1 : k0[e] = ks[e]
      /\ \A e \in j..Len(ks) - 1 : k0[e] = ks[e + 1]
  BY <1>1, <1>2 DEF HasRemoved
<1> HIDE DEF k0
<1>4. ASSUME NEW e \in DOMAIN k0 PROVE k0[e] # k
  <2>1. e \in 1..Len(ks) - 1 /\ e \in Nat /\ e \in DOMAIN ks /\ e + 1 \in DOMAIN ks
    BY <1>2, <1>3
  <2>2. CASE e < j
    <3>1. e \in 1..j - 1 /\ e # j
      BY <2>1, <2>2, <1>2
    <3>2. QED
      BY <3>1, <2>1, <1>3
  <2>3. CASE ~(e < j)
    <3>1. e \in j..Len(ks) - 1 /\ e + 1 # j
      BY <2>1, <2>3, <1>2
    <3>2. QED
      BY <3>1, <2>1, <1>3
  <2>4. QED
    BY <2>2, <2>3
<1>5. QED
  BY <1>4 DEF k0

LEMMA MergeReady ==
  ASSUME NEW t \in Cache, NEW r, NEW by, NEW at, NEW level, SoundBy(t, r, {}, by, at, level),
         NEW P, NEW kp, NEW may, Arranged(t, r, Shows(t, P, kp), may),
         NEW p \in InTree(t, {}), Aside(t, p, P),
         NEW j \in DOMAIN t.page[p].children, j + 1 \in DOMAIN t.page[p].children,
         NEW i, i = j \/ i = j + 1, NEW k \in Int, Finds(t.page[p].keys, i, k),
         Ascends(t.page[p].keys),
         \A e \in DOMAIN t.page[p].keys : t.page[p].keys[e] = k => e = j
  PROVE  Ready(t, MergeChildren(t, p, j), r, p, P, kp, level, may, k, j)
         /\ Child(MergeChildren(t, p, j), p, j) = Child(t, p, j)
<1> DEFINE s == MergeChildren(t, p, j)
           ks == t.page[p].keys
           cs == t.page[p].children
<1>1. /\ \E may1 : Moved(t, s, r, p, P, kp, level, may, may1)
      /\ s.page[p].keys = RemoveAt(ks, j)
      /\ s.page[p].children = RemoveAt(cs, j + 1)
  BY MergeChildrenMoves
<1>2. /\ p \in DOMAIN t.page /\ ks \in Seq(Int) /\ cs \in Seq(Nat) /\ Len(cs) = Len(ks) + 1
      /\ j \in DOMAIN ks /\ j \in Nat
  BY PairAbove
<1> HIDE DEF s
<1>3. j \in DOMAIN RemoveAt(cs, j + 1) /\ RemoveAt(cs, j + 1)[j] = cs[j]
  <2> DEFINE c1 == RemoveAt(cs, j + 1)
  <2>1. j + 1 \in 1..Len(cs)
    BY <1>2
  <2>2. HasRemoved(Nat, cs, j + 1, c1)
    BY <1>2, <2>1, Removing
  <2> HIDE DEF c1
  <2>3. c1 \in Seq(Nat) /\ Len(c1) = Len(cs) - 1 /\ \A e \in 1..(j + 1) - 1 : c1[e] = cs[e]
    BY <2>2 DEF HasRemoved
  <2>4. j \in 1..Len(ks) /\ Len(ks) \in Nat /\ j \in 1..(j + 1) - 1
    BY <1>2
  <2>5. j \in DOMAIN c1 /\ c1[j] = cs[j]
    BY <1>2, <2>3, <2>4
  <2>6. QED
    BY <2>5 DEF c1
<1>4. Finds(RemoveAt(ks, j), j, k)
  BY <1>2, FindsLess
<1>5. \A e \in DOMAIN RemoveAt(ks, j) : RemoveAt(ks, j)[e] # k
  BY <1>2, NotLeft
<1>6. Ready(t, s, r, p, P, kp, level, may, k, j)
  BY <1>1, <1>3, <1>4, <1>5 DEF Ready
<1>7. Child(s, p, j) = Child(t, p, j)
  BY <1>1, <1>3 DEF Child
<1>8. QED
  BY <1>6, <1>7 DEF s

LEMMA EnsureReady ==
  ASSUME NEW t \in Cache, NEW r, NEW by, NEW at, NEW level, SoundBy(t, r, {}, by, at, level),
         NEW P, NEW kp, NEW may, Arranged(t, r, Shows(t, P, kp), may),
         NEW p \in InTree(t, {}), Aside(t, p, P),
         NEW i \in DOMAIN t.page[p].children, NEW k \in Int,
         Finds(t.page[p].keys, i, k), \A e \in DOMAIN t.page[p].keys : t.page[p].keys[e] # k,
         NEW d, d = EnsureChildHasExtra(t, p, i), d.t.wild = FALSE
  PROVE  Ready(t, d.t, r, p, P, kp, level, may, k, d.at)
<1> DEFINE rich(j) == /\ j \in DOMAIN t.page[p].children
                      /\ KeyCount(t, Child(t, p, j)) >= MinDegree
           m == Len(t.page[p].children)
           e == EnsureChildHasExtra(t, p, i)
<1>1. /\ DOMAIN t.page[p].children = 1..m /\ m \in Nat /\ i \in 1..m
  <2>1. t.page[p].children \in Seq(Nat)
    BY PageFits, PagesOf
  <2>2. QED
    BY <2>1
<1>2. Ascends(t.page[p].keys)
  <2>1. P # p /\ p \in DOMAIN t.page
    BY DEF Aside, InTree
  <2>2. Shows(t, P, kp)[p] = t.page[p].keys
    BY <2>1, ShowsElsewhere
  <2>3. QED
    BY <2>2 DEF Arranged, Placed, InPlace
<1>3. CASE rich(i)
  <2>1. e = [t |-> t, at |-> i]
    BY <1>3 DEF EnsureChildHasExtra
  <2>2. Ready(t, t, r, p, P, kp, level, may, k, i)
    BY SameReady
  <2> HIDE DEF e
  <2>3. QED
    BY <2>1, <2>2 DEF e
<1>4. CASE ~rich(i) /\ rich(i - 1)
  <2>1. e = [t |-> BorrowFromPrev(t, p, i), at |-> i]
    BY <1>4 DEF EnsureChildHasExtra
  <2>2. Ready(t, BorrowFromPrev(t, p, i), r, p, P, kp, level, may, k, i)
    BY <1>4, PrevReady
  <2> HIDE DEF e
  <2>3. QED
    BY <2>1, <2>2 DEF e
<1>5. CASE ~rich(i) /\ ~rich(i - 1) /\ rich(i + 1)
  <2>1. e = [t |-> BorrowFromNext(t, p, i), at |-> i]
    BY <1>5 DEF EnsureChildHasExtra
  <2>2. Ready(t, BorrowFromNext(t, p, i), r, p, P, kp, level, may, k, i)
    <3>1. /\ t \in Cache /\ SoundBy(t, r, {}, by, at, level) /\ Arranged(t, r, Shows(t, P, kp), may)
          /\ p \in InTree(t, {}) /\ Aside(t, p, P)
          /\ i \in DOMAIN t.page[p].children /\ i + 1 \in DOMAIN t.page[p].children
          /\ KeyCount(t, Child(t, p, i + 1)) >= MinDegree /\ k \in Int
          /\ Finds(t.page[p].keys, i, k) /\ \A j \in DOMAIN t.page[p].keys : t.page[p].keys[j] # k
      BY <1>5
    <3>2. QED
      BY ONLY <3>1, NextReady
  <2> HIDE DEF e
  <2>3. QED
    BY <2>1, <2>2 DEF e
<1>6. CASE ~rich(i) /\ ~rich(i - 1) /\ ~rich(i + 1) /\ i < m
  <2>1. e = [t |-> MergeChildren(t, p, i), at |-> i]
    BY <1>6 DEF EnsureChildHasExtra
  <2>2. i + 1 \in DOMAIN t.page[p].children
    BY <1>1, <1>6
  <2>3. Ready(t, MergeChildren(t, p, i), r, p, P, kp, level, may, k, i)
    <3>1. /\ t \in Cache /\ SoundBy(t, r, {}, by, at, level) /\ Arranged(t, r, Shows(t, P, kp), may)
          /\ p \in InTree(t, {}) /\ Aside(t, p, P)
          /\ i \in DOMAIN t.page[p].children /\ i + 1 \in DOMAIN t.page[p].children
          /\ (i = i \/ i = i + 1) /\ k \in Int /\ Finds(t.page[p].keys, i, k)
          /\ Ascends(t.page[p].keys) /\ \A j \in DOMAIN t.page[p].keys : t.page[p].keys[j] = k => j = i
      BY <1>2, <2>2
    <3>2. QED
      BY ONLY <3>1, MergeReady
  <2> HIDE DEF e
  <2>4. QED
    BY <2>1, <2>3 DEF e
<1>7. CASE ~rich(i) /\ ~rich(i - 1) /\ ~rich(i + 1) /\ ~(i < m)
  <2> DEFINE j == i - 1
  <2>1. e = [t |-> MergeChildren(t, p, j), at |-> j]
    BY <1>7 DEF EnsureChildHasExtra
  <2> HIDE DEF e
  <2>2. CASE j = 0
    <3>1. e.t = [t EXCEPT !.wild = TRUE]
      BY <2>1, <2>2 DEF MergeChildren
    <3>2. e.t.wild = TRUE
      BY <3>1 DEF Cache
    <3>3. QED
      BY <3>2 DEF e
  <2>3. CASE j # 0
    <3>1. j \in 1..m /\ j + 1 = i
      BY <1>1, <2>3
    <3>2. j \in DOMAIN t.page[p].children /\ j + 1 \in DOMAIN t.page[p].children
      BY <1>1, <3>1
    <3> HIDE DEF j
    <3>3. Ready(t, MergeChildren(t, p, j), r, p, P, kp, level, may, k, j)
      <4>1. /\ t \in Cache /\ SoundBy(t, r, {}, by, at, level) /\ Arranged(t, r, Shows(t, P, kp), may)
            /\ p \in InTree(t, {}) /\ Aside(t, p, P)
            /\ j \in DOMAIN t.page[p].children /\ j + 1 \in DOMAIN t.page[p].children
            /\ (i = j \/ i = j + 1) /\ k \in Int /\ Finds(t.page[p].keys, i, k)
            /\ Ascends(t.page[p].keys) /\ \A v \in DOMAIN t.page[p].keys : t.page[p].keys[v] = k => v = j
        BY <1>2, <3>1, <3>2
      <4>2. QED
        BY ONLY <4>1, MergeReady
    <3>4. QED
      BY <2>1, <3>3 DEF e
  <2>4. QED
    BY <2>2, <2>3
<1>8. QED
  BY <1>3, <1>4, <1>5, <1>6, <1>7

-----------------------------------------------------------------------------
(* Removal, pass by pass.  remove_from seeks the key k it was called with,   *)
(* or the neighbour x of k that it has put in place of k and is to take out   *)
(* of its leaf.  Until that is done page P shows the key k it had.            *)

\* Page P has x where it had k, no key that is held lies between the two, and k
\* is not among the cuts m.
Swaps(t, P, kp, may, x, k, H, m) ==
    /\ P \in InTree(t, {}) /\ x \in H /\ x # k /\ Inside(x, may[P])
    /\ \E i \in DOMAIN kp : kp[i] = k /\ t.page[P].keys = [kp EXCEPT ![i] = x]
    /\ \A y \in H : ~(x < y /\ y < k) /\ ~(k < y /\ y < x)
    /\ \A e \in m : IF x < k THEN e <= k ELSE k < e

Seeker(t, r, p, P, kp, may, x, k, n, H) ==
    /\ Comes(t, r, p, P, kp, may, x, n)
    /\ HeldIn(t, P, kp) = H
    /\ \/ P = NoPage /\ x = k
       \/ Swaps(t, P, kp, may, x, k, H, may[p])

Seeks(t, r, p, x, k, n, H) ==
    \E P, kp, may : Seeker(t, r, p, P, kp, may, x, k, n, H)

\* The key k lies inside the cuts of the page that shows it.
LEMMA SwapsInside ==
  ASSUME NEW t \in Cache, NEW r, NEW P, NEW kp, NEW may, Arranged(t, r, Shows(t, P, kp), may),
         NEW x, NEW k, NEW H, NEW m, Swaps(t, P, kp, may, x, k, H, m)
  PROVE  Inside(k, may[P]) /\ kp \in Seq(Int) /\ P \in DOMAIN t.page /\ k \in Int
<1>1. PICK i \in DOMAIN kp : kp[i] = k
  BY DEF Swaps
<1>2. P \in InTree(t, {}) /\ P \in DOMAIN t.page
  BY DEF Swaps, InTree
<1>3. Shows(t, P, kp)[P] = kp
  BY <1>2, ShowsThere
<1>4. kp \in Seq(Int) /\ \A j \in DOMAIN kp : Inside(kp[j], may[P])
  BY <1>2, <1>3 DEF Arranged, Placed, InPlace
<1>5. QED
  BY <1>1, <1>2, <1>4

LEMMA SeekerAside ==
  ASSUME NEW t \in Cache, NEW r, Sound(t, r, {}), NEW p, NEW P, NEW kp, NEW may, NEW x \in Int,
         NEW k \in Int, NEW n, NEW H, Seeker(t, r, p, P, kp, may, x, k, n, H)
  PROVE  Aside(t, p, P) /\ p \in InTree(t, {}) /\ p \in DOMAIN t.page /\ P # p
<1>1. PICK by, at, level : SoundBy(t, r, {}, by, at, level)
  BY SoundIs
<1>2. p \in InTree(t, {}) /\ p \in DOMAIN t.page /\ Arranged(t, r, Shows(t, P, kp), may)
  BY DEF Seeker, Comes, Within, InTree
<1>3. \A q \in InTree(t, {}) : q # NoPage
  BY PagesOf DEF InTree, NoPage
<1>4. \A j \in DOMAIN t.page[p].children : Child(t, p, j) \in InTree(t, {})
  BY <1>1, <1>2, ChildFits
<1>5. CASE P = NoPage
  BY <1>2, <1>3, <1>4, <1>5 DEF Aside
<1>6. CASE Swaps(t, P, kp, may, x, k, H, may[p])
  <2>1. Inside(k, may[P])
    BY <1>2, <1>6, SwapsInside
  <2>2. ~(may[P] \subseteq may[p])
    <3>1. ASSUME may[P] \subseteq may[p] PROVE FALSE
      <4>1. k \in may[p] /\ k + 1 \in may[p]
        BY <2>1, <3>1 DEF Inside
      <4>2. (IF x < k THEN k <= k ELSE k < k) /\ (IF x < k THEN k + 1 <= k ELSE k < k + 1)
        BY <1>6, <4>1 DEF Swaps
      <4>3. QED
        BY <4>2
    <3>2. QED
      BY <3>1
  <2>3. P # p
    BY <2>2
  <2>4. ASSUME NEW j \in DOMAIN t.page[p].children, Child(t, p, j) = P PROVE FALSE
    <3> DEFINE T == InTree(t, {})
               keys == Shows(t, P, kp)
               kids == Kids(t)
               D == DOMAIN t.page
    <3>1. Sorted(D, T, r, kids, keys, by, at, level, may)
      BY <1>1, <1>2, SortedIs
    <3>2. kids[p] = t.page[p].children /\ P = kids[p][j] /\ j \in DOMAIN kids[p] /\ p \in T
      BY <1>2, <2>4 DEF Kids, Child
    <3> HIDE DEF T, keys, kids, D
    <3>3. may[P] = Gap(may[p], keys[p], j)
      BY <3>1, <3>2, SortedPage
    <3>4. may[P] \subseteq may[p]
      BY <3>3 DEF Gap
    <3>5. QED
      BY <2>2, <3>4
  <2>5. QED
    BY <1>2, <2>3, <2>4 DEF Aside
<1>7. QED
  BY <1>2, <1>5, <1>6 DEF Seeker, Aside

\* Keys are moved, and the call goes on at the child.
LEMMA SeekerGoes ==
  ASSUME NEW t \in Cache, NEW r, NEW by, NEW at, NEW level, SoundBy(t, r, {}, by, at, level),
         NEW p, NEW P, NEW kp, NEW may, NEW x \in Int, NEW k \in Int, NEW n \in Nat, NEW H,
         Seeker(t, r, p, P, kp, may, x, k, n + 1, H),
         NEW s \in Cache, Sound(s, r, {}), NEW i,
         Ready(t, s, r, p, P, kp, level, may, x, i)
  PROVE  Seeks(s, r, Child(s, p, i), x, k, n, H)
<1> DEFINE c == Child(s, p, i)
<1>1. Sound(t, r, {})
  BY SoundIs
<1>2. P # p
  BY <1>1, SeekerAside
<1>3. PICK may1 : Moved(t, s, r, p, P, kp, level, may, may1)
  BY DEF Ready
<1>4. Comes(t, r, p, P, kp, may, x, n + 1) /\ HeldIn(t, P, kp) = H
  BY DEF Seeker
<1>5. Comes(s, r, p, P, kp, may1, x, n + 1)
  BY <1>3, <1>4, MovedComes
<1>6. /\ i \in DOMAIN s.page[p].children
      /\ Finds(s.page[p].keys, i, x) /\ \A e \in DOMAIN s.page[p].keys : s.page[p].keys[e] # x
  BY DEF Ready
<1>7. Comes(s, r, c, P, kp, may1, x, n) /\ may1[c] \subseteq may1[p]
  BY <1>2, <1>5, <1>6, Descends
<1>8. /\ HeldIn(s, P, kp) = H /\ may1[p] = may[p]
      /\ P \in InTree(t, {}) =>
            P \in InTree(s, {}) /\ s.page[P].keys = t.page[P].keys /\ may1[P] = may[P]
  BY <1>3, <1>4 DEF Moved, Spared
<1> HIDE DEF c
<1>9. ASSUME Swaps(t, P, kp, may, x, k, H, may[p]) PROVE Swaps(s, P, kp, may1, x, k, H, may1[c])
  <2>1. P \in InTree(t, {})
    BY <1>9 DEF Swaps
  <2>2. P \in InTree(s, {}) /\ s.page[P].keys = t.page[P].keys /\ may1[P] = may[P]
    BY <1>8, <2>1
  <2>3. may1[c] \subseteq may[p]
    BY <1>7, <1>8
  <2>4. QED
    BY <1>9, <2>2, <2>3 DEF Swaps
<1>10. Seeker(s, r, c, P, kp, may1, x, k, n, H)
  BY <1>7, <1>8, <1>9 DEF Seeker
<1>11. QED
  BY <1>10 DEF Seeks, c

\* The neighbour of k is not in a page above another that is between them.
LEMMA SwapsBetween ==
  ASSUME NEW t \in Cache, NEW r, Sound(t, r, {}), NEW p, NEW P, NEW kp, NEW may, NEW x \in Int,
         NEW k \in Int, NEW n, NEW H, Seeker(t, r, p, P, kp, may, x, k, n, H),
         Swaps(t, P, kp, may, x, k, H, may[p]),
         ~IsLeaf(t, p), NEW j \in DOMAIN t.page[p].keys, t.page[p].keys[j] = x
  PROVE  FALSE
<1>1. PICK by, at, level : SoundBy(t, r, {}, by, at, level)
  BY SoundIs
<1>2. Aside(t, p, P) /\ p \in InTree(t, {}) /\ p \in DOMAIN t.page /\ P # p
  BY SeekerAside
<1>3. /\ t.page[p].keys \in Seq(Int) /\ t.page[p].children \in Seq(Nat)
      /\ Len(t.page[p].children) = Len(t.page[p].keys) + 1
  <2>1. t.page[p].kind = "internal" /\ Fits(t, r, p)
    BY <1>1, <1>2, PageFits DEF IsLeaf
  <2>2. QED
    BY <1>2, <2>1, PagesOf DEF Fits
<1>4. j \in DOMAIN t.page[p].children /\ j + 1 \in DOMAIN t.page[p].children /\ j \in Nat
  <2>1. PICK ks : ks = t.page[p].keys
    OBVIOUS
  <2>2. PICK cs : cs = t.page[p].children
    OBVIOUS
  <2>3. ks \in Seq(Int) /\ cs \in Seq(Nat) /\ Len(cs) = Len(ks) + 1 /\ j \in DOMAIN ks
    BY <1>3, <2>1, <2>2
  <2>4. j \in DOMAIN cs /\ j + 1 \in DOMAIN cs /\ j \in Nat
    BY ONLY <2>3
  <2>5. QED
    BY <2>2, <2>4
<1>5. Arranged(t, r, Shows(t, P, kp), may) /\ HeldIn(t, P, kp) = H
  BY DEF Seeker, Comes
<1>6. ASSUME NEW v \in DOMAIN t.page[p].children
      PROVE  \E y \in H : /\ y \in Int /\ Inside(y, may[p])
                          /\ IF j < v THEN x < y ELSE y < x
  <2>1. PICK c : c = Child(t, p, v)
    OBVIOUS
  <2>2. c \in InTree(t, {}) \ {r} /\ c # P
    BY <1>1, <1>2, <2>1, ChildFits DEF Aside
  <2>3. Len(t.page[c].keys) \in Nat \ {0} /\ t.page[c].keys \in Seq(Int)
    BY <2>2, HasKeys
  <2>4. 1 \in DOMAIN t.page[c].keys
    BY <2>3
  <2>5. PICK y : y = t.page[c].keys[1]
    OBVIOUS
  <2>6. /\ y \in Int /\ Inside(y, may[p]) /\ y \in HeldIn(t, P, kp)
        /\ \A i \in DOMAIN t.page[p].keys :
              IF i < v THEN t.page[p].keys[i] < y ELSE y < t.page[p].keys[i]
    BY <1>2, <1>5, <2>1, <2>2, <2>4, <2>5, ChildKeyShown
  <2>7. IF j < v THEN x < y ELSE y < x
    BY <2>6
  <2>8. QED
    BY <1>5, <2>6, <2>7
<1>7. CASE x < k
  <2>1. j < j + 1
    BY <1>4
  <2>2. PICK y \in H : y \in Int /\ Inside(y, may[p]) /\ x < y
    BY <1>4, <1>6, <2>1
  <2>3. y + 1 <= k
    BY <1>7, <2>2 DEF Swaps, Inside
  <2>4. x < y /\ y < k
    BY <2>2, <2>3
  <2>5. QED
    BY <2>4 DEF Swaps
<1>8. CASE ~(x < k)
  <2>1. ~(j < j)
    BY <1>4
  <2>2. PICK y \in H : y \in Int /\ Inside(y, may[p]) /\ y < x
    BY <1>4, <1>6, <2>1
  <2>3. k < y
    BY <1>8, <2>2 DEF Swaps, Inside
  <2>4. QED
    BY <2>2, <2>3 DEF Swaps
<1>9. QED
  BY <1>7, <1>8

\* The key is not in the leaf the call came to: it is held nowhere.
LEMMA AbsentHas ==
  ASSUME NEW t \in Cache, NEW r, Sound(t, r, {}), NEW p, NEW x \in Int, NEW k \in Int, NEW n,
         NEW H, Seeks(t, r, p, x, k, n, H), IsLeaf(t, p),
         \A e \in DOMAIN t.page[p].keys : t.page[p].keys[e] # x
  PROVE  k \notin H /\ Has(t, r, H)
<1>1. PICK by, at, level : SoundBy(t, r, {}, by, at, level)
  BY SoundIs
<1>2. PICK P, kp, may : Seeker(t, r, p, P, kp, may, x, k, n, H)
  BY DEF Seeks
<1>3. p \in InTree(t, {}) /\ p \in DOMAIN t.page /\ P # p
  BY <1>2, SeekerAside
<1>4. Arranged(t, r, Shows(t, P, kp), may) /\ Inside(x, may[p]) /\ HeldIn(t, P, kp) = H
  BY <1>2 DEF Seeker, Comes
<1> DEFINE T == InTree(t, {})
           keys == Shows(t, P, kp)
           kids == Kids(t)
           D == DOMAIN t.page
<1>5. Sorted(D, T, r, kids, keys, by, at, level, may)
  BY <1>1, <1>4, SortedIs
<1>6. level[p] = 0
  BY <1>1, <1>3, LeavesAtBottom DEF IsLeaf
<1>7. keys[p] = t.page[p].keys
  BY <1>3, ShowsElsewhere
<1>8. H = Held(T, keys)
  BY <1>4 DEF HeldIn
<1> HIDE DEF T, keys, kids, D
<1>9. x \notin H
  <2>1. ASSUME x \in H PROVE FALSE
    <3>1. p \in T /\ x \in Held(T, keys)
      BY <1>3, <1>8, <2>1 DEF T
    <3>2. \E j \in DOMAIN keys[p] : keys[p][j] = x
      BY ONLY <1>4, <1>5, <1>6, <3>1, KeyInLeaf
    <3>3. QED
      BY <1>7, <3>2
  <2>2. QED
    BY <2>1
<1>10. P = NoPage /\ x = k
  BY <1>2, <1>9 DEF Seeker, Swaps
<1>11. Holding(t, r, NoPage, <<>>, may, H)
  <2>1. Shows(t, NoPage, kp) = Shows(t, NoPage, <<>>)
    BY ShowsAll
  <2>2. QED
    BY <1>4, <1>10, <2>1 DEF Holding, HeldIn
<1>12. QED
  BY <1>9, <1>10, <1>11 DEF Has

\* Other keys in the same places, and the cuts renamed by g to fit.
Relabels(T, keys, keys1, g, may) ==
    /\ g \in [Int -> Int] /\ \A a, b \in Int : a <= b => g[a] <= g[b]
    /\ \A q \in T :
          /\ keys[q] \in Seq(Int) /\ keys1[q] \in Seq(Int) /\ Len(keys1[q]) = Len(keys[q])
          /\ Ascends(keys1[q])
          /\ \A j \in DOMAIN keys1[q] :
                /\ \A c \in Int : keys[q][j] < g[c] <=> keys1[q][j] < c
                /\ g[keys1[q][j]] \in may[q] /\ g[keys1[q][j] + 1] \in may[q]

LEMMA RelabelPlaced ==
  ASSUME NEW T, NEW r, NEW kids, NEW keys, NEW may, Placed(T, r, kids, keys, may), r \in T,
         \A q \in T : \A j \in DOMAIN kids[q] : kids[q][j] \in T,
         NEW keys1, NEW g, Relabels(T, keys, keys1, g, may)
  PROVE  \E may1 : Placed(T, r, kids, keys1, may1)
<1> DEFINE may1 == [q \in T |-> {c \in Int : g[c] \in may[q]}]
<1>1. \A q \in T : may1[q] = {c \in Int : g[c] \in may[q]}
  OBVIOUS
<1>2. g \in [Int -> Int] /\ \A a, b \in Int : a <= b => g[a] <= g[b]
  BY DEF Relabels
<1> HIDE DEF may1
<1>3. may1[r] = Int
  <2>1. may[r] = Int
    BY DEF Placed
  <2>2. QED
    BY <1>1, <1>2, <2>1
<1>4. ASSUME NEW q \in T PROVE InPlace(may1[q], keys1[q], kids[q], may1)
  <2> DEFINE m == may[q]
             m1 == may1[q]
             ks == keys[q]
             k1 == keys1[q]
             cs == kids[q]
  <2>1. m1 = {c \in Int : g[c] \in m}
    BY <1>1
  <2>2. /\ ks \in Seq(Int) /\ k1 \in Seq(Int) /\ Len(k1) = Len(ks) /\ Ascends(k1)
        /\ \A j \in DOMAIN k1 : /\ \A c \in Int : ks[j] < g[c] <=> k1[j] < c
                                /\ g[k1[j]] \in m /\ g[k1[j] + 1] \in m
    BY DEF Relabels
  <2>3. Convex(m) /\ \A j \in DOMAIN cs : may[cs[j]] = Gap(m, ks, j) /\ cs[j] \in T
    BY DEF Placed, InPlace, Allots
  <2>4. \A j \in DOMAIN cs : may1[cs[j]] = {c \in Int : g[c] \in Gap(m, ks, j)}
    BY <1>1, <2>3
  <2> HIDE DEF m, m1, ks, k1, cs
  <2>5. Convex(m1)
    <3>1. ASSUME NEW a \in m1, NEW b \in m1, NEW c \in Int, a <= c, c <= b PROVE c \in m1
      <4>1. a \in Int /\ b \in Int /\ g[a] \in m /\ g[b] \in m
        BY <2>1
      <4>2. g[a] <= g[c] /\ g[c] <= g[b] /\ g[c] \in Int
        BY <1>2, <3>1, <4>1
      <4>3. g[c] \in m
        BY <2>3, <4>1, <4>2 DEF Convex
      <4>4. QED
        BY <2>1, <4>3
    <3>2. m1 \subseteq Int
      BY <2>1
    <3>3. QED
      BY <3>1, <3>2 DEF Convex
  <2>6. DOMAIN ks = DOMAIN k1 /\ \A j \in DOMAIN k1 : ks[j] \in Int /\ k1[j] \in Int /\ k1[j] + 1 \in Int
    BY <2>2
  <2>7. \A j \in DOMAIN k1 : Inside(k1[j], m1)
    BY <2>1, <2>2, <2>6 DEF Inside
  <2>8. ASSUME NEW j \in DOMAIN cs PROVE may1[cs[j]] = Gap(m1, k1, j)
    <3>1. \A c \in Int : \A e \in DOMAIN k1 : /\ ks[e] < g[c] <=> k1[e] < c
                                              /\ g[c] <= ks[e] <=> c <= k1[e]
      <4>1. ASSUME NEW c \in Int, NEW e \in DOMAIN k1
            PROVE  (ks[e] < g[c] <=> k1[e] < c) /\ (g[c] <= ks[e] <=> c <= k1[e])
        <5>1. ks[e] < g[c] <=> k1[e] < c
          BY <2>2
        <5>2. ks[e] \in Int /\ k1[e] \in Int /\ g[c] \in Int
          BY <1>2, <2>6
        <5>3. QED
          BY ONLY <5>1, <5>2, <4>1
      <4>2. QED
        BY <4>1
    <3>2. Gap(m1, k1, j) =
            {c \in m1 : \A e \in DOMAIN k1 : IF e < j THEN k1[e] < c ELSE c <= k1[e]}
      BY DEF Gap
    <3>3. Gap(m, ks, j) = {c \in m : \A e \in DOMAIN k1 : IF e < j THEN ks[e] < c ELSE c <= ks[e]}
      BY <2>6 DEF Gap
    <3>4. ASSUME NEW c \in Int
          PROVE  g[c] \in Gap(m, ks, j) <=> c \in Gap(m1, k1, j)
      <4>1. c \in m1 <=> g[c] \in m
        BY <2>1
      <4>2. \A e \in DOMAIN k1 : (IF e < j THEN ks[e] < g[c] ELSE g[c] <= ks[e])
                                   <=> (IF e < j THEN k1[e] < c ELSE c <= k1[e])
        BY <3>1
      <4>3. QED
        BY <3>2, <3>3, <4>1, <4>2
    <3>5. Gap(m1, k1, j) \subseteq Int
      BY <2>1, <3>2
    <3>6. QED
      BY <2>4, <3>4, <3>5
  <2>9. Allots(m1, k1, cs, may1)
    BY <2>8 DEF Allots
  <2>10. InPlace(m1, k1, cs, may1)
    BY <2>2, <2>5, <2>7, <2>9 DEF InPlace
  <2>11. QED
    BY <2>10 DEF m1, k1, cs
<1>5. Placed(T, r, kids, keys1, may1)
  BY <1>3, <1>4 DEF Placed
<1>6. QED
  BY <1>5

\* The key y becomes y1: k becomes x, and the others, which do not lie between
\* the two, stay.
Near(x, k, y, y1) ==
    \/ y = k /\ y1 = x
    \/ y1 = y /\ y # x /\ y # k /\ ~(x < y /\ y < k) /\ ~(k < y /\ y < x)

\* x takes the place of its neighbour k.
LEMMA NeighbourPlaced ==
  ASSUME NEW D, NEW T, NEW r, NEW kids, NEW keys, NEW by, NEW at, NEW level, NEW may,
         Sorted(D, T, r, kids, keys, by, at, level, may),
         NEW P \in T, NEW i \in DOMAIN keys[P], NEW k \in Int, keys[P][i] = k,
         NEW x \in Int, x # k, Inside(x, may[P]),
         \A y \in Held(T, keys) : y # x /\ ~(x < y /\ y < k) /\ ~(k < y /\ y < x),
         NEW keys1, keys1[P] = [keys[P] EXCEPT ![i] = x], \A q \in T \ {P} : keys1[q] = keys[q]
  PROVE  /\ \E may1 : Placed(T, r, kids, keys1, may1)
         /\ Held(T, keys1) = (Held(T, keys) \ {k}) \cup {x}
<1> DEFINE g == [c \in Int |-> IF x < k THEN (IF x < c /\ c <= k THEN k + 1 ELSE c)
                               ELSE (IF k < c /\ c <= x THEN k ELSE c)]
<1>1. ASSUME NEW q \in T
      PROVE  /\ keys[q] \in Seq(Int) /\ keys1[q] \in Seq(Int) /\ Len(keys1[q]) = Len(keys[q])
             /\ DOMAIN keys1[q] = DOMAIN keys[q]
             /\ \A j \in DOMAIN keys[q] : /\ keys[q][j] \in Int /\ keys1[q][j] \in Int
                                          /\ keys1[q][j] = IF q = P /\ j = i THEN x ELSE keys[q][j]
             /\ Ascends(keys[q]) /\ Convex(may[q])
             /\ \A j \in DOMAIN keys[q] : Inside(keys[q][j], may[q])
  <2>1. /\ keys[q] \in Seq(Int) /\ (\A j \in DOMAIN keys[q] : keys[q][j] \in Int)
        /\ Ascends(keys[q]) /\ Convex(may[q])
        /\ \A j \in DOMAIN keys[q] : Inside(keys[q][j], may[q])
    BY SortedPage
  <2>2. CASE q = P
    <3> DEFINE ks == keys[P]
    <3>1. ks \in Seq(Int) /\ i \in DOMAIN ks /\ keys1[q] = [ks EXCEPT ![i] = x]
      BY <2>1, <2>2
    <3> HIDE DEF ks
    <3>2. /\ keys1[q] \in Seq(Int) /\ Len(keys1[q]) = Len(ks) /\ DOMAIN keys1[q] = DOMAIN ks
          /\ \A j \in DOMAIN ks : keys1[q][j] = IF j = i THEN x ELSE ks[j]
      BY <3>1
    <3>3. \A j \in DOMAIN ks : ks[j] \in Int
      BY <3>1
    <3>4. QED
      BY <2>1, <2>2, <3>2, <3>3 DEF ks
  <2>3. CASE q # P
    BY <2>1, <2>3
  <2>4. QED
    BY <2>2, <2>3
<1>2. ASSUME NEW q \in T, NEW j \in DOMAIN keys[q]
      PROVE  Near(x, k, keys[q][j], keys1[q][j])
  <2>1. keys[q][j] \in Held(T, keys)
    BY DEF Held, ToSet
  <2>2. keys1[q][j] = IF q = P /\ j = i THEN x ELSE keys[q][j]
    BY <1>1
  <2>3. keys[q][j] = k => q = P /\ j = i
    BY KeyOnce
  <2>4. QED
    BY <2>1, <2>2, <2>3 DEF Near
<1>3. g \in [Int -> Int] /\ \A a, b \in Int : a <= b => g[a] <= g[b]
  OBVIOUS
<1>4. ASSUME NEW q \in T PROVE Ascends(keys1[q])
  <2>1. ASSUME NEW a \in DOMAIN keys1[q], NEW b \in DOMAIN keys1[q], a < b
        PROVE  keys1[q][a] < keys1[q][b]
    <3>1. /\ keys[q][a] < keys[q][b] /\ keys[q][a] \in Int /\ keys[q][b] \in Int
      BY <1>1, <2>1 DEF Ascends
    <3>2. Near(x, k, keys[q][a], keys1[q][a]) /\ Near(x, k, keys[q][b], keys1[q][b])
      BY <1>1, <1>2
    <3>3. QED
      BY ONLY <3>1, <3>2, x \in Int, k \in Int, x # k DEF Near
  <2>2. QED
    BY <2>1 DEF Ascends
<1>5. ASSUME NEW q \in T, NEW j \in DOMAIN keys1[q]
      PROVE  /\ \A c \in Int : keys[q][j] < g[c] <=> keys1[q][j] < c
             /\ g[keys1[q][j]] \in may[q] /\ g[keys1[q][j] + 1] \in may[q]
  <2> DEFINE y == keys[q][j]
             z == keys1[q][j]
  <2>1. y \in Int /\ z \in Int /\ Near(x, k, y, z) /\ Inside(y, may[q])
    BY <1>1, <1>2
  <2>2. (z = x /\ y = k) \/ z = y
    BY <2>1 DEF Near
  <2>3. Inside(z, may[q])
    <3>1. (q = P /\ z = x) \/ z = y
      BY <1>1
    <3>2. QED
      BY <2>1, <3>1
  <2> HIDE DEF y, z
  <2>4. ASSUME NEW c \in Int PROVE y < g[c] <=> z < c
    <3>1. g[c] = IF x < k THEN (IF x < c /\ c <= k THEN k + 1 ELSE c)
                 ELSE (IF k < c /\ c <= x THEN k ELSE c)
      OBVIOUS
    <3> HIDE DEF g
    <3>2. QED
      BY ONLY <2>1, <3>1, <2>4, x \in Int, k \in Int, x # k DEF Near
  <2>5. /\ z = y => (g[z] = z /\ g[z + 1] = z + 1) \/ (z = x /\ y = k)
        /\ z = x /\ y = k => g[z] \in {x, k} /\ g[z + 1] \in {k + 1, x + 1}
    <3>1. /\ g[z] = IF x < k THEN (IF x < z /\ z <= k THEN k + 1 ELSE z)
                    ELSE (IF k < z /\ z <= x THEN k ELSE z)
          /\ g[z + 1] = IF x < k THEN (IF x < z + 1 /\ z + 1 <= k THEN k + 1 ELSE z + 1)
                        ELSE (IF k < z + 1 /\ z + 1 <= x THEN k ELSE z + 1)
      BY <2>1
    <3> HIDE DEF g
    <3>2. QED
      BY ONLY <2>1, <3>1, x \in Int, k \in Int, x # k DEF Near
  <2>6. g[z] \in may[q] /\ g[z + 1] \in may[q]
    <3> HIDE DEF g
    <3>1. QED
      BY <2>1, <2>2, <2>3, <2>5 DEF Inside
  <2>7. QED
    BY <2>4, <2>6 DEF y, z
<1> HIDE DEF g
<1>6. Relabels(T, keys, keys1, g, may)
  BY <1>1, <1>3, <1>4, <1>5 DEF Relabels
<1>7. \E may1 : Placed(T, r, kids, keys1, may1)
  <2>1. Placed(T, r, kids, keys, may)
    BY DEF Sorted, Placed
  <2>2. r \in T /\ \A q \in T : \A j \in DOMAIN kids[q] : kids[q][j] \in T
    <3>1. r \in T
      BY SortedPage
    <3>2. ASSUME NEW q \in T, NEW j \in DOMAIN kids[q] PROVE kids[q][j] \in T
      BY SortedPage
    <3>3. QED
      BY <3>1, <3>2
  <2>3. QED
    BY ONLY <1>6, <2>1, <2>2, RelabelPlaced
<1>8. Held(T, keys1) = (Held(T, keys) \ {k}) \cup {x}
  <2>1. ASSUME NEW z \in Held(T, keys1) PROVE z \in (Held(T, keys) \ {k}) \cup {x}
    <3>1. PICK q \in T : \E j \in DOMAIN keys1[q] : z = keys1[q][j]
      BY DEF Held, ToSet
    <3>2. PICK j \in DOMAIN keys1[q] : z = keys1[q][j]
      BY <3>1
    <3>3. j \in DOMAIN keys[q] /\ Near(x, k, keys[q][j], z)
      BY <1>1, <1>2, <3>2
    <3>4. keys[q][j] \in Held(T, keys)
      BY <3>3 DEF Held, ToSet
    <3>5. QED
      BY <3>3, <3>4 DEF Near
  <2>2. x \in Held(T, keys1)
    <3>1. i \in DOMAIN keys1[P] /\ keys1[P][i] = x
      BY <1>1
    <3>2. QED
      BY <3>1 DEF Held, ToSet
  <2>3. ASSUME NEW z \in Held(T, keys) \ {k} PROVE z \in Held(T, keys1)
    <3>1. PICK q \in T : \E j \in DOMAIN keys[q] : z = keys[q][j]
      BY DEF Held, ToSet
    <3>2. PICK j \in DOMAIN keys[q] : z = keys[q][j]
      BY <3>1
    <3>3. Near(x, k, z, keys1[q][j])
      BY <1>2, <3>2
    <3>4. keys1[q][j] = z /\ j \in DOMAIN keys1[q]
      BY <1>1, <2>3, <3>2, <3>3 DEF Near
    <3>5. QED
      BY <3>4 DEF Held, ToSet
  <2>4. QED
    BY <2>1, <2>2, <2>3
<1>9. QED
  BY <1>7, <1>8

\* What was taken out can be put in again.
LEMMA RemovedAdds ==
  ASSUME NEW k \in Seq(Int), NEW j \in 1..Len(k), NEW k0, HasRemoved(Int, k, j, k0)
  PROVE  Adds(k0, j, k[j], k)
<1>1. k0 \in Seq(Int) /\ Len(k0) = Len(k) - 1 /\ Len(k) \in Nat /\ Len(k) >= 1
      /\ (\A e \in 1..j - 1 : k0[e] = k[e]) /\ (\A e \in j..Len(k) - 1 : k0[e] = k[e + 1])
  BY DEF HasRemoved
<1>2. HasInserted(Int, k0, j, k[j], k)
  BY <1>1 DEF HasInserted
<1>3. j \in 1..Len(k0) + 1 /\ k[j] \in Int
  BY <1>1
<1>4. QED
  BY <1>1, <1>2, <1>3 DEF Adds

\* The neighbour x is out of its leaf, and takes the place of k.
LEMMA SwapHas ==
  ASSUME NEW s \in Cache, NEW r, Sound(s, r, {}), NEW P \in InTree(s, {}), NEW kp, NEW may, NEW H,
         Holding(s, r, P, kp, may, H),
         NEW i \in DOMAIN kp, NEW k \in Int, kp[i] = k, NEW x \in Int, x # k, Inside(x, may[P]),
         s.page[P].keys = [kp EXCEPT ![i] = x],
         \A y \in H : y # x /\ ~(x < y /\ y < k) /\ ~(k < y /\ y < x)
  PROVE  Has(s, r, (H \ {k}) \cup {x})
<1> DEFINE T == InTree(s, {})
           keys == Shows(s, P, kp)
           keys1 == Shows(s, NoPage, <<>>)
           kids == Kids(s)
           D == DOMAIN s.page
<1>1. PICK by, at, level : SoundBy(s, r, {}, by, at, level)
  BY SoundIs
<1>2. Arranged(s, r, keys, may) /\ Held(T, keys) = H
  BY DEF Holding, HeldIn
<1>3. Sorted(D, T, r, kids, keys, by, at, level, may)
  BY <1>1, <1>2, SortedIs
<1>4. P \in DOMAIN s.page /\ keys[P] = kp
  BY ShowsThere DEF InTree
<1>5. \A q \in DOMAIN s.page : keys1[q] = s.page[q].keys
  BY ShowsAll
<1>6. \A q \in T \ {P} : keys1[q] = keys[q]
  BY <1>5, ShowsElsewhere DEF InTree
<1>7. \A q \in T : keys1[q] \in Seq(Int) /\ Len(keys1[q]) = KeyCount(s, q)
  BY <1>5, PagesOf DEF InTree, KeyCount
<1>8. P \in T
  OBVIOUS
<1> HIDE DEF T, keys, keys1, kids, D
<1>9. /\ P \in T /\ i \in DOMAIN keys[P] /\ keys[P][i] = k
      /\ \A y \in Held(T, keys) : y # x /\ ~(x < y /\ y < k) /\ ~(k < y /\ y < x)
      /\ keys1[P] = [keys[P] EXCEPT ![i] = x]
      /\ k \in Int /\ x \in Int /\ x # k /\ Inside(x, may[P])
  BY <1>2, <1>4, <1>5, <1>8
<1>10. /\ \E may1 : Placed(T, r, kids, keys1, may1)
       /\ Held(T, keys1) = (Held(T, keys) \ {k}) \cup {x}
  BY ONLY <1>3, <1>6, <1>9, NeighbourPlaced
<1>11. PICK may1 : Placed(T, r, kids, keys1, may1)
  BY <1>10
<1>12. Arranged(s, r, keys1, may1)
  BY <1>7, <1>11 DEF Arranged, T, kids
<1>13. Held(T, keys1) = (H \ {k}) \cup {x}
  BY <1>2, <1>10
<1>14. Holding(s, r, NoPage, <<>>, may1, (H \ {k}) \cup {x})
  BY <1>12, <1>13 DEF Holding, HeldIn, T, keys1
<1>15. QED
  BY <1>14 DEF Has

\* The key sought is in a leaf, and is taken out.
LEMMA LeafFound ==
  ASSUME NEW t \in Cache, NEW r, Sound(t, r, {}), NEW p, NEW x \in Int, NEW k \in Int, NEW n,
         NEW H, Seeks(t, r, p, x, k, n, H), IsLeaf(t, p), NEW i, NEW ks,
         Adds(ks, i, x, t.page[p].keys), NEW s, Rekeys(t, r, p, ks, s)
  PROVE  k \in H /\ Has(s, r, H \ {k})
<1>1. PICK P, kp, may : Seeker(t, r, p, P, kp, may, x, k, n, H)
  BY DEF Seeks
<1>2. p \in InTree(t, {}) /\ p \in DOMAIN t.page /\ P # p
  BY <1>1, SeekerAside
<1>3. Arranged(t, r, Shows(t, P, kp), may) /\ Inside(x, may[p]) /\ HeldIn(t, P, kp) = H
  BY <1>1 DEF Seeker, Comes
<1>4. Holding(s, r, P, kp, may, H \ {x})
  <2>1. Holding(s, r, P, kp, may, HeldIn(t, P, kp) \ {x})
    BY <1>2, <1>3, LeafLosesShown
  <2>2. QED
    BY <2>1, <1>3
<1>5. x \in H
  <2>1. i \in DOMAIN t.page[p].keys /\ t.page[p].keys[i] = x
    BY AddPlaces
  <2>2. Shows(t, P, kp)[p] = t.page[p].keys
    BY <1>2, ShowsElsewhere
  <2>3. x \in ToSet(Shows(t, P, kp)[p])
    BY <2>1, <2>2 DEF ToSet
  <2>4. QED
    BY <2>3, <1>2, <1>3 DEF HeldIn, Held
<1>6. ShowsAnew(t, s, p, ks, P, kp)
  BY <1>2, RekeyShows, Zenon
<1>7. s \in Cache /\ Sound(s, r, {})
  BY <1>2, RekeyHolds DEF Kept
<1>8. CASE P = NoPage /\ x = k
  <2>1. Shows(s, NoPage, kp) = Shows(s, NoPage, <<>>)
    BY <1>7, ShowsAll
  <2>2. Holding(s, r, NoPage, <<>>, may, H \ {k})
    BY <1>4, <1>8, <2>1 DEF Holding, HeldIn
  <2>3. QED
    BY <2>2, <1>5, <1>8 DEF Has
<1>9. CASE Swaps(t, P, kp, may, x, k, H, may[p])
  <2>1. PICK e \in DOMAIN kp : kp[e] = k /\ t.page[P].keys = [kp EXCEPT ![e] = x]
    BY <1>9 DEF Swaps
  <2>2. /\ P \in InTree(t, {}) /\ x # k /\ Inside(x, may[P])
        /\ \A y \in H : ~(x < y /\ y < k) /\ ~(k < y /\ y < x)
    BY <1>9 DEF Swaps
  <2>3. P \in InTree(s, {}) /\ s.page[P].keys = t.page[P].keys
    BY <1>6, <2>2 DEF ShowsAnew
  <2>4. Has(s, r, ((H \ {x}) \ {k}) \cup {x})
    <3> DEFINE H1 == H \ {x}
    <3>1. \A y \in H1 : y # x /\ ~(x < y /\ y < k) /\ ~(k < y /\ y < x)
      BY <2>2
    <3>2. Holding(s, r, P, kp, may, H1)
      BY <1>4
    <3>3. s.page[P].keys = [kp EXCEPT ![e] = x]
      BY <2>1, <2>3
    <3>4. /\ s \in Cache /\ Sound(s, r, {}) /\ P \in InTree(s, {}) /\ e \in DOMAIN kp
          /\ k \in Int /\ kp[e] = k /\ x \in Int /\ x # k /\ Inside(x, may[P])
      BY <1>7, <2>1, <2>2, <2>3
    <3> HIDE DEF H1
    <3>5. Has(s, r, (H1 \ {k}) \cup {x})
      BY ONLY <3>1, <3>2, <3>3, <3>4, SwapHas
    <3>6. QED
      BY <3>5 DEF H1
  <2>5. ((H \ {x}) \ {k}) \cup {x} = H \ {k}
    BY <1>5, <2>2
  <2>6. k \in H
    <3>1. Shows(t, P, kp)[P] = kp
      BY <2>2, ShowsThere DEF InTree
    <3>2. k \in ToSet(Shows(t, P, kp)[P])
      BY <2>1, <3>1 DEF ToSet
    <3>3. QED
      BY <3>2, <2>2, <1>3 DEF HeldIn, Held
  <2>7. QED
    BY <2>4, <2>5, <2>6
<1>10. QED
  BY <1>1, <1>8, <1>9 DEF Seeker

\* remove_from at a leaf that has the key.
LEMMA RemoveLeafHas ==
  ASSUME NEW t, NEW r, NEW c \in Removes(t, r), c.todo = "remove_from", IsLeaf(c.t, c.at),
         HasKeyAt(c.t, c.at, LowerBound(c.t, c.at, c.key), c.key),
         NEW k \in Int, NEW n, NEW H, Seeks(c.t, r, c.at, c.key, k, n, H)
  PROVE  LET d == RemoveFrom(c)
         IN  d.todo = "removed" /\ k \in H /\ Has(d.t, r, H \ {k})
<1> DEFINE u == c.t
           p == c.at
           x == c.key
           d == RemoveFrom(c)
<1>1. PICK i : i = LowerBound(u, p, x)
  OBVIOUS
<1>2. PICK keys : keys = RemoveAt(u.page[p].keys, i)
  OBVIOUS
<1>3. PICK s : s = MarkDirty([u EXCEPT !.page[p].keys = keys], {p})
  OBVIOUS
<1>4. LeavesLeaf(c, u, r, p, i, keys, s)
  BY <1>1, <1>2, <1>3, RemoveRekeys
<1>5. c \in Calls /\ u \in Cache /\ Sound(u, r, {}) /\ x \in Int
  <2>1. AtPage(u, r, p, c)
    BY RemoveAtPage
  <2>2. QED
    BY <2>1 DEF AtPage
<1>6. IsLeaf(u, p) /\ Seeks(u, r, p, x, k, n, H)
  OBVIOUS
<1>7. /\ d = [c EXCEPT !.t = s, !.todo = "removed"]
      /\ u.page[p].keys \in Seq(Int) /\ i \in 1..Len(u.page[p].keys)
      /\ u.page[p].keys[i] = x
      /\ HasRemoved(Int, u.page[p].keys, i, keys) /\ Rekeys(u, r, p, keys, s)
  BY <1>4, Zenon DEF LeavesLeaf
<1> HIDE DEF u, p, x, d
<1>8. d.todo = "removed" /\ d.t = s
  BY <1>5, <1>7 DEF Calls
<1>9. Adds(keys, i, x, u.page[p].keys)
  BY <1>7, RemovedAdds
<1>10. k \in H /\ Has(s, r, H \ {k})
  BY ONLY <1>5, <1>6, <1>7, <1>9, k \in Int, LeafFound
<1>11. QED
  BY <1>8, <1>10 DEF d

\* The cuts m reach as far up, or as far down, as the cuts w they are among.
Upper(m, w) == m \subseteq w /\ \A c \in w, e \in m : e <= c => c \in m
Lower(m, w) == m \subseteq w /\ \A c \in w, e \in m : c <= e => c \in m

\* The first and the last child of a page.
LEMMA EndGaps ==
  ASSUME NEW D, NEW T, NEW r, NEW kids, NEW keys, NEW by, NEW at, NEW level, NEW may,
         Sorted(D, T, r, kids, keys, by, at, level, may), NEW q \in T, kids[q] # <<>>, NEW w
  PROVE  /\ Head(kids[q]) \in T \ {r} /\ Last(kids[q]) \in T \ {r}
         /\ Head(kids[q]) # q /\ Last(kids[q]) # q
         /\ \E j \in DOMAIN kids[q] : Head(kids[q]) = kids[q][j]
         /\ \E j \in DOMAIN kids[q] : Last(kids[q]) = kids[q][j]
         /\ Upper(may[q], w) => Upper(may[Last(kids[q])], w)
         /\ Lower(may[q], w) => Lower(may[Head(kids[q])], w)
<1> DEFINE ks == keys[q]
           cs == kids[q]
           m == may[q]
<1>1. /\ ks \in Seq(Int) /\ cs \in Seq(Nat) /\ m \subseteq Int
      /\ level[q] = 0 => cs = <<>>
      /\ level[q] # 0 => Len(cs) = Len(ks) + 1
      /\ \A j \in DOMAIN cs : may[cs[j]] = Gap(m, ks, j) /\ cs[j] \in T /\ cs[j] # r /\ cs[j] # q
  BY SortedPage
<1>2. cs # <<>>
  OBVIOUS
<1> HIDE DEF ks, cs, m
<1>3. Len(cs) = Len(ks) + 1 /\ Len(ks) \in Nat /\ DOMAIN ks = 1..Len(ks) /\ DOMAIN cs = 1..Len(cs)
  BY <1>1, <1>2
<1>4. Head(cs) = cs[1] /\ Last(cs) = cs[Len(cs)] /\ 1 \in DOMAIN cs /\ Len(cs) \in DOMAIN cs
  BY <1>1, <1>3 DEF Last
<1>5. may[Head(cs)] = Gap(m, ks, 1) /\ may[Last(cs)] = Gap(m, ks, Len(cs))
  BY <1>1, <1>4
<1>6. \A j \in DOMAIN ks : ks[j] \in Int /\ ~(j < 1) /\ j < Len(cs)
  BY <1>1, <1>3
<1>7. \A c : /\ c \in may[Head(cs)] <=> c \in m /\ \A j \in DOMAIN ks : c <= ks[j]
             /\ c \in may[Last(cs)] <=> c \in m /\ \A j \in DOMAIN ks : ks[j] < c
  BY <1>5, <1>6 DEF Gap
<1>8. ASSUME Upper(m, w) PROVE Upper(may[Last(cs)], w)
  <2>1. ASSUME NEW c \in w, NEW e \in may[Last(cs)], e <= c PROVE c \in may[Last(cs)]
    <3>1. e \in m /\ c \in m
      BY <1>7, <1>8, <2>1 DEF Upper
    <3>2. ASSUME NEW j \in DOMAIN ks PROVE ks[j] < c
      <4>1. ks[j] < e /\ ks[j] \in Int /\ e \in Int /\ c \in Int
        BY <1>1, <1>6, <1>7, <3>1
      <4>2. QED
        BY <4>1, <2>1
    <3>3. QED
      BY <1>7, <3>1, <3>2
  <2>2. QED
    BY <1>7, <1>8, <2>1 DEF Upper
<1>9. ASSUME Lower(m, w) PROVE Lower(may[Head(cs)], w)
  <2>1. ASSUME NEW c \in w, NEW e \in may[Head(cs)], c <= e PROVE c \in may[Head(cs)]
    <3>1. e \in m /\ c \in m
      BY <1>7, <1>9, <2>1 DEF Lower
    <3>2. ASSUME NEW j \in DOMAIN ks PROVE c <= ks[j]
      <4>1. e <= ks[j] /\ ks[j] \in Int /\ e \in Int /\ c \in Int
        BY <1>1, <1>6, <1>7, <3>1
      <4>2. QED
        BY <4>1, <2>1
    <3>3. QED
      BY <1>7, <3>1, <3>2
  <2>2. QED
    BY <1>7, <1>9, <2>1 DEF Lower
<1>10. Head(cs) \in T \ {r} /\ Last(cs) \in T \ {r} /\ Head(cs) # q /\ Last(cs) # q
  BY <1>1, <1>4
<1>11. (\E j \in DOMAIN cs : Head(cs) = cs[j]) /\ (\E j \in DOMAIN cs : Last(cs) = cs[j])
  BY <1>4
<1>12. QED
  BY <1>8, <1>9, <1>10, <1>11 DEF cs, m

\* Where max_in and min_in end: in a leaf.
LEMMA MaxLeaf ==
  ASSUME NEW t \in Cache, NEW r, NEW by, NEW at, NEW level, SoundBy(t, r, {}, by, at, level),
         NEW keys, NEW may, Arranged(t, r, keys, may), NEW l \in InTree(t, {}) \ {r}
  PROVE  \E q \in InTree(t, {}) \ {r} :
            level[q] = 0 /\ Upper(may[q], may[l]) /\ MaxIn(t, l) = Last(t.page[q].keys)
<1> DEFINE T == InTree(t, {})
           kids == Kids(t)
           D == DOMAIN t.page
           next == [q \in DOMAIN t.page |-> LET below == t.page[q].children
                                           IN  IF below = <<>> THEN q ELSE Last(below)]
           n == Len(t.page)
           w == may[l]
           E == {q \in T \ {r} : Upper(may[q], w)}
<1>1. MaxIn(t, l) = Last(t.page[Follow(next, l, n)].keys)
  BY DEF MaxIn
<1>2. n \in Nat /\ T \subseteq 1..n
  BY PagesOf DEF InTree
<1>3. \A q \in T : next[q] = IF kids[q] = <<>> THEN q ELSE Last(kids[q])
  BY DEF InTree, Kids
<1>4. Sorted(D, T, r, kids, keys, by, at, level, may)
  BY SortedIs
<1>5. Leveled(T, kids, level)
  BY SoundLeveled
<1>6. l \in T /\ l # r
  OBVIOUS
<1> HIDE DEF T, kids, D, next, n, w
<1>7. level[l] < n
  BY <1>2, <1>5, <1>6, HeightBound
<1>8. StepsDown(T, kids, next)
  <2>1. SUFFICES ASSUME NEW q \in T, kids[q] # <<>>
                 PROVE  \E j \in DOMAIN kids[q] : next[q] = kids[q][j]
    BY <1>3 DEF StepsDown
  <2>2. \E j \in DOMAIN kids[q] : Last(kids[q]) = kids[q][j]
    BY <1>4, <2>1, EndGaps
  <2>3. QED
    BY <1>3, <2>1, <2>2
<1>9. PICK q : q = Follow(next, l, n)
  OBVIOUS
<1>10. q \in T /\ next[q] = q
  <2>1. Follow(next, l, n) \in T /\ next[Follow(next, l, n)] = Follow(next, l, n)
    BY <1>2, <1>5, <1>6, <1>7, <1>8, WalkEnds
  <2>2. QED
    BY <1>9, <2>1
<1>11. level[q] = 0
  <2>1. kids[q] # <<>> => Last(kids[q]) # q
    BY <1>4, <1>10, EndGaps
  <2>2. kids[q] = <<>>
    BY <1>3, <1>10, <2>1
  <2>3. QED
    BY <1>5, <1>10, <2>2 DEF Leveled
<1>12. l \in E
  BY <1>6 DEF Upper, w
<1>13. ASSUME NEW e \in E PROVE next[e] \in E
  <2>1. e \in T /\ e # r /\ Upper(may[e], w)
    OBVIOUS
  <2>2. kids[e] # <<>> => Last(kids[e]) \in T \ {r} /\ Upper(may[Last(kids[e])], w)
    BY <1>4, <2>1, EndGaps
  <2>3. QED
    BY <1>3, <2>1, <2>2
<1> HIDE DEF E
<1>14. q \in E
  BY <1>2, <1>9, <1>12, <1>13, FollowStays
<1>15. q \in T \ {r} /\ Upper(may[q], w)
  BY <1>14 DEF E
<1>16. QED
  BY <1>1, <1>9, <1>11, <1>15 DEF T, w

LEMMA MinLeaf ==
  ASSUME NEW t \in Cache, NEW r, NEW by, NEW at, NEW level, SoundBy(t, r, {}, by, at, level),
         NEW keys, NEW may, Arranged(t, r, keys, may), NEW l \in InTree(t, {}) \ {r}
  PROVE  \E q \in InTree(t, {}) \ {r} :
            level[q] = 0 /\ Lower(may[q], may[l]) /\ MinIn(t, l) = Head(t.page[q].keys)
<1> DEFINE T == InTree(t, {})
           kids == Kids(t)
           D == DOMAIN t.page
           next == [q \in DOMAIN t.page |-> LET below == t.page[q].children
                                           IN  IF below = <<>> THEN q ELSE Head(below)]
           n == Len(t.page)
           w == may[l]
           E == {q \in T \ {r} : Lower(may[q], w)}
<1>1. MinIn(t, l) = Head(t.page[Follow(next, l, n)].keys)
  BY DEF MinIn
<1>2. n \in Nat /\ T \subseteq 1..n
  BY PagesOf DEF InTree
<1>3. \A q \in T : next[q] = IF kids[q] = <<>> THEN q ELSE Head(kids[q])
  BY DEF InTree, Kids
<1>4. Sorted(D, T, r, kids, keys, by, at, level, may)
  BY SortedIs
<1>5. Leveled(T, kids, level)
  BY SoundLeveled
<1>6. l \in T /\ l # r
  OBVIOUS
<1> HIDE DEF T, kids, D, next, n, w
<1>7. level[l] < n
  BY <1>2, <1>5, <1>6, HeightBound
<1>8. StepsDown(T, kids, next)
  <2>1. SUFFICES ASSUME NEW q \in T, kids[q] # <<>>
                 PROVE  \E j \in DOMAIN kids[q] : next[q] = kids[q][j]
    BY <1>3 DEF StepsDown
  <2>2. \E j \in DOMAIN kids[q] : Head(kids[q]) = kids[q][j]
    BY <1>4, <2>1, EndGaps
  <2>3. QED
    BY <1>3, <2>1, <2>2
<1>9. PICK q : q = Follow(next, l, n)
  OBVIOUS
<1>10. q \in T /\ next[q] = q
  <2>1. Follow(next, l, n) \in T /\ next[Follow(next, l, n)] = Follow(next, l, n)
    BY <1>2, <1>5, <1>6, <1>7, <1>8, WalkEnds
  <2>2. QED
    BY <1>9, <2>1
<1>11. level[q] = 0
  <2>1. kids[q] # <<>> => Head(kids[q]) # q
    BY <1>4, <1>10, EndGaps
  <2>2. kids[q] = <<>>
    BY <1>3, <1>10, <2>1
  <2>3. QED
    BY <1>5, <1>10, <2>2 DEF Leveled
<1>12. l \in E
  BY <1>6 DEF Lower, w
<1>13. ASSUME NEW e \in E PROVE next[e] \in E
  <2>1. e \in T /\ e # r /\ Lower(may[e], w)
    OBVIOUS
  <2>2. kids[e] # <<>> => Head(kids[e]) \in T \ {r} /\ Lower(may[Head(kids[e])], w)
    BY <1>4, <2>1, EndGaps
  <2>3. QED
    BY <1>3, <2>1, <2>2
<1> HIDE DEF E
<1>14. q \in E
  BY <1>2, <1>9, <1>12, <1>13, FollowStays
<1>15. q \in T \ {r} /\ Lower(may[q], w)
  BY <1>14 DEF E
<1>16. QED
  BY <1>1, <1>9, <1>11, <1>15 DEF T, w

\* The key x is held, next to k, and inside the cuts w.
Neighbour(x, k, H, w) ==
    /\ x \in Int /\ x \in H /\ x # k /\ Inside(x, w)
    /\ \A y \in H : ~(x < y /\ y < k) /\ ~(k < y /\ y < x)

\* The last key below a page that is at most k, and the first below one that is above.
LEMMA MaxNeighbour ==
  ASSUME NEW t \in Cache, NEW r, NEW by, NEW at, NEW level, SoundBy(t, r, {}, by, at, level),
         NEW may, Arranged(t, r, Shows(t, NoPage, <<>>), may),
         NEW H, HeldIn(t, NoPage, <<>>) = H, NEW l \in InTree(t, {}) \ {r},
         NEW k \in Int, k \in may[l], \A e \in may[l] : e <= k
  PROVE  Neighbour(MaxIn(t, l), k, H, may[l])
<1> DEFINE T == InTree(t, {})
           keys == Shows(t, NoPage, <<>>)
           kids == Kids(t)
           D == DOMAIN t.page
           w == may[l]
           x == MaxIn(t, l)
<1>1. PICK q \in T \ {r} : level[q] = 0 /\ Upper(may[q], w) /\ x = Last(t.page[q].keys)
  BY MaxLeaf
<1>2. PICK ks : ks = t.page[q].keys
  OBVIOUS
<1>3. Len(ks) \in Nat \ {0} /\ ks \in Seq(Int) /\ q \in DOMAIN t.page
  <2>1. Sound(t, r, {})
    BY SoundIs
  <2>2. QED
    BY <1>1, <1>2, <2>1, HasKeys
<1>4. keys[q] = ks
  BY <1>2, <1>3, ShowsAll
<1>5. Sorted(D, T, r, kids, keys, by, at, level, may)
  BY SortedIs
<1>6. Held(T, keys) = H /\ w = may[l] /\ l \in T /\ x = Last(ks)
  BY <1>1, <1>2 DEF HeldIn
<1> HIDE DEF T, keys, kids, D, w, x
<1>7. Len(ks) \in DOMAIN ks /\ x = ks[Len(ks)] /\ x \in Int /\ \A j \in DOMAIN ks : j <= Len(ks)
  BY <1>3, <1>6 DEF Last
<1>8. /\ Ascends(ks) /\ Inside(x, may[q]) /\ q \in T
      /\ \A j \in DOMAIN ks : Inside(ks[j], may[q])
  BY <1>1, <1>4, <1>5, <1>7, SortedPage
<1>9. Convex(w) /\ k \in w /\ \A e \in w : e <= k
  BY <1>5, <1>6, SortedPage
<1>10. Inside(x, w)
  BY <1>1, <1>8 DEF Inside, Upper
<1>11. x < k
  <2>1. x + 1 <= k
    BY <1>9, <1>10 DEF Inside
  <2>2. QED
    BY <2>1, <1>7
<1>12. x \in H
  <2>1. x \in ToSet(keys[q])
    BY <1>4, <1>7 DEF ToSet
  <2>2. QED
    BY <2>1, <1>6, <1>8 DEF Held
<1>13. ASSUME NEW y \in H, x < y, y < k PROVE FALSE
  <2>1. y \in Held(T, keys)
    BY <1>6
  <2>2. y \in Int
    <3>1. PICK e \in T : y \in ToSet(keys[e])
      BY <2>1 DEF Held
    <3>2. keys[e] \in Seq(Int)
      BY <1>5, SortedPage
    <3>3. QED
      BY <3>1, <3>2 DEF ToSet
  <2>3. x <= y /\ y <= k /\ x <= y + 1 /\ y + 1 <= k /\ y + 1 \in Int
    BY <1>7, <1>13, <2>2
  <2>4. y \in w /\ y + 1 \in w
    BY <1>9, <1>10, <2>2, <2>3 DEF Convex, Inside
  <2>5. Inside(y, may[q])
    BY <1>1, <1>8, <2>3, <2>4 DEF Upper, Inside
  <2>6. PICK j \in DOMAIN ks : ks[j] = y
    <3>1. \E j \in DOMAIN keys[q] : keys[q][j] = y
      BY ONLY <1>1, <1>5, <1>8, <2>1, <2>5, KeyInLeaf
    <3>2. QED
      BY <3>1, <1>4
  <2>7. j = Len(ks) \/ j < Len(ks)
    BY <1>3, <1>7
  <2>8. y <= x
    BY <1>7, <1>8, <2>2, <2>6, <2>7 DEF Ascends
  <2>9. QED
    BY <2>8, <1>7, <2>2, <1>13
<1>14. \A y \in H : ~(x < y /\ y < k) /\ ~(k < y /\ y < x)
  <2>1. SUFFICES ASSUME NEW y \in H PROVE ~(k < y /\ y < x)
    BY <1>13
  <2>2. y \in Int
    <3>1. PICK e \in T : y \in ToSet(keys[e])
      BY <1>6 DEF Held
    <3>2. keys[e] \in Seq(Int)
      BY <1>5, SortedPage
    <3>3. QED
      BY <3>1, <3>2 DEF ToSet
  <2>3. QED
    BY <2>2, <1>7, <1>11
<1>15. x # k
  BY <1>7, <1>11
<1>16. Neighbour(x, k, H, w)
  BY <1>7, <1>10, <1>12, <1>14, <1>15 DEF Neighbour
<1>17. QED
  BY <1>16 DEF x, w

LEMMA MinNeighbour ==
  ASSUME NEW t \in Cache, NEW r, NEW by, NEW at, NEW level, SoundBy(t, r, {}, by, at, level),
         NEW may, Arranged(t, r, Shows(t, NoPage, <<>>), may),
         NEW H, HeldIn(t, NoPage, <<>>) = H, NEW l \in InTree(t, {}) \ {r},
         NEW k \in Int, k + 1 \in may[l], \A e \in may[l] : k < e
  PROVE  Neighbour(MinIn(t, l), k, H, may[l])
<1> DEFINE T == InTree(t, {})
           keys == Shows(t, NoPage, <<>>)
           kids == Kids(t)
           D == DOMAIN t.page
           w == may[l]
           x == MinIn(t, l)
<1>1. PICK q \in T \ {r} : level[q] = 0 /\ Lower(may[q], w) /\ x = Head(t.page[q].keys)
  BY MinLeaf
<1>2. PICK ks : ks = t.page[q].keys
  OBVIOUS
<1>3. Len(ks) \in Nat \ {0} /\ ks \in Seq(Int) /\ q \in DOMAIN t.page
  <2>1. Sound(t, r, {})
    BY SoundIs
  <2>2. QED
    BY <1>1, <1>2, <2>1, HasKeys
<1>4. keys[q] = ks
  BY <1>2, <1>3, ShowsAll
<1>5. Sorted(D, T, r, kids, keys, by, at, level, may)
  BY SortedIs
<1>6. Held(T, keys) = H /\ w = may[l] /\ l \in T /\ x = Head(ks) /\ k + 1 \in w
  BY <1>1, <1>2 DEF HeldIn
<1> HIDE DEF T, keys, kids, D, w, x
<1>7. 1 \in DOMAIN ks /\ x = ks[1] /\ x \in Int /\ \A j \in DOMAIN ks : 1 <= j
  BY <1>3, <1>6
<1>8. /\ Ascends(ks) /\ Inside(x, may[q]) /\ q \in T
      /\ \A j \in DOMAIN ks : Inside(ks[j], may[q])
  BY <1>1, <1>4, <1>5, <1>7, SortedPage
<1>9. Convex(w) /\ k + 1 \in w /\ \A e \in w : k < e
  BY <1>5, <1>6, SortedPage
<1>10. Inside(x, w)
  BY <1>1, <1>8 DEF Inside, Lower
<1>11. k < x
  BY <1>9, <1>10 DEF Inside
<1>12. x \in H
  <2>1. x \in ToSet(keys[q])
    BY <1>4, <1>7 DEF ToSet
  <2>2. QED
    BY <2>1, <1>6, <1>8 DEF Held
<1>13. ASSUME NEW y \in H PROVE y \in Int
  <2>1. PICK e \in T : y \in ToSet(keys[e])
    BY <1>6 DEF Held
  <2>2. keys[e] \in Seq(Int)
    BY <1>5, SortedPage
  <2>3. QED
    BY <2>1, <2>2 DEF ToSet
<1>14. ASSUME NEW y \in H, k < y, y < x PROVE FALSE
  <2>1. y \in Held(T, keys) /\ y \in Int
    BY <1>6, <1>13
  <2>2. k + 1 <= y /\ y <= x /\ k + 1 <= y + 1 /\ y + 1 <= x /\ y + 1 \in Int
    BY <1>7, <1>14, <2>1
  <2>3. y \in w /\ y + 1 \in w
    BY <1>9, <1>10, <2>1, <2>2 DEF Convex, Inside
  <2>4. Inside(y, may[q])
    BY <1>1, <1>8, <2>2, <2>3 DEF Lower, Inside
  <2>5. PICK j \in DOMAIN ks : ks[j] = y
    <3>1. \E j \in DOMAIN keys[q] : keys[q][j] = y
      BY ONLY <1>1, <1>5, <1>8, <2>1, <2>4, KeyInLeaf
    <3>2. QED
      BY <3>1, <1>4
  <2>6. j = 1 \/ 1 < j
    BY <1>3, <1>7
  <2>7. x <= y
    BY <1>7, <1>8, <2>1, <2>5, <2>6 DEF Ascends
  <2>8. QED
    BY <2>7, <1>7, <2>1, <1>14
<1>15. \A y \in H : ~(x < y /\ y < k) /\ ~(k < y /\ y < x)
  BY <1>7, <1>11, <1>13, <1>14
<1>16. x # k
  BY <1>7, <1>11
<1>17. Neighbour(x, k, H, w)
  BY <1>7, <1>10, <1>12, <1>15, <1>16 DEF Neighbour
<1>18. QED
  BY <1>17 DEF x, w

\* The gaps on either side of a key of a page.
LEMMA KeyGaps ==
  ASSUME NEW t \in Cache, NEW r, NEW by, NEW at, NEW level, SoundBy(t, r, {}, by, at, level),
         NEW keys, NEW may, Arranged(t, r, keys, may), NEW p \in InTree(t, {}),
         keys[p] = t.page[p].keys,
         NEW i \in DOMAIN t.page[p].keys, NEW k, k = t.page[p].keys[i],
         i \in DOMAIN t.page[p].children, i + 1 \in DOMAIN t.page[p].children
  PROVE  /\ k \in Int /\ Inside(k, may[p])
         /\ k \in may[Child(t, p, i)] /\ \A e \in may[Child(t, p, i)] : e <= k
         /\ k + 1 \in may[Child(t, p, i + 1)] /\ \A e \in may[Child(t, p, i + 1)] : k < e
         /\ may[Child(t, p, i)] \subseteq may[p] /\ may[Child(t, p, i + 1)] \subseteq may[p]
<1> DEFINE T == InTree(t, {})
           kids == Kids(t)
           D == DOMAIN t.page
<1>1. PICK ks : ks = t.page[p].keys
  OBVIOUS
<1>2. PICK j : j = i + 1
  OBVIOUS
<1>3. PICK m : m = may[p]
  OBVIOUS
<1>4. Sorted(D, T, r, kids, keys, by, at, level, may)
  BY SortedIs
<1>5. kids[p] = t.page[p].children /\ p \in T
  BY DEF InTree, Kids
<1> HIDE DEF T, kids, D
<1>6. /\ ks \in Seq(Int) /\ Ascends(ks) /\ m \subseteq Int
      /\ \A e \in DOMAIN ks : Inside(ks[e], m)
      /\ \A e \in DOMAIN kids[p] : may[kids[p][e]] = Gap(m, ks, e)
  <2>1. keys[p] = ks
    BY <1>1
  <2>2. /\ keys[p] \in Seq(Int) /\ Ascends(keys[p]) /\ may[p] \subseteq Int
        /\ \A e \in DOMAIN keys[p] : Inside(keys[p][e], may[p])
        /\ \A e \in DOMAIN kids[p] : may[kids[p][e]] = Gap(may[p], keys[p], e)
    BY ONLY <1>4, <1>5, SortedPage
  <2>3. QED
    BY <2>1, <2>2, <1>3
<1>7. may[Child(t, p, i)] = Gap(m, ks, i) /\ may[Child(t, p, j)] = Gap(m, ks, j)
  BY <1>2, <1>5, <1>6 DEF Child
<1>8. i \in DOMAIN ks /\ k = ks[i] /\ i \in Nat /\ j = i + 1 /\ k \in Int /\ Inside(k, m)
  BY <1>1, <1>2, <1>6
<1>9. \A e \in DOMAIN ks : e \in Nat /\ ks[e] \in Int /\ (e < i \/ e = i \/ i < e)
  BY <1>6, <1>8
<1>10. \A e \in DOMAIN ks : (e < i => ks[e] < k) /\ (i < e => k < ks[e])
  BY <1>6, <1>8, <1>9 DEF Ascends
<1>11. k \in Gap(m, ks, i)
  <2>1. ASSUME NEW e \in DOMAIN ks PROVE IF e < i THEN ks[e] < k ELSE k <= ks[e]
    BY <1>8, <1>9, <1>10
  <2>2. QED
    BY <2>1, <1>8 DEF Gap, Inside
<1>12. \A e \in Gap(m, ks, i) : e <= k /\ e \in m
  BY <1>8 DEF Gap
<1>13. k + 1 \in Gap(m, ks, j)
  <2>1. ASSUME NEW e \in DOMAIN ks PROVE IF e < j THEN ks[e] < k + 1 ELSE k + 1 <= ks[e]
    BY <1>8, <1>9, <1>10
  <2>2. QED
    BY <2>1, <1>8 DEF Gap, Inside
<1>14. \A e \in Gap(m, ks, j) : k < e /\ e \in m
  BY <1>8 DEF Gap
<1>15. QED
  BY <1>2, <1>3, <1>7, <1>8, <1>11, <1>12, <1>13, <1>14

\* All cuts of m are on one side of the key k.
OneSide(m, k) == (\A e \in m : e <= k) \/ (\A e \in m : k < e)

\* A key k of page p gives way to its neighbour x, which is below child c: the call
\* goes on for x, and p shows k.
LEMMA ReplacedSeeks ==
  ASSUME NEW t \in Cache, NEW r, NEW by, NEW at, NEW level, SoundBy(t, r, {}, by, at, level),
         NEW may, Arranged(t, r, Shows(t, NoPage, <<>>), may),
         NEW H, HeldIn(t, NoPage, <<>>) = H,
         NEW n \in Nat, NEW p, Within(t, r, p, n + 1),
         NEW i \in DOMAIN t.page[p].keys, NEW k \in Int, k = t.page[p].keys[i],
         NEW j \in DOMAIN t.page[p].children, NEW c, c = Child(t, p, j),
         may[c] \subseteq may[p], OneSide(may[c], k),
         NEW x, Neighbour(x, k, H, may[c]),
         NEW keys, keys = [t.page[p].keys EXCEPT ![i] = x],
         NEW s, Rekeys(t, r, p, keys, s)
  PROVE  Seeks(s, r, c, x, k, n, H)
<1>1. p \in InTree(t, {}) /\ level[p] < n + 1
  BY DEF Within
<1>2. p \in DOMAIN t.page /\ t.page[p].keys \in Seq(Int)
  BY <1>1, PagesOf DEF InTree
<1>3. PICK kp : kp = t.page[p].keys
  OBVIOUS
<1>4. /\ s \in Cache /\ DOMAIN s.page = DOMAIN t.page /\ s.page[p].keys = keys
      /\ s.page[p].children = t.page[p].children /\ s.page[p].kind = t.page[p].kind
      /\ \A q \in DOMAIN t.page \ {p} : s.page[q] = t.page[q]
  BY DEF Rekeys
<1>5. x \in Int /\ x \in H /\ x # k /\ Inside(x, may[c])
      /\ \A y \in H : ~(x < y /\ y < k) /\ ~(k < y /\ y < x)
  BY Zenon DEF Neighbour
<1>6. c \in InTree(t, {}) /\ level[c] + 1 = level[p] /\ level[c] \in Nat
  <2>1. c \in InTree(t, {}) /\ level[c] + 1 = level[p]
    BY <1>1, ChildFits
  <2>2. QED
    BY <2>1, PageFits
<1>7. InTree(s, {}) = InTree(t, {}) /\ Kids(s) = Kids(t)
  <2>1. \A q \in DOMAIN t.page : s.page[q].children = t.page[q].children /\ s.page[q].kind = t.page[q].kind
    BY <1>4
  <2>2. QED
    BY <1>4, <2>1 DEF InTree, Kids
<1>8. Shows(s, p, kp) = Shows(t, NoPage, <<>>)
  <2>1. \A q \in DOMAIN t.page : Shows(s, p, kp)[q] = t.page[q].keys
    BY <1>3, <1>4 DEF Shows
  <2>2. \A q \in DOMAIN t.page : Shows(t, NoPage, <<>>)[q] = t.page[q].keys
    BY ShowsAll
  <2>3. Shows(s, p, kp) = [q \in DOMAIN t.page |-> Shows(s, p, kp)[q]]
        /\ Shows(t, NoPage, <<>>) = [q \in DOMAIN t.page |-> Shows(t, NoPage, <<>>)[q]]
    BY <1>4, Zenon DEF Shows
  <2>4. QED
    BY <2>1, <2>2, <2>3
<1>9. \A q \in InTree(t, {}) : KeyCount(s, q) = KeyCount(t, q)
  <2>1. Len(keys) = Len(t.page[p].keys)
    BY <1>2
  <2>2. QED
    BY <1>4, <2>1 DEF KeyCount, InTree
<1>10. Arranged(s, r, Shows(s, p, kp), may)
  <2>1. PICK shown : shown = Shows(t, NoPage, <<>>)
    OBVIOUS
  <2>2. Arranged(t, r, shown, may)
    BY <2>1
  <2>3. Arranged(s, r, shown, may)
    BY <2>2, <1>7, <1>9 DEF Arranged
  <2>4. QED
    BY <1>8, <2>1, <2>3
<1>11. HeldIn(s, p, kp) = H
  BY <1>7, <1>8 DEF HeldIn
<1>12. Within(s, r, c, n)
  <2>1. ASSUME NEW by1, NEW at1, NEW level1, SoundBy(s, r, {}, by1, at1, level1)
        PROVE  level1[c] < n
    <3>1. Leveled(InTree(t, {}), Kids(t), level) /\ Leveled(InTree(t, {}), Kids(t), level1)
      BY <1>4, <1>7, <2>1, SoundLeveled
    <3>2. PICK h : h = level[c] + 1
      OBVIOUS
    <3>3. h \in Int /\ level[c] < h
      BY <1>6, <3>2
    <3>4. \A q \in InTree(t, {}) : level[q] < h => level1[q] = level[q]
      BY <3>1, <3>3, LevelsStay
    <3>5. level1[c] = level[c]
      BY <3>3, <3>4, <1>6
    <3>6. QED
      BY <3>5, <1>1, <1>6
  <2>2. QED
    BY <2>1, <1>6, <1>7 DEF Within
<1>13. Comes(s, r, c, p, kp, may, x, n)
  BY <1>5, <1>10, <1>12 DEF Comes
<1>14. Inside(x, may[p])
  BY <1>5 DEF Inside
<1>15. \A e \in may[c] : IF x < k THEN e <= k ELSE k < e
  <2>1. CASE \A e \in may[c] : e <= k
    <3>1. x < k
      BY <1>5, <2>1 DEF Inside
    <3>2. QED
      BY <3>1, <2>1
  <2>2. CASE \A e \in may[c] : k < e
    <3>1. ~(x < k)
      BY <1>5, <2>2 DEF Inside
    <3>2. QED
      BY <3>1, <2>2
  <2>3. QED
    BY <2>1, <2>2 DEF OneSide
<1>16. \E e \in DOMAIN kp : kp[e] = k /\ s.page[p].keys = [kp EXCEPT ![e] = x]
  BY <1>3, <1>4
<1>17. Swaps(s, p, kp, may, x, k, H, may[c])
  <2>1. p \in InTree(s, {})
    BY <1>1, <1>7
  <2>2. QED
    BY <2>1, <1>5, <1>14, <1>15, <1>16, Zenon DEF Swaps
<1>18. Seeker(s, r, c, p, kp, may, x, k, n, H)
  BY <1>11, <1>13, <1>17 DEF Seeker
<1>19. QED
  BY <1>18 DEF Seeks

\* remove_from at a page that has the key in front of one of its children.
LEMMA RemoveReplacesSeeks ==
  ASSUME NEW t, NEW r, NEW c \in Removes(t, r), c.todo = "remove_from", ~IsLeaf(c.t, c.at),
         HasKeyAt(c.t, c.at, LowerBound(c.t, c.at, c.key), c.key),
         NEW k \in Int, NEW n \in Nat, NEW H, Seeks(c.t, r, c.at, c.key, k, n + 1, H)
  PROVE  LET d == RemoveFrom(c)
         IN  d.todo = "remove_from" /\ Seeks(d.t, r, d.at, d.key, k, n, H)
<1> DEFINE u == c.t
           p == c.at
           z == c.key
           i == LowerBound(u, p, z)
           x == Child(u, p, i)
           y == Child(u, p, i + 1)
           s(v) == MarkDirty([u EXCEPT !.page[p].keys[i] = v], {p})
           d == RemoveFrom(c)
<1>1. d = IF KeyCount(u, x) >= MinDegree
          THEN [c EXCEPT !.t = s(MaxIn(u, x)), !.at = x, !.key = MaxIn(u, x)]
          ELSE IF KeyCount(u, y) >= MinDegree
          THEN [c EXCEPT !.t = s(MinIn(u, y)), !.at = y, !.key = MinIn(u, y)]
          ELSE [c EXCEPT !.t = MergeChildren(u, p, i), !.at = x]
  BY DEF RemoveFrom
<1>2. AtPage(u, r, p, c)
  BY RemoveAtPage
<1>3. i <= KeyCount(u, p) /\ u.page[p].keys[i] = z /\ ~IsLeaf(u, p)
      /\ Seeks(u, r, p, z, k, n + 1, H)
  BY DEF HasKeyAt
<1>4. c.todo = "remove_from" /\ c \in Calls /\ z = c.key
  BY <1>2 DEF AtPage
<1> HIDE DEF u, p, z, i, d
<1>5. /\ u \in Cache /\ Sound(u, r, {}) /\ p \in InTree(u, {}) /\ p \in DOMAIN u.page
      /\ p # r => KeyCount(u, p) >= MinDegree
      /\ z \in Int /\ u.page[p].keys \in Seq(Int)
  BY <1>2, <1>4 DEF AtPage
<1>6. /\ i \in 1..KeyCount(u, p) /\ i \in DOMAIN u.page[p].keys
      /\ i \in DOMAIN u.page[p].children /\ i + 1 \in DOMAIN u.page[p].children
  <2>1. PICK ks : ks = u.page[p].keys
    OBVIOUS
  <2>2. PICK cs : cs = u.page[p].children
    OBVIOUS
  <2>3. /\ ks \in Seq(Int) /\ cs \in Seq(Nat) /\ KeyCount(u, p) = Len(ks)
        /\ i \in 1..Len(ks) + 1 /\ i <= Len(ks) /\ Len(cs) = Len(ks) + 1
    BY <1>2, <1>3, <1>4, <2>1, <2>2 DEF AtPage, i
  <2>4. i \in 1..Len(ks) /\ i \in DOMAIN ks /\ i \in DOMAIN cs /\ i + 1 \in DOMAIN cs
    BY ONLY <2>3
  <2>5. QED
    BY <2>1, <2>2, <2>3, <2>4
<1>7. PICK by, at, level : SoundBy(u, r, {}, by, at, level)
  BY <1>5, SoundIs
<1>8. PICK P, kp, may : Seeker(u, r, p, P, kp, may, z, k, n + 1, H)
  BY <1>3 DEF Seeks
<1>9. P = NoPage /\ z = k
  <2>1. ASSUME Swaps(u, P, kp, may, z, k, H, may[p]) PROVE FALSE
    <3>1. n + 1 = n + 1
      OBVIOUS
    <3>2. PICK n1 : n1 = n + 1
      OBVIOUS
    <3>3. Seeker(u, r, p, P, kp, may, z, k, n1, H)
      BY <1>8, <3>2
    <3>4. QED
      BY ONLY <1>3, <1>5, <1>6, <2>1, <3>3, k \in Int, SwapsBetween
  <2>2. QED
    BY <1>8, <2>1 DEF Seeker
<1>10. /\ Arranged(u, r, Shows(u, NoPage, kp), may) /\ HeldIn(u, NoPage, kp) = H
       /\ Within(u, r, p, n + 1) /\ Comes(u, r, p, NoPage, kp, may, z, n + 1)
  BY <1>8, <1>9 DEF Seeker, Comes
<1>11. Shows(u, NoPage, kp) = Shows(u, NoPage, <<>>)
  BY <1>5, ShowsAll
<1>12. Arranged(u, r, Shows(u, NoPage, <<>>), may) /\ HeldIn(u, NoPage, <<>>) = H
  BY <1>10, <1>11 DEF HeldIn
<1>13. Shows(u, NoPage, <<>>)[p] = u.page[p].keys
  BY <1>5, ShowsAll
<1>14. /\ x \in InTree(u, {}) \ {r} /\ x # p
       /\ y \in InTree(u, {}) \ {r} /\ y # p
  <2>1. PICK j : j = i + 1
    OBVIOUS
  <2>2. Child(u, p, j) \in InTree(u, {}) /\ Child(u, p, j) # p /\ Child(u, p, j) # r
    BY <1>5, <1>6, <1>7, <2>1, ChildFits
  <2>3. x \in InTree(u, {}) /\ x # p /\ x # r
    BY <1>5, <1>6, <1>7, ChildFits
  <2>4. QED
    BY <2>1, <2>2, <2>3
<1>15. /\ k \in Int /\ k = u.page[p].keys[i]
       /\ k \in may[x] /\ (\A e \in may[x] : e <= k)
       /\ k + 1 \in may[y] /\ (\A e \in may[y] : k < e)
       /\ may[x] \subseteq may[p] /\ may[y] \subseteq may[p]
  <2>1. k = u.page[p].keys[i]
    BY <1>3, <1>9
  <2>2. PICK keys : keys = Shows(u, NoPage, <<>>)
    OBVIOUS
  <2>3. Arranged(u, r, keys, may) /\ keys[p] = u.page[p].keys
    BY <1>12, <1>13, <2>2
  <2>4. QED
    BY ONLY <2>1, <2>3, <1>5, <1>6, <1>7, k \in Int, KeyGaps
<1> HIDE DEF x, y, s
<1>16. KeyCount(u, x) \in Nat /\ KeyCount(u, y) \in Nat
  BY <1>5, <1>14, PagesOf DEF KeyCount, InTree
<1>17. CASE KeyCount(u, x) >= MinDegree
  <2>1. PICK v : v = MaxIn(u, x)
    OBVIOUS
  <2>2. Neighbour(v, k, H, may[x])
    BY ONLY <1>5, <1>7, <1>12, <1>14, <1>15, <2>1, MaxNeighbour
  <2>3. v \in Int
    BY <2>2 DEF Neighbour
  <2>4. d = [c EXCEPT !.t = s(v), !.at = x, !.key = v]
    BY <1>1, <1>17, <2>1
  <2>5. PICK keys : keys = [u.page[p].keys EXCEPT ![i] = v]
    OBVIOUS
  <2>6. Rekeys(u, r, p, keys, s(v))
    BY <1>2, <1>6, <1>14, <1>17, <2>3, <2>5, Replacing DEF s
  <2>7. PICK s1 : s1 = s(v)
    OBVIOUS
  <2>8. Rekeys(u, r, p, keys, s1) /\ x = Child(u, p, i) /\ OneSide(may[x], k)
    BY <2>6, <2>7, <1>15 DEF x, OneSide
  <2>9. Seeks(s1, r, x, v, k, n, H)
    BY ONLY <1>5, <1>6, <1>7, <1>10, <1>12, <1>15, <2>2, <2>5, <2>8, n \in Nat, ReplacedSeeks
  <2>10. d.todo = "remove_from" /\ d.t = s1 /\ d.at = x /\ d.key = v
    BY <1>4, <2>4, <2>7 DEF Calls
  <2>11. QED
    BY <2>9, <2>10 DEF d
<1>18. CASE ~(KeyCount(u, x) >= MinDegree) /\ KeyCount(u, y) >= MinDegree
  <2>1. PICK v : v = MinIn(u, y)
    OBVIOUS
  <2>2. Neighbour(v, k, H, may[y])
    BY ONLY <1>5, <1>7, <1>12, <1>14, <1>15, <2>1, MinNeighbour
  <2>3. v \in Int
    BY <2>2 DEF Neighbour
  <2>4. d = [c EXCEPT !.t = s(v), !.at = y, !.key = v]
    BY <1>1, <1>18, <2>1
  <2>5. PICK keys : keys = [u.page[p].keys EXCEPT ![i] = v]
    OBVIOUS
  <2>6. Rekeys(u, r, p, keys, s(v))
    BY <1>2, <1>6, <1>14, <1>18, <2>3, <2>5, Replacing DEF s
  <2>7. PICK s1 : s1 = s(v)
    OBVIOUS
  <2>8. PICK j : j = i + 1
    OBVIOUS
  <2>9. /\ Rekeys(u, r, p, keys, s1) /\ y = Child(u, p, j) /\ OneSide(may[y], k)
        /\ j \in DOMAIN u.page[p].children
    BY <2>6, <2>7, <2>8, <1>6, <1>15 DEF y, OneSide
  <2>10. Seeks(s1, r, y, v, k, n, H)
    BY ONLY <1>5, <1>6, <1>7, <1>10, <1>12, <1>15, <2>2, <2>5, <2>9, n \in Nat, ReplacedSeeks
  <2>11. d.todo = "remove_from" /\ d.t = s1 /\ d.at = y /\ d.key = v
    BY <1>4, <2>4, <2>7 DEF Calls
  <2>12. QED
    BY <2>10, <2>11 DEF d
<1>19. CASE ~(KeyCount(u, x) >= MinDegree) /\ ~(KeyCount(u, y) >= MinDegree)
  <2>1. PICK s1 : s1 = MergeChildren(u, p, i)
    OBVIOUS
  <2>2. d = [c EXCEPT !.t = s1, !.at = x]
    BY <1>1, <1>19, <2>1
  <2>3. KeyCount(u, x) < MinDegree /\ KeyCount(u, y) < MinDegree
    BY <1>16, <1>19, BTreeAssumption
  <2>4. HasExtra(u, r, p, s1, i)
    BY <1>5, <1>6, <2>1, <2>3, MergeHolds DEF x, y
  <2>5. s1 \in Cache /\ Sound(s1, r, {})
    BY <2>4 DEF HasExtra
  <2>6. Ascends(u.page[p].keys) /\ Finds(u.page[p].keys, i, z)
    <3>1. PICK n1 : n1 = n + 1
      OBVIOUS
    <3>2. Comes(u, r, p, NoPage, kp, may, z, n1)
      BY <1>10, <3>1
    <3>3. NoPage # p /\ i = LowerBound(u, p, z)
      BY <1>5, PagesOf DEF NoPage, i
    <3>4. QED
      BY ONLY <1>5, <3>2, <3>3, PlainFinds
  <2>7. \A e \in DOMAIN u.page[p].keys : u.page[p].keys[e] = z => e = i
    <3>1. PICK ks : ks = u.page[p].keys
      OBVIOUS
    <3>2. ks \in Seq(Int) /\ i \in DOMAIN ks /\ ks[i] = z /\ Ascends(ks)
      BY <3>1, <1>3, <1>5, <1>6, <2>6
    <3>3. \A e \in DOMAIN ks : ks[e] = z => e = i
      BY ONLY <3>2 DEF Ascends
    <3>4. QED
      BY <3>1, <3>3
  <2>8. Aside(u, p, P)
    <3>1. PICK n1 : n1 = n + 1
      OBVIOUS
    <3>2. Seeker(u, r, p, P, kp, may, z, k, n1, H)
      BY <1>8, <3>1
    <3>3. QED
      BY ONLY <1>5, <3>2, k \in Int, SeekerAside
  <2>9. Arranged(u, r, Shows(u, P, kp), may)
    BY <1>9, <1>10
  <2>10. Ready(u, s1, r, p, P, kp, level, may, z, i) /\ Child(s1, p, i) = x
    <3>1. Ready(u, MergeChildren(u, p, i), r, p, P, kp, level, may, z, i)
          /\ Child(MergeChildren(u, p, i), p, i) = Child(u, p, i)
      BY ONLY <1>5, <1>6, <1>7, <2>6, <2>7, <2>8, <2>9, MergeReady
    <3>2. QED
      BY <3>1, <2>1 DEF x
  <2>11. Seeks(s1, r, Child(s1, p, i), z, k, n, H)
    BY ONLY <1>5, <1>7, <1>8, <2>5, <2>10, k \in Int, n \in Nat, SeekerGoes
  <2>12. d.todo = "remove_from" /\ d.t = s1 /\ d.at = x /\ d.key = z
    BY <1>4, <2>2 DEF Calls
  <2>13. QED
    BY <2>10, <2>11, <2>12 DEF d
<1>20. QED
  BY <1>17, <1>18, <1>19

\* remove_from at a leaf that does not have the key.
LEMMA RemoveAbsentHas ==
  ASSUME NEW t, NEW r, NEW c \in Removes(t, r), c.todo = "remove_from", IsLeaf(c.t, c.at),
         ~HasKeyAt(c.t, c.at, LowerBound(c.t, c.at, c.key), c.key),
         NEW k \in Int, NEW n, NEW H, Seeks(c.t, r, c.at, c.key, k, n, H)
  PROVE  LET d == RemoveFrom(c)
         IN  d.todo = "absent" /\ k \notin H /\ Has(d.t, r, H)
<1> DEFINE u == c.t
           p == c.at
           x == c.key
           d == RemoveFrom(c)
<1>1. c \in Calls /\ u \in Cache /\ Sound(u, r, {}) /\ x \in Int
  <2>1. AtPage(u, r, p, c)
    BY RemoveAtPage
  <2>2. QED
    BY <2>1 DEF AtPage
<1>2. d = [c EXCEPT !.todo = "absent"]
  BY DEF RemoveFrom
<1>3. /\ IsLeaf(u, p) /\ Seeks(u, r, p, x, k, n, H)
      /\ ~HasKeyAt(u, p, LowerBound(u, p, x), x)
  OBVIOUS
<1> HIDE DEF u, p, x, d
<1>4. \A e \in DOMAIN u.page[p].keys : u.page[p].keys[e] # x
  <2>1. PICK P, kp, may : Seeker(u, r, p, P, kp, may, x, k, n, H)
    BY <1>3 DEF Seeks
  <2>2. P # p
    BY ONLY <1>1, <2>1, k \in Int, SeekerAside
  <2>3. Comes(u, r, p, P, kp, may, x, n)
    BY <2>1 DEF Seeker
  <2>4. PICK i : i = LowerBound(u, p, x)
    OBVIOUS
  <2>5. QED
    BY ONLY <1>1, <1>3, <2>2, <2>3, <2>4, PlainFinds
<1>5. k \notin H /\ Has(u, r, H)
  BY ONLY <1>1, <1>3, <1>4, k \in Int, AbsentHas
<1>6. d.todo = "absent" /\ d.t = u
  BY <1>1, <1>2 DEF Calls, u
<1>7. QED
  BY <1>5, <1>6 DEF d

\* remove_from at a page above others that does not have the key.
LEMMA RemoveBelowSeeks ==
  ASSUME NEW t, NEW r, NEW c \in Removes(t, r), c.todo = "remove_from", ~IsLeaf(c.t, c.at),
         ~HasKeyAt(c.t, c.at, LowerBound(c.t, c.at, c.key), c.key),
         NEW k \in Int, NEW n \in Nat, NEW H, Seeks(c.t, r, c.at, c.key, k, n + 1, H)
  PROVE  LET d == RemoveFrom(c)
         IN  d.t.wild = FALSE =>
                d.todo = "remove_from" /\ Seeks(d.t, r, d.at, d.key, k, n, H)
<1> DEFINE u == c.t
           p == c.at
           x == c.key
           i == LowerBound(u, p, x)
           e == EnsureChildHasExtra(u, p, i)
           d == RemoveFrom(c)
<1>1. /\ c \in Calls /\ u \in Cache /\ Sound(u, r, {}) /\ x \in Int /\ p \in InTree(u, {})
      /\ i \in DOMAIN u.page[p].children
      /\ p # r => KeyCount(u, p) >= MinDegree
  <2>1. AtPage(u, r, p, c)
    BY RemoveAtPage
  <2>2. QED
    BY <2>1 DEF AtPage
<1>2. /\ ~IsLeaf(u, p) /\ ~HasKeyAt(u, p, i, x) /\ c.todo = "remove_from"
      /\ Seeks(u, r, p, x, k, n + 1, H)
  OBVIOUS
<1>3. d = IF e.t.wild THEN [c EXCEPT !.t = e.t, !.todo = "absent"]
          ELSE [c EXCEPT !.t = e.t, !.at = Child(e.t, p, e.at)]
  BY DEF RemoveFrom
<1>4. Ensured(u, r, p, e)
  BY <1>1, EnsureHolds
<1>5. x = c.key /\ c.t = u
  OBVIOUS
<1>6. PICK j : j = i
  OBVIOUS
<1>7. j = LowerBound(u, p, x) /\ e = EnsureChildHasExtra(u, p, j)
  BY <1>6
<1> HIDE DEF u, p, x, i, e, d
<1>8. PICK m : m = n + 1
  OBVIOUS
<1>9. PICK P, kp, may : Seeker(u, r, p, P, kp, may, x, k, m, H)
  BY <1>2, <1>8 DEF Seeks
<1>10. P # p /\ Aside(u, p, P)
  BY ONLY <1>1, <1>9, k \in Int, SeekerAside
<1>11. Comes(u, r, p, P, kp, may, x, m) /\ Arranged(u, r, Shows(u, P, kp), may)
  BY <1>9 DEF Seeker, Comes
<1>12. /\ Finds(u.page[p].keys, j, x)
       /\ \A y \in DOMAIN u.page[p].keys : u.page[p].keys[y] # x
  <2>1. ~HasKeyAt(u, p, j, x)
    BY <1>2, <1>6
  <2>2. QED
    BY ONLY <1>1, <1>7, <1>10, <1>11, <2>1, PlainFinds
<1>13. PICK by, at, level : SoundBy(u, r, {}, by, at, level)
  BY <1>1, SoundIs
<1>14. ASSUME d.t.wild = FALSE
       PROVE  d.todo = "remove_from" /\ Seeks(d.t, r, d.at, d.key, k, n, H)
  <2>1. e.t \in Cache
    BY <1>4 DEF Ensured
  <2>2. e.t.wild = FALSE
    <3>1. CASE e.t.wild
      <4>1. d = [c EXCEPT !.t = e.t, !.todo = "absent"]
        BY <1>3, <3>1
      <4>2. d.t = e.t
        BY <1>1, <4>1 DEF Calls
      <4>3. QED
        BY <1>14, <4>2
    <3>2. CASE ~e.t.wild
      BY <2>1, <3>2 DEF Cache
    <3>3. QED
      BY <3>1, <3>2
  <2>3. d = [c EXCEPT !.t = e.t, !.at = Child(e.t, p, e.at)]
    BY <1>3, <2>2
  <2>4. PICK s : s = e.t
    OBVIOUS
  <2>5. s \in Cache /\ Sound(s, r, {})
    BY <1>4, <2>2, <2>4 DEF Ensured, HasExtra
  <2>6. PICK y : y = e.at
    OBVIOUS
  <2>7. Ready(u, s, r, p, P, kp, level, may, x, y)
    <3>1. j \in DOMAIN u.page[p].children
      BY <1>1, <1>6
    <3>2. Ready(u, e.t, r, p, P, kp, level, may, x, e.at)
      BY ONLY <1>1, <1>7, <1>10, <1>11, <1>12, <1>13, <2>2, <3>1, EnsureReady
    <3>3. QED
      BY <2>4, <2>6, <3>2
  <2>8. Seeks(s, r, Child(s, p, y), x, k, n, H)
    <3>1. Seeker(u, r, p, P, kp, may, x, k, n + 1, H)
      BY <1>8, <1>9
    <3>2. QED
      BY ONLY <1>1, <1>13, <2>5, <2>7, <3>1, k \in Int, n \in Nat, SeekerGoes
  <2>9. d.todo = "remove_from" /\ d.t = s /\ d.at = Child(s, p, y) /\ d.key = x
    BY <1>1, <1>2, <1>5, <2>3, <2>4, <2>6 DEF Calls
  <2>10. QED
    BY <2>8, <2>9
<1>15. QED
  BY <1>14 DEF d

\* The calls remove_from comes to, with n passes to go.
Removed(r, k, H, c) == k \in H /\ Has(c.t, r, H \ {k})
NotFound(r, k, H, c) == k \notin H /\ Has(c.t, r, H)

RemovesIn(t, r, k, H, n) ==
    {c \in Removes(t, r) :
        /\ c.todo = "remove_from" => Seeks(c.t, r, c.at, c.key, k, n, H)
        /\ c.todo = "removed" => Removed(r, k, H, c)
        /\ c.todo = "absent" /\ c.t.wild = FALSE => NotFound(r, k, H, c)}

LEMMA RemoveStays ==
  ASSUME NEW t, NEW r, NEW c \in Removes(t, r)
  PROVE  /\ c.todo \in {"remove_from", "removed", "absent"}
         /\ c.todo = "remove_from" => Pass(c) = RemoveFrom(c)
         /\ c.todo # "remove_from" => Pass(c) = c
         /\ Pass(c) \in Removes(t, r)
<1>1. c.todo \in {"remove_from", "removed", "absent"}
  BY DEF Removes, IsRemove
<1>2. c.todo = "remove_from" => Pass(c) = RemoveFrom(c)
  BY DEF Pass
<1>3. c.todo # "remove_from" => Pass(c) = c
  BY <1>1 DEF Pass
<1>4. c.todo = "remove_from" => RemoveFrom(c) \in Removes(t, r)
  BY RemoveFromLeaf, RemoveReplaces, RemoveBelow
<1>5. QED
  BY <1>1, <1>2, <1>3, <1>4

LEMMA RemovePass ==
  ASSUME NEW t, NEW r, NEW k \in Int, NEW H, NEW n \in Nat, NEW c \in RemovesIn(t, r, k, H, n + 1)
  PROVE  Pass(c) \in RemovesIn(t, r, k, H, n)
<1>1. c \in Removes(t, r)
  BY DEF RemovesIn
<1>2. /\ c.todo \in {"remove_from", "removed", "absent"}
      /\ c.todo = "remove_from" => Pass(c) = RemoveFrom(c)
      /\ c.todo # "remove_from" => Pass(c) = c
      /\ Pass(c) \in Removes(t, r)
  BY <1>1, RemoveStays
<1>3. CASE c.todo # "remove_from"
  BY <1>2, <1>3 DEF RemovesIn
<1>4. CASE c.todo = "remove_from"
  <2> DEFINE d == RemoveFrom(c)
             i == LowerBound(c.t, c.at, c.key)
  <2>1. Seeks(c.t, r, c.at, c.key, k, n + 1, H)
    BY <1>4 DEF RemovesIn
  <2>2. d \in Removes(t, r) /\ Pass(c) = d
    BY <1>2, <1>4
  <2>3. CASE HasKeyAt(c.t, c.at, i, c.key) /\ IsLeaf(c.t, c.at)
    <3>1. d.todo = "removed" /\ k \in H /\ Has(d.t, r, H \ {k})
      BY <1>1, <1>4, <2>1, <2>3, RemoveLeafHas
    <3> HIDE DEF d
    <3>2. QED
      BY <2>2, <3>1 DEF RemovesIn, Removed
  <2>4. CASE HasKeyAt(c.t, c.at, i, c.key) /\ ~IsLeaf(c.t, c.at)
    <3>1. d.todo = "remove_from" /\ Seeks(d.t, r, d.at, d.key, k, n, H)
      BY <1>1, <1>4, <2>1, <2>4, RemoveReplacesSeeks
    <3> HIDE DEF d
    <3>2. QED
      BY <2>2, <3>1 DEF RemovesIn
  <2>5. CASE ~HasKeyAt(c.t, c.at, i, c.key) /\ IsLeaf(c.t, c.at)
    <3>1. d.todo = "absent" /\ k \notin H /\ Has(d.t, r, H)
      BY <1>1, <1>4, <2>1, <2>5, RemoveAbsentHas
    <3> HIDE DEF d
    <3>2. QED
      BY <2>2, <3>1 DEF RemovesIn, NotFound
  <2>6. CASE ~HasKeyAt(c.t, c.at, i, c.key) /\ ~IsLeaf(c.t, c.at)
    <3>1. d.t.wild = FALSE => d.todo = "remove_from" /\ Seeks(d.t, r, d.at, d.key, k, n, H)
      BY <1>1, <1>4, <2>1, <2>6, RemoveBelowSeeks
    <3> HIDE DEF d
    <3>2. d.todo \in {"remove_from", "removed", "absent"} /\ (d.todo # "absent" => d.t.wild = FALSE)
      BY <2>2 DEF Removes, IsRemove
    <3>3. QED
      BY <2>2, <3>1, <3>2 DEF RemovesIn
  <2>7. QED
    BY <2>3, <2>4, <2>5, <2>6
<1>5. QED
  BY <1>3, <1>4

\* What a call of remove leaves in the pages before the root gives way.
LEMMA RemoveCallHas ==
  ASSUME NEW t \in Cache, NEW r, r # NoPage, Sound(t, r, {}), t.wild = FALSE,
         NEW k \in Int, NEW H, Has(t, r, H), NEW d, d = Call("remove_from", t, r, k)
  PROVE  /\ d \in Removes(t, r) /\ d.todo \in {"removed", "absent"}
         /\ d.todo = "removed" => Removed(r, k, H, d)
         /\ d.todo = "absent" /\ d.t.wild = FALSE => NotFound(r, k, H, d)
<1> DEFINE D == Removes(t, r)
           c == [todo |-> "remove_from", t |-> t, at |-> r, key |-> k]
           N == Len(t.page)
           F == [n \in Nat |-> RemovesIn(t, r, k, H, n)]
<1>1. r \in InTree(t, {}) /\ r \in Nat /\ N \in Nat
  <2>1. r \in InTree(t, {})
    BY DEF Sound, Holds, TreeHolds
  <2>2. QED
    BY <2>1, PagesOf DEF InTree
<1>2. c \in Calls /\ c.t = t /\ c.at = r /\ c.todo = "remove_from" /\ c.key = k
  BY <1>1 DEF Calls
<1>3. Seeks(t, r, r, k, k, N, H)
  <2>1. PICK may : Holding(t, r, NoPage, <<>>, may, H)
    BY DEF Has
  <2>2. Comes(t, r, r, NoPage, <<>>, may, k, N)
    BY <2>1, RootComes DEF Holding
  <2>3. Seeker(t, r, r, NoPage, <<>>, may, k, k, N, H)
    BY <2>1, <2>2 DEF Seeker, Holding
  <2>4. QED
    BY <2>3 DEF Seeks
<1> HIDE DEF c, N
<1>4. c \in D
  BY <1>1, <1>2, TracksSame DEF Removes, IsRemove
<1>5. c \in RemovesIn(t, r, k, H, N)
  BY <1>2, <1>3, <1>4 DEF RemovesIn
<1>6. \A x \in D : Pass(x) \in D
  BY RemoveStays
<1>7. \A n \in Nat : \A x \in F[n + 1] : Pass(x) \in F[n]
  BY RemovePass
<1>8. c \in F[N] /\ F[0] = RemovesIn(t, r, k, H, 0)
  BY <1>1, <1>5
<1> HIDE DEF D, F
<1>9. Passes(c, N) \in F[0]
  BY ONLY <1>1, <1>4, <1>6, <1>7, <1>8, PassesCount
<1>10. d = Passes(c, N)
  BY DEF Call, c, N
<1>11. /\ d \in Removes(t, r)
       /\ d.todo = "remove_from" => Seeks(d.t, r, d.at, d.key, k, 0, H)
       /\ d.todo = "removed" => Removed(r, k, H, d)
       /\ d.todo = "absent" /\ d.t.wild = FALSE => NotFound(r, k, H, d)
  BY <1>8, <1>9, <1>10 DEF RemovesIn
<1>12. /\ d.t \in Cache /\ d.todo \in {"remove_from", "removed", "absent"}
       /\ d.todo = "remove_from" => Sound(d.t, r, {})
  BY <1>11 DEF Removes, IsRemove, Calls
<1>13. ASSUME d.todo = "remove_from" PROVE FALSE
  <2>1. Within(d.t, r, d.at, 0)
    BY <1>11, <1>13 DEF Seeks, Seeker, Comes
  <2>2. QED
    BY <2>1, <1>12, <1>13, NotWithin
<1>14. QED
  BY <1>11, <1>12, <1>13

-----------------------------------------------------------------------------
(* The root gives way to its child.                                        *)

\* No pages, no keys.
LEMMA NoneHas ==
  ASSUME NEW t, InTree(t, {}) = {}
  PROVE  Has(t, NoPage, {})
<1> DEFINE may == [q \in {NoPage} |-> Int]
<1>1. Holding(t, NoPage, NoPage, <<>>, may, {})
  BY DEF Holding, Arranged, Placed, HeldIn, Held
<1> HIDE DEF may
<1>2. QED
  BY <1>1 DEF Has

\* The pages below the root hold what the tree held.
LEMMA LoweredHas ==
  ASSUME NEW u \in Cache, NEW p, Sound(u, p, {}), p # NoPage, u.page[p].keys = <<>>,
         u.page[p].children # <<>>, NEW x, x = Child(u, p, 1),
         NEW H, Has(u, p, H), NEW s, s = ReleasePage(u, p), Sound(s, x, {})
  PROVE  Has(s, x, H) /\ KeyCount(s, x) > 0
<1> DEFINE T == InTree(u, {})
<1>1. PICK by, at, level : SoundBy(u, p, {}, by, at, level)
  BY SoundIs
<1>2. /\ p \in T /\ p \in DOMAIN u.page /\ Sound(u, x, {p})
  BY RootOut
<1>3. /\ Fits(u, p, p) /\ u.page[p].kind \in {"leaf", "internal"}
      /\ Kids(u)[p] = u.page[p].children /\ u.page[p].children \in Seq(Nat)
  BY <1>1, <1>2, PageFits, PagesOf
<1>4. Len(u.page[p].children) = 1
  BY <1>3 DEF Fits
<1>5. u.page[p].children = <<x>>
  BY <1>3, <1>4 DEF Child
<1>6. HasSole(Kids(u), p, x)
  BY <1>3, <1>5 DEF HasSole
<1>7. PICK may : Holding(u, p, NoPage, <<>>, may, H)
  BY DEF Has
<1> DEFINE kids == Kids(u)
           keys == Shows(u, NoPage, <<>>)
<1>8. Placed(T, p, kids, keys, may) /\ H = Held(T, keys)
      /\ (\A q \in T : keys[q] \in Seq(Int) /\ Len(keys[q]) = KeyCount(u, q))
  BY <1>7 DEF Holding, Arranged, HeldIn
<1>9. keys[p] = <<>>
  BY <1>2, ShowsAll
<1>10. HasSole(kids, p, x) /\ p \in T
  BY <1>2, <1>6
<1>11. /\ DOMAIN s.page = DOMAIN u.page /\ s \in Cache
       /\ \A q \in DOMAIN u.page \ {p} : s.page[q] = u.page[q]
  <2>1. LET t1 == ReleasePage(u, p)
        IN  /\ DOMAIN t1.page = DOMAIN u.page /\ t1 \in Cache
            /\ \A q \in DOMAIN u.page \ {p} : t1.page[q] = u.page[q]
    BY ONLY <1>2, u \in Cache, Releasing
  <2>2. QED
    BY <2>1
<1>12. InTree(s, {}) = T \ {p}
  <2>1. InTree(s, {}) = InTree(u, {p})
    BY <1>2, ReleaseHolds
  <2>2. QED
    BY <2>1 DEF InTree
<1>13. T \subseteq DOMAIN u.page
  BY DEF InTree
<1>14. \A q \in T \ {p} : /\ Kids(s)[q] = kids[q] /\ Shows(s, NoPage, <<>>)[q] = keys[q]
                          /\ KeyCount(s, q) = KeyCount(u, q)
  BY <1>11, <1>13 DEF Kids, Shows, KeyCount
<1>15. x \in T \ {p}
  <2>1. x # NoPage
    BY <1>1, <1>2, <1>4, ChildFits, PagesOf DEF NoPage
  <2>2. x \in InTree(s, {})
    BY <2>1 DEF Sound, Holds, TreeHolds
  <2>3. QED
    BY <1>12, <2>2
<1>16. KeyCount(u, x) > 0
  BY <1>15, HasKeys DEF KeyCount
<1> HIDE DEF T, kids, keys
<1>17. Placed(T \ {p}, x, kids, keys, may) /\ Held(T \ {p}, keys) = Held(T, keys)
  BY ONLY <1>8, <1>9, <1>10, LoweredPlaced
<1>18. PICK T1 : T1 = T \ {p}
  OBVIOUS
<1>19. PICK kids1 : kids1 = Kids(s)
  OBVIOUS
<1>20. PICK keys1 : keys1 = Shows(s, NoPage, <<>>)
  OBVIOUS
<1>21. Placed(T1, x, kids1, keys1, may) /\ Held(T1, keys1) = H
  <2>1. \A q \in T1 : kids1[q] = kids[q] /\ keys1[q] = keys[q]
    BY <1>14, <1>18, <1>19, <1>20
  <2>2. Placed(T1, x, kids, keys, may) /\ Held(T1, keys) = H
    BY <1>8, <1>17, <1>18
  <2>3. QED
    BY ONLY <2>1, <2>2 DEF Placed, Held
<1>22. \A q \in T1 : keys1[q] \in Seq(Int) /\ Len(keys1[q]) = KeyCount(s, q)
  BY <1>8, <1>14, <1>18, <1>20
<1>23. Holding(s, x, NoPage, <<>>, may, H)
  BY <1>12, <1>18, <1>19, <1>20, <1>21, <1>22 DEF Holding, Arranged, HeldIn
<1>24. QED
  BY <1>14, <1>15, <1>16, <1>23 DEF Has

\* A root without keys and without children.
LEMMA LoweredOut ==
  ASSUME NEW u \in Cache, NEW p, Sound(u, p, {}), p # NoPage, u.page[p].keys = <<>>,
         u.page[p].children = <<>>, NEW H, Has(u, p, H), NEW s, s = ReleasePage(u, p)
  PROVE  Has(s, NoPage, H)
<1>1. p \in InTree(u, {}) /\ p \in DOMAIN u.page /\ Sound(u, NoPage, {p})
  BY RootOut
<1>2. InTree(u, {p}) = {}
  BY <1>1 DEF Sound, Holds, TreeHolds
<1>3. InTree(s, {}) = {}
  BY <1>1, <1>2, ReleaseHolds
<1>4. InTree(u, {}) = {p}
  BY <1>1, <1>2 DEF InTree
<1>5. Shows(u, NoPage, <<>>)[p] = <<>>
  BY <1>1, ShowsAll
<1>6. H = {}
  BY <1>4, <1>5 DEF Has, Holding, HeldIn, Held, ToSet
<1>7. QED
  BY <1>3, <1>6, NoneHas

\* There is no root, or it has a key.
HasTop(c) == c.at = NoPage \/ KeyCount(c.t, c.at) > 0

LEMMA ShrinkPass ==
  ASSUME NEW t, NEW c \in Shrinks(t), c.todo = "shrink_root", NEW H, Has(c.t, c.at, H)
  PROVE  LET d == ShrinkRoot(c)
         IN  Has(d.t, d.at, H) /\ HasTop(d)
<1> DEFINE u == c.t
           p == c.at
           s == ReleasePage(u, p)
           x == IF IsLeaf(u, p) \/ u.page[p].children = <<>> THEN NoPage ELSE Child(u, p, 1)
           d == ShrinkRoot(c)
<1>1. u \in Cache /\ Sound(u, p, {}) /\ c \in Calls /\ c.t = u /\ c.at = p
  BY DEF Shrinks, IsShrink, Calls
<1>2. d = IF p = NoPage \/ KeyCount(u, p) > 0 THEN [c EXCEPT !.todo = "shrunk"]
          ELSE [c EXCEPT !.t = s, !.at = x]
  BY DEF ShrinkRoot
<1>3. Has(u, p, H)
  OBVIOUS
<1>4. ShrinkRoot(c) \in Shrinks(t)
  BY ShrinkHolds
<1> HIDE DEF u, p, d, x
<1>5. CASE p = NoPage \/ KeyCount(u, p) > 0
  <2>1. d = [c EXCEPT !.todo = "shrunk"]
    BY <1>2, <1>5
  <2>2. d.t = u /\ d.at = p
    BY <1>1, <2>1 DEF Calls
  <2>3. QED
    BY <1>3, <1>5, <2>2 DEF d, HasTop
<1>6. CASE p # NoPage /\ ~(KeyCount(u, p) > 0)
  <2>1. p \in InTree(u, {}) /\ p \in DOMAIN u.page
    BY <1>1, <1>6 DEF Sound, Holds, TreeHolds, InTree
  <2>2. u.page[p].keys = <<>>
    <3>1. u.page[p].keys \in Seq(Int)
      BY <1>1, <2>1, PagesOf
    <3>2. QED
      BY <1>6, <3>1 DEF KeyCount
  <2>3. d = [c EXCEPT !.t = s, !.at = x]
    BY <1>2, <1>6
  <2> HIDE DEF s
  <2>4. d.t = s /\ d.at = x
    BY <1>1, <2>3 DEF Calls
  <2>5. Sound(s, x, {})
    BY <1>4, <2>4 DEF Shrinks, IsShrink, d
  <2>6. CASE u.page[p].children = <<>>
    <3>1. x = NoPage
      BY <2>6 DEF x
    <3>2. Has(s, NoPage, H)
      BY <1>1, <1>3, <1>6, <2>2, <2>6, LoweredOut DEF s
    <3>3. QED
      BY <2>4, <3>1, <3>2 DEF d, HasTop
  <2>7. CASE u.page[p].children # <<>>
    <3>1. ~IsLeaf(u, p)
      BY <1>1, <1>6, <2>2, <2>7, RootOut
    <3>2. x = Child(u, p, 1)
      BY <2>7, <3>1 DEF x
    <3>3. Has(s, x, H) /\ KeyCount(s, x) > 0
      BY <1>1, <1>3, <1>6, <2>2, <2>5, <2>7, <3>2, LoweredHas DEF s
    <3>4. QED
      BY <2>4, <3>3 DEF d, HasTop
  <2>8. QED
    BY <2>6, <2>7
<1>7. QED
  BY <1>5, <1>6

\* The calls of the loop, with n of N passes to go.
ShrinksIn(t, H, N, n) ==
    {c \in Shrinks(t) : Has(c.t, c.at, H) /\ (n < N \/ c.todo = "shrunk" => HasTop(c))}

LEMMA ShrinkStays ==
  ASSUME NEW t, NEW c \in Shrinks(t)
  PROVE  /\ c.todo \in {"shrink_root", "shrunk"} /\ Pass(c) \in Shrinks(t)
         /\ c.todo = "shrink_root" => Pass(c) = ShrinkRoot(c)
         /\ c.todo = "shrunk" => Pass(c) = c
<1>1. c.todo \in {"shrink_root", "shrunk"}
  BY DEF Shrinks, IsShrink
<1>2. c.todo = "shrink_root" => Pass(c) = ShrinkRoot(c)
  BY DEF Pass
<1>3. c.todo = "shrunk" => Pass(c) = c
  BY DEF Pass
<1>4. QED
  BY <1>1, <1>2, <1>3, ShrinkHolds

\* What the loop leaves.
LEMMA ShrinkCallHas ==
  ASSUME NEW t \in Cache, NEW r \in Nat, Sound(t, r, {}), Len(t.page) # 0, NEW k \in Int,
         NEW H, Has(t, r, H), NEW d, d = Call("shrink_root", t, r, k)
  PROVE  Has(d.t, d.at, H) /\ HasTop(d)
<1> DEFINE D == Shrinks(t)
           c == [todo |-> "shrink_root", t |-> t, at |-> r, key |-> k]
           N == Len(t.page)
           F == [n \in Nat |-> ShrinksIn(t, H, N, n)]
<1>1. N \in Nat /\ 0 < N
  BY PagesOf
<1>2. c \in Calls /\ c.t = t /\ c.at = r /\ c.todo = "shrink_root"
  BY DEF Calls
<1> HIDE DEF c, N
<1>3. c \in D
  BY <1>2, TracksSame DEF Shrinks, IsShrink
<1>4. c \in ShrinksIn(t, H, N, N)
  BY <1>1, <1>2, <1>3 DEF ShrinksIn
<1>5. \A x \in D : Pass(x) \in D
  BY ShrinkStays
<1>6. ASSUME NEW n \in Nat, NEW x \in F[n + 1] PROVE Pass(x) \in F[n]
  <2>1. x \in Shrinks(t) /\ Has(x.t, x.at, H) /\ (x.todo = "shrunk" => HasTop(x))
    BY <1>6 DEF ShrinksIn
  <2>2. /\ x.todo \in {"shrink_root", "shrunk"} /\ Pass(x) \in Shrinks(t)
        /\ x.todo = "shrink_root" => Pass(x) = ShrinkRoot(x)
        /\ x.todo = "shrunk" => Pass(x) = x
    BY <2>1, ShrinkStays
  <2>3. PICK y : y = Pass(x)
    OBVIOUS
  <2>4. Has(y.t, y.at, H) /\ HasTop(y)
    BY <2>1, <2>2, <2>3, ShrinkPass
  <2>5. y \in ShrinksIn(t, H, N, n)
    BY <2>2, <2>3, <2>4 DEF ShrinksIn
  <2>6. QED
    BY <2>3, <2>5
<1>7. c \in F[N] /\ F[0] = ShrinksIn(t, H, N, 0)
  BY <1>1, <1>4
<1> HIDE DEF D, F
<1>8. Passes(c, N) \in F[0]
  BY ONLY <1>1, <1>3, <1>5, <1>6, <1>7, PassesCount
<1>9. d = Passes(c, N)
  BY DEF Call, c, N
<1>10. QED
  BY <1>1, <1>7, <1>8, <1>9 DEF ShrinksIn

\* A tree with a key at the top, or without pages, holds no keys if it has no pages.
LEMMA TopHeld ==
  ASSUME NEW c, c.t \in Cache, Sound(c.t, c.at, {}), HasTop(c), NEW H, Has(c.t, c.at, H)
  PROVE  c.at = NoPage <=> H = {}
<1>1. c.at = NoPage => H = {}
  BY NoneHeld
<1>2. ASSUME c.at # NoPage, H = {} PROVE FALSE
  <2>1. c.at \in InTree(c.t, {}) /\ c.at \in DOMAIN c.t.page
    BY <1>2 DEF Sound, Holds, TreeHolds, InTree
  <2>2. PICK ks : ks = c.t.page[c.at].keys
    OBVIOUS
  <2>3. ks \in Seq(Int) /\ Len(ks) > 0
    BY <1>2, <2>1, <2>2, PagesOf DEF HasTop, KeyCount
  <2>4. Shows(c.t, NoPage, <<>>)[c.at] = ks
    BY <2>1, <2>2, ShowsAll
  <2>5. ToSet(ks) \subseteq H
    BY <2>1, <2>4 DEF Has, Holding, HeldIn, Held
  <2>6. ks[1] \in ToSet(ks)
    BY <2>3 DEF ToSet
  <2>7. QED
    BY <1>2, <2>5, <2>6
<1>3. QED
  BY <1>1, <1>2

-----------------------------------------------------------------------------
(* contains.                                                               *)

LEMMA ContainsHas ==
  ASSUME NEW t \in Cache, NEW r, Sound(t, r, {}), NEW H, Has(t, r, H), NEW k \in Int
  PROVE  ContainsKey(t, r, k) <=> k \in H
<1>1. CASE r = NoPage
  BY <1>1, NoneHeld DEF ContainsKey
<1>2. CASE r # NoPage
  <2> DEFINE T == InTree(t, {})
             D == DOMAIN t.page
             kids == Kids(t)
             keys == Shows(t, NoPage, <<>>)
             N == Len(t.page)
             lb(q) == LowerBound(t, q, k)
             next == [q \in DOMAIN t.page |->
                        LET i == LowerBound(t, q, k)
                        IN  IF HasKeyAt(t, q, i, k) \/ i \notin DOMAIN t.page[q].children
                            THEN q ELSE Child(t, q, i)]
             e == Follow(next, r, N)
  <2>1. ContainsKey(t, r, k) <=> HasKeyAt(t, e, lb(e), k)
    BY <1>2, Zenon DEF ContainsKey
  <2>2. PICK by, at, level : SoundBy(t, r, {}, by, at, level)
    BY SoundIs
  <2>3. PICK may : Arranged(t, r, keys, may) /\ H = Held(T, keys)
    BY DEF Has, Holding, HeldIn
  <2>4. Sorted(D, T, r, kids, keys, by, at, level, may)
    BY <2>2, <2>3, SortedIs
  <2>5. /\ N \in Nat /\ T \subseteq 1..N /\ T \subseteq D
        /\ \A q \in D : keys[q] = t.page[q].keys /\ kids[q] = t.page[q].children
    BY PagesOf, ShowsAll DEF InTree, Kids
  <2>6. r \in T /\ may[r] = Int
    BY <1>2, <2>3 DEF Sound, Holds, TreeHolds, Arranged, Placed
  <2>7. \A q \in D : next[q] = IF HasKeyAt(t, q, lb(q), k) \/ lb(q) \notin DOMAIN kids[q]
                               THEN q ELSE kids[q][lb(q)]
    BY <2>5 DEF Child
  <2>8. Leveled(T, kids, level)
    BY <2>2, SoundLeveled
  <2>9. ASSUME NEW q \in T
        PROVE  /\ keys[q] \in Seq(Int) /\ Finds(keys[q], lb(q), k)
               /\ HasKeyAt(t, q, lb(q), k) => lb(q) \in DOMAIN keys[q] /\ keys[q][lb(q)] = k
               /\ ~HasKeyAt(t, q, lb(q), k) => \A j \in DOMAIN keys[q] : keys[q][j] # k
    <3>1. keys[q] \in Seq(Int) /\ Ascends(keys[q])
      BY <2>4, SortedPage
    <3>2. t.page[q].keys = keys[q]
      BY <2>5
    <3> HIDE DEF keys
    <3>3. LET ks == t.page[q].keys
              i == LowerBound(t, q, k)
          IN  /\ Finds(ks, i, k)
              /\ HasKeyAt(t, q, i, k) => i \in DOMAIN ks /\ ks[i] = k
              /\ ~HasKeyAt(t, q, i, k) => \A j \in DOMAIN ks : ks[j] # k
      BY <3>1, <3>2, BoundFinds
    <3>4. QED
      BY <3>1, <3>2, <3>3
  <2> HIDE DEF T, D, kids, keys, N, lb, next, e
  <2>10. StepsDown(T, kids, next)
    BY <2>5, <2>7 DEF StepsDown
  <2>11. level[r] < N
    BY <2>5, <2>6, <2>8, HeightBound
  <2>12. e \in T /\ next[e] = e
    BY <2>5, <2>6, <2>8, <2>10, <2>11, WalkEnds DEF e
  <2>13. ASSUME HasKeyAt(t, e, lb(e), k) PROVE k \in H
    <3>1. lb(e) \in DOMAIN keys[e] /\ keys[e][lb(e)] = k
      BY <2>9, <2>12, <2>13
    <3>2. QED
      BY <2>3, <2>12, <3>1 DEF Held, ToSet
  <2>14. ASSUME k \in H PROVE HasKeyAt(t, e, lb(e), k)
    <3> DEFINE I == {q \in T : Inside(k, may[q])}
    <3>1. r \in I
      BY <2>6 DEF Inside
    <3>2. ASSUME NEW q \in I PROVE next[q] \in I
      <4>1. q \in T /\ Inside(k, may[q])
        OBVIOUS
      <4>2. CASE HasKeyAt(t, q, lb(q), k) \/ lb(q) \notin DOMAIN kids[q]
        BY <2>5, <2>7, <4>1, <4>2
      <4>3. CASE ~HasKeyAt(t, q, lb(q), k) /\ lb(q) \in DOMAIN kids[q]
        <5>1. next[q] = kids[q][lb(q)]
          BY <2>5, <2>7, <4>1, <4>3
        <5>2. Inside(k, Gap(may[q], keys[q], lb(q)))
          BY <2>9, <4>1, <4>3, InGap
        <5>3. kids[q][lb(q)] \in T /\ may[kids[q][lb(q)]] = Gap(may[q], keys[q], lb(q))
          BY <2>4, <4>1, <4>3, SortedPage
        <5>4. QED
          BY <5>1, <5>2, <5>3
      <4>4. QED
        BY <4>2, <4>3
    <3> HIDE DEF I
    <3>3. e \in I
      BY <2>5, <3>1, <3>2, FollowStays DEF e
    <3>4. Inside(k, may[e])
      BY <3>3 DEF I
    <3>5. ASSUME ~HasKeyAt(t, e, lb(e), k) PROVE FALSE
      <4>1. lb(e) \notin DOMAIN kids[e]
        <5>1. ASSUME lb(e) \in DOMAIN kids[e] PROVE FALSE
          <6>1. kids[e][lb(e)] = e
            BY <2>5, <2>7, <2>12, <3>5, <5>1
          <6>2. QED
            BY <2>4, <2>12, <5>1, <6>1, SortedPage
        <5>2. QED
          BY <5>1
      <4>2. level[e] = 0
        <5>1. ASSUME level[e] # 0 PROVE FALSE
          <6>1. /\ Len(kids[e]) = Len(keys[e]) + 1 /\ DOMAIN kids[e] = 1..Len(kids[e])
                /\ lb(e) \in 1..Len(keys[e]) + 1
            BY <2>4, <2>9, <2>12, <5>1, SortedPage DEF Finds
          <6>2. QED
            BY <4>1, <6>1
        <5>2. QED
          BY <5>1
      <4>3. \E j \in DOMAIN keys[e] : keys[e][j] = k
        BY <2>3, <2>4, <2>12, <2>14, <3>4, <4>2, KeyInLeaf
      <4>4. QED
        BY <2>9, <2>12, <3>5, <4>3
    <3>6. QED
      BY <3>5
  <2>15. QED
    BY <2>1, <2>13, <2>14
<1>3. QED
  BY <1>1, <1>2

-----------------------------------------------------------------------------
(* The keys from left to right.                                            *)

\* s lists the keys K in order.
Lists(s, K) == s \in Seq(Int) /\ Ascends(s) /\ ToSet(s) = K

LEMMA ListsJoin ==
  ASSUME NEW s, NEW K, Lists(s, K), NEW u, NEW L, Lists(u, L), \A a \in K, b \in L : a < b
  PROVE  Lists(s \o u, K \cup L)
<1> DEFINE w == s \o u
           n == Len(s)
           m == Len(u)
<1>1. /\ s \in Seq(Int) /\ u \in Seq(Int) /\ n \in Nat /\ m \in Nat
      /\ DOMAIN s = 1..n /\ DOMAIN u = 1..m
      /\ \A j \in 1..n : s[j] \in Int /\ s[j] \in K
      /\ \A j \in 1..m : u[j] \in Int /\ u[j] \in L
  BY DEF Lists, ToSet
<1>2. /\ w \in Seq(Int) /\ Len(w) = n + m /\ \A j \in 1..n : w[j] = s[j]
      /\ \A j \in 1..m : w[n + j] = u[j]
  BY <1>1, Joined
<1>3. \A i, j \in 1..n : i < j => s[i] < s[j]
  BY <1>1 DEF Lists, Ascends
<1>4. \A i, j \in 1..m : i < j => u[i] < u[j]
  BY <1>1 DEF Lists, Ascends
<1>5. \A i \in 1..n, j \in 1..m : s[i] < u[j]
  BY <1>1
<1> HIDE DEF w, n, m
<1>6. DOMAIN w = 1..n + m
  BY <1>2
<1>7. \A j \in DOMAIN w : j \in 1..n \/ \E i \in 1..m : j = n + i
  <2>1. ASSUME NEW j \in DOMAIN w, j \notin 1..n PROVE \E i \in 1..m : j = n + i
    <3>1. j - n \in 1..m /\ j = n + (j - n)
      BY <1>1, <1>6, <2>1
    <3>2. QED
      BY <3>1
  <2>2. QED
    BY <2>1
<1>8. ASSUME NEW i \in DOMAIN w, NEW j \in DOMAIN w, i < j PROVE w[i] < w[j]
  <2>1. CASE i \in 1..n /\ j \in 1..n
    BY <1>2, <1>3, <1>8, <2>1
  <2>2. CASE i \in 1..n /\ j \notin 1..n
    BY <1>2, <1>5, <1>7, <2>2
  <2>3. CASE i \notin 1..n /\ j \notin 1..n
    <3>1. PICK a \in 1..m : i = n + a
      BY <1>7, <2>3
    <3>2. PICK b \in 1..m : j = n + b
      BY <1>7, <2>3
    <3>3. a < b
      BY <1>1, <1>8, <3>1, <3>2
    <3>4. QED
      BY <1>2, <1>4, <3>1, <3>2, <3>3
  <2>4. CASE i \notin 1..n /\ j \in 1..n
    BY <1>1, <1>6, <1>8, <2>4
  <2>5. QED
    BY <2>1, <2>2, <2>3, <2>4
<1>9. ToSet(w) = K \cup L
  <2>1. ToSet(s) = K /\ ToSet(u) = L
    BY DEF Lists
  <2>2. ASSUME NEW x \in ToSet(w) PROVE x \in K \cup L
    <3>1. PICK j \in DOMAIN w : x = w[j]
      BY DEF ToSet
    <3>2. QED
      BY <1>1, <1>2, <1>7, <3>1
  <2>3. ASSUME NEW x \in K PROVE x \in ToSet(w)
    <3>1. PICK j \in 1..n : x = s[j]
      BY <1>1, <2>1 DEF ToSet
    <3>2. j \in DOMAIN w /\ w[j] = x
      BY <1>1, <1>2, <1>6, <3>1
    <3>3. QED
      BY <3>2 DEF ToSet
  <2>4. ASSUME NEW x \in L PROVE x \in ToSet(w)
    <3>1. PICK j \in 1..m : x = u[j]
      BY <1>1, <2>1 DEF ToSet
    <3>2. n + j \in DOMAIN w /\ w[n + j] = x
      BY <1>1, <1>2, <1>6, <3>1
    <3>3. QED
      BY <3>2 DEF ToSet
  <2>5. QED
    BY <2>2, <2>3, <2>4
<1>10. QED
  BY <1>2, <1>8, <1>9 DEF Lists, Ascends, w

LEMMA ListsOne ==
  ASSUME NEW x \in Int
  PROVE  Lists(<<x>>, {x})
BY DEF Lists, Ascends, ToSet

LEMMA ListsMore ==
  ASSUME NEW s, NEW K, Lists(s, K), NEW x \in Int, \A a \in K : a < x
  PROVE  Lists(Append(s, x), K \cup {x})
<1>1. Lists(s \o <<x>>, K \cup {x})
  <2>1. PICK u : u = <<x>>
    OBVIOUS
  <2>2. Lists(u, {x})
    BY <2>1, ListsOne
  <2>3. \A a \in K, b \in {x} : a < b
    OBVIOUS
  <2>4. Lists(s \o u, K \cup {x})
    BY <2>2, <2>3, ListsJoin
  <2>5. QED
    BY <2>1, <2>4
<1>2. Append(s, x) = s \o <<x>>
  BY DEF Lists
<1>3. QED
  BY <1>1, <1>2

\* FlattenSeq, sequence by sequence.
FlatPiece(seqs, n, g) ==
    g = [i \in 1..n |-> IF i = 1 THEN seqs[i] ELSE g[i - 1] \o seqs[i]]

LEMMA FlatPieces ==
  ASSUME NEW seqs
  PROVE  \A n \in Nat : \E g : FlatPiece(seqs, n, g)
<1> DEFINE Bad == {n \in Nat : ~ \E g : FlatPiece(seqs, n, g)}
<1> SUFFICES ASSUME Bad # {} PROVE FALSE
  OBVIOUS
<1>1. PICK n \in Bad : \A m \in Bad : n <= m
  BY LeastNatural
<1>2. CASE n = 0
  <2>1. FlatPiece(seqs, 0, [i \in 1..0 |-> seqs[i]])
    BY DEF FlatPiece
  <2>2. QED
    BY <1>2, <2>1
<1>3. CASE n # 0
  <2>1. n - 1 \in Nat /\ n - 1 \notin Bad
    BY <1>1, <1>3
  <2>2. PICK g : FlatPiece(seqs, n - 1, g)
    BY <2>1
  <2> DEFINE h == [i \in 1..n |-> IF i # n THEN g[i]
                                  ELSE IF i = 1 THEN seqs[i] ELSE g[i - 1] \o seqs[i]]
  <2>3. \A i \in 1..n : h[i] = IF i = 1 THEN seqs[i] ELSE h[i - 1] \o seqs[i]
    <3>1. \A i \in 1..n - 1 : g[i] = IF i = 1 THEN seqs[i] ELSE g[i - 1] \o seqs[i]
      BY <2>2 DEF FlatPiece
    <3>2. /\ \A i \in 1..n - 1 : h[i] = g[i]
          /\ h[n] = IF n = 1 THEN seqs[n] ELSE g[n - 1] \o seqs[n]
      <4>1. n \in 1..n /\ \A i \in 1..n - 1 : i \in 1..n /\ i # n
        BY <1>3, <2>1
      <4>2. \A i \in 1..n - 1 : h[i] = g[i]
        BY <4>1
      <4>3. h[n] = IF n = 1 THEN seqs[n] ELSE g[n - 1] \o seqs[n]
        BY <4>1, Zenon
      <4>4. QED
        BY <4>2, <4>3
    <3> HIDE DEF h
    <3>3. ASSUME NEW i \in 1..n PROVE h[i] = IF i = 1 THEN seqs[i] ELSE h[i - 1] \o seqs[i]
      <4>1. i = n \/ i \in 1..n - 1
        BY <1>3, <2>1
      <4>2. i # 1 => i - 1 \in 1..n - 1
        OBVIOUS
      <4>3. i # 1 => h[i - 1] = g[i - 1]
        BY <3>2, <4>2
      <4>4. h[i] = IF i = 1 THEN seqs[i] ELSE g[i - 1] \o seqs[i]
        BY <3>1, <3>2, <4>1
      <4>5. QED
        BY <4>3, <4>4
    <3>4. QED
      BY <3>3
  <2>4. FlatPiece(seqs, n, h)
    BY <2>3 DEF FlatPiece
  <2>5. QED
    BY <2>4, <1>1
<1>4. QED
  BY <1>2, <1>3

LEMMA FlattenIs ==
  ASSUME NEW seqs, Len(seqs) \in Nat \ {0}
  PROVE  \E g : FlatPiece(seqs, Len(seqs), g) /\ FlattenSeq(seqs) = g[Len(seqs)]
<1> DEFINE g == CHOOSE g : FlatPiece(seqs, Len(seqs), g)
<1>1. FlattenSeq(seqs) = g[Len(seqs)]
  BY DEF FlattenSeq, FlatPiece
<1>2. FlatPiece(seqs, Len(seqs), g)
  <2>1. \E f : FlatPiece(seqs, Len(seqs), f)
    BY FlatPieces
  <2>2. QED
    BY <2>1
<1>3. QED
  BY <1>1, <1>2

\* The keys up to place i, and those from the place before on.
UpTo(ks, K, i) == {y \in K : y <= ks[i]}
Between(ks, K, i) == {y \in K : Belongs(ks, i, y)}

LEMMA UpToIs ==
  ASSUME NEW ks \in Seq(Int), Ascends(ks), NEW K \in SUBSET Int, ToSet(ks) \subseteq K
  PROVE  /\ Between(ks, K, Len(ks) + 1) \cup (IF ks = <<>> THEN {} ELSE UpTo(ks, K, Len(ks))) = K
         /\ ks # <<>> => \A a \in UpTo(ks, K, Len(ks)), b \in Between(ks, K, Len(ks) + 1) : a < b
         /\ \A i \in 1..Len(ks) : /\ ks[i] \in Int
                                  /\ \A a \in Between(ks, K, i) : a < ks[i]
         /\ 1 \in 1..Len(ks) => UpTo(ks, K, 1) = Between(ks, K, 1) \cup {ks[1]}
         /\ \A i, j \in 1..Len(ks) : j = i + 1 =>
               /\ UpTo(ks, K, j) = UpTo(ks, K, i) \cup (Between(ks, K, j) \cup {ks[j]})
               /\ \A a \in UpTo(ks, K, i), b \in Between(ks, K, j) \cup {ks[j]} : a < b
<1> DEFINE n == Len(ks)
<1>1. /\ n \in Nat /\ DOMAIN ks = 1..n /\ (ks = <<>> <=> n = 0)
      /\ \A i \in 1..n : ks[i] \in Int /\ ks[i] \in K
      /\ \A i, j \in 1..n : i < j => ks[i] < ks[j]
  BY DEF ToSet, Ascends
<1> HIDE DEF n
<1>2. \A i, y : Belongs(ks, i, y) <=> \A j \in 1..n : IF j < i THEN ks[j] < y ELSE y < ks[j]
  BY <1>1 DEF Belongs
<1>3. \A i, j \in 1..n : i <= j => ks[i] <= ks[j]
  BY <1>1
<1>4. ASSUME NEW i \in 1..n PROVE ks[i] \in Int /\ \A a \in Between(ks, K, i) : a < ks[i]
  BY <1>1, <1>2 DEF Between
<1>5. ASSUME 1 \in 1..n PROVE UpTo(ks, K, 1) = Between(ks, K, 1) \cup {ks[1]}
  <2>1. ASSUME NEW y \in K, y < ks[1] PROVE Belongs(ks, 1, y)
    BY <1>1, <1>2, <1>3, <1>5, <2>1
  <2>2. \A y \in Between(ks, K, 1) : y < ks[1]
    BY <1>4, <1>5
  <2>3. ks[1] \in K /\ ks[1] \in Int
    BY <1>1, <1>5
  <2>4. PICK a \in Int : a = ks[1]
    BY <2>3
  <2>5. PICK B : B = Between(ks, K, 1)
    OBVIOUS
  <2>6. \A y \in K : y < a => y \in B
    BY ONLY <2>1, <2>4, <2>5 DEF Between
  <2>7. /\ B \subseteq K /\ \A y \in B : y < a
        /\ a \in K /\ K \subseteq Int
    BY <2>2, <2>3, <2>4, <2>5 DEF Between
  <2>8. {y \in K : y <= a} = B \cup {a}
    <3>1. ASSUME NEW y \in K PROVE y <= a <=> y \in B \/ y = a
      BY ONLY <2>4, <2>6, <2>7, <3>1
    <3>2. QED
      BY ONLY <2>7, <3>1
  <2>9. QED
    BY <2>4, <2>5, <2>8 DEF UpTo
<1>6. ASSUME NEW i \in 1..n, NEW j \in 1..n, j = i + 1
      PROVE  /\ UpTo(ks, K, j) = UpTo(ks, K, i) \cup (Between(ks, K, j) \cup {ks[j]})
             /\ \A a \in UpTo(ks, K, i), b \in Between(ks, K, j) \cup {ks[j]} : a < b
  <2>1. ks[i] \in Int /\ ks[j] \in Int /\ ks[i] < ks[j] /\ ks[j] \in K
    BY <1>1, <1>6
  <2>2. \A y \in K : Belongs(ks, j, y) <=> ks[i] < y /\ y < ks[j]
    <3>1. ASSUME NEW y \in K, ks[i] < y, y < ks[j] PROVE Belongs(ks, j, y)
      <4>1. ASSUME NEW e \in 1..n PROVE IF e < j THEN ks[e] < y ELSE y < ks[e]
        <5>1. e < j => e <= i
          BY <1>6
        <5>2. QED
          BY <1>1, <1>3, <2>1, <3>1, <5>1
      <4>2. QED
        BY <1>2, <4>1
    <3>2. ASSUME NEW y \in K, Belongs(ks, j, y) PROVE ks[i] < y /\ y < ks[j]
      <4>1. i < j /\ ~(j < j)
        BY <1>6
      <4>2. QED
        BY <1>2, <3>2, <4>1
    <3>3. QED
      BY <3>1, <3>2
  <2>3. PICK a \in Int : a = ks[i]
    BY <2>1
  <2>4. PICK b \in Int : b = ks[j]
    BY <2>1
  <2>5. PICK B : B = Between(ks, K, j)
    OBVIOUS
  <2>6. B = {y \in K : a < y /\ y < b}
    BY ONLY <2>2, <2>3, <2>4, <2>5 DEF Between
  <2>7. a < b /\ b \in K /\ K \subseteq Int
    BY <2>1, <2>3, <2>4
  <2>8. /\ {y \in K : y <= b} = {y \in K : y <= a} \cup (B \cup {b})
        /\ \A x \in {y \in K : y <= a}, z \in B \cup {b} : x < z
    <3>1. ASSUME NEW y \in K PROVE y <= b <=> y <= a \/ (a < y /\ y < b) \/ y = b
      BY ONLY <2>3, <2>4, <2>7, <3>1
    <3>2. {y \in K : y <= b} = {y \in K : y <= a} \cup (B \cup {b})
      BY ONLY <2>6, <2>7, <3>1
    <3>3. ASSUME NEW x \in {y \in K : y <= a}, NEW z \in B \cup {b} PROVE x < z
      BY ONLY <2>3, <2>4, <2>6, <2>7, <3>3
    <3>4. QED
      BY ONLY <3>2, <3>3
  <2>9. UpTo(ks, K, i) = {y \in K : y <= a} /\ UpTo(ks, K, j) = {y \in K : y <= b}
    BY <2>3, <2>4 DEF UpTo
  <2>10. QED
    BY ONLY <2>4, <2>5, <2>8, <2>9
<1>7. ASSUME n # 0
      PROVE  /\ Between(ks, K, n + 1) \cup UpTo(ks, K, n) = K
             /\ \A a \in UpTo(ks, K, n), b \in Between(ks, K, n + 1) : a < b
  <2>1. n \in 1..n /\ ks[n] \in Int
    BY <1>1, <1>7
  <2>2. \A y \in K : Belongs(ks, n + 1, y) <=> ks[n] < y
    <3>1. PICK j : j = n + 1
      OBVIOUS
    <3>2. \A e \in 1..n : e < j /\ e <= n
      BY <1>1, <3>1
    <3>3. ASSUME NEW y \in K, ks[n] < y PROVE Belongs(ks, j, y)
      BY <1>1, <1>2, <1>3, <2>1, <3>2, <3>3
    <3>4. ASSUME NEW y \in K, Belongs(ks, j, y) PROVE ks[n] < y
      BY <1>2, <2>1, <3>2, <3>4
    <3>5. QED
      BY <3>1, <3>3, <3>4
  <2>3. PICK j : j = n + 1
    OBVIOUS
  <2>4. \A y \in K : Belongs(ks, j, y) <=> ks[n] < y
    BY <2>2, <2>3
  <2>5. K \subseteq Int
    OBVIOUS
  <2>6. /\ Between(ks, K, j) \cup UpTo(ks, K, n) = K
        /\ \A a \in UpTo(ks, K, n), b \in Between(ks, K, j) : a < b
    <3>1. PICK a \in Int : a = ks[n]
      BY <2>1
    <3>2. PICK B : B = Between(ks, K, j)
      OBVIOUS
    <3>3. B = {y \in K : a < y}
      BY ONLY <2>4, <3>1, <3>2 DEF Between
    <3>4. PICK U : U = UpTo(ks, K, n)
      OBVIOUS
    <3>5. U = {y \in K : y <= a}
      BY <3>1, <3>4 DEF UpTo
    <3>6. B \cup U = K /\ \A x \in U, y \in B : x < y
      <4>1. ASSUME NEW y \in K PROVE a < y \/ y <= a
        BY ONLY <2>5, <3>1, <4>1
      <4>2. B \cup U = K
        BY ONLY <3>3, <3>5, <4>1
      <4>3. ASSUME NEW x \in U, NEW y \in B PROVE x < y
        BY ONLY <2>5, <3>1, <3>3, <3>5, <4>3
      <4>4. QED
        BY ONLY <4>2, <4>3
    <3>7. QED
      BY ONLY <3>2, <3>4, <3>6
  <2>7. QED
    BY <2>3, <2>6
<1>8. ASSUME n = 0 PROVE Between(ks, K, n + 1) = K
  BY <1>1, <1>2, <1>8 DEF Between
<1>9. QED
  BY <1>1, <1>4, <1>5, <1>6, <1>7, <1>8 DEF n

\* A page's keys between the lists of its children.
LEMMA ListsParts ==
  ASSUME NEW ks \in Seq(Int), Ascends(ks), NEW K \in SUBSET Int, ToSet(ks) \subseteq K,
         NEW parts, \A j \in 1..Len(ks) + 1 : Lists(parts[j], Between(ks, K, j)),
         NEW seqs, seqs = [i \in DOMAIN ks |-> Append(parts[i], ks[i])]
  PROVE  Lists(FlattenSeq(seqs) \o parts[Len(ks) + 1], K)
<1> DEFINE n == Len(ks)
           last == parts[Len(ks) + 1]
<1>1. n \in Nat /\ DOMAIN ks = 1..n /\ (ks = <<>> <=> n = 0)
  OBVIOUS
<1>2. /\ Between(ks, K, n + 1) \cup (IF ks = <<>> THEN {} ELSE UpTo(ks, K, n)) = K
      /\ ks # <<>> => \A a \in UpTo(ks, K, n), b \in Between(ks, K, n + 1) : a < b
      /\ \A i \in 1..n : ks[i] \in Int /\ \A a \in Between(ks, K, i) : a < ks[i]
      /\ 1 \in 1..n => UpTo(ks, K, 1) = Between(ks, K, 1) \cup {ks[1]}
      /\ \A i, j \in 1..n : j = i + 1 =>
            /\ UpTo(ks, K, j) = UpTo(ks, K, i) \cup (Between(ks, K, j) \cup {ks[j]})
            /\ \A a \in UpTo(ks, K, i), b \in Between(ks, K, j) \cup {ks[j]} : a < b
  BY UpToIs
<1>3. Lists(last, Between(ks, K, n + 1))
  BY <1>1
<1>4. CASE n = 0
  <2>1. seqs = <<>> /\ Len(seqs) = 0
    BY <1>1, <1>4
  <2>2. FlattenSeq(seqs) = <<>>
    BY <2>1 DEF FlattenSeq
  <2>3. last \in Seq(Int) /\ Lists(last, K)
    BY <1>1, <1>2, <1>3, <1>4 DEF Lists
  <2>4. <<>> \o last = last
    BY <2>3
  <2>5. QED
    BY <2>2, <2>3, <2>4
<1>5. CASE n # 0
  <2>1. \A i \in 1..n : seqs[i] = Append(parts[i], ks[i])
    BY <1>1
  <2>2. Len(seqs) = n
    <3>1. DOMAIN seqs = 1..n
      BY <1>1
    <3>2. ASSUME NEW i \in 1..n PROVE seqs[i] \in Seq(Int)
      <4>1. parts[i] \in Seq(Int) /\ ks[i] \in Int
        BY <1>1, <1>2, <3>2 DEF Lists
      <4>2. QED
        BY <2>1, <4>1
    <3>3. seqs \in Seq(Seq(Int))
      <4>1. seqs = [i \in 1..n |-> seqs[i]]
        BY <1>1
      <4>2. QED
        BY <1>1, <3>1, <3>2, <4>1
    <3>4. QED
      BY <1>1, <3>1, <3>3
  <2>3. PICK fl : FlatPiece(seqs, n, fl) /\ FlattenSeq(seqs) = fl[n]
    BY <1>1, <1>5, <2>2, FlattenIs
  <2>4. \A i \in 1..n : fl[i] = IF i = 1 THEN seqs[i] ELSE fl[i - 1] \o seqs[i]
    BY <2>3 DEF FlatPiece
  <2>5. ASSUME NEW i \in 1..n PROVE Lists(seqs[i], Between(ks, K, i) \cup {ks[i]})
    <3>1. Lists(parts[i], Between(ks, K, i)) /\ ks[i] \in Int
          /\ \A a \in Between(ks, K, i) : a < ks[i]
      BY <1>1, <1>2
    <3>2. PICK x : x = ks[i]
      OBVIOUS
    <3>3. PICK B : B = Between(ks, K, i)
      OBVIOUS
    <3>4. Lists(Append(parts[i], x), B \cup {x})
      BY <3>1, <3>2, <3>3, ListsMore
    <3>5. QED
      BY <2>1, <3>2, <3>3, <3>4
  <2> DEFINE S == {m \in Nat : m + 1 <= n => Lists(fl[m + 1], UpTo(ks, K, m + 1))}
  <2>6. 0 \in S
    <3>1. 1 \in 1..n
      BY <1>1, <1>5
    <3>2. fl[1] = seqs[1] /\ UpTo(ks, K, 1) = Between(ks, K, 1) \cup {ks[1]}
      BY <1>2, <2>4, <3>1
    <3>3. Lists(fl[1], UpTo(ks, K, 1))
      BY <2>5, <3>1, <3>2
    <3>4. 0 + 1 = 1 /\ 0 \in Nat
      OBVIOUS
    <3>5. Lists(fl[0 + 1], UpTo(ks, K, 0 + 1))
      BY ONLY <3>3, <3>4
    <3>6. QED
      BY ONLY <3>4, <3>5
  <2>7. ASSUME NEW m \in Nat, m \in S PROVE m + 1 \in S
    <3>1. PICK i : i = m + 1
      OBVIOUS
    <3>2. PICK j : j = i + 1
      OBVIOUS
    <3>3. ASSUME j <= n PROVE Lists(fl[j], UpTo(ks, K, j))
      <4>1. i \in 1..n /\ j \in 1..n /\ j # 1 /\ j - 1 = i /\ m + 1 <= n
        BY <1>1, <3>1, <3>2, <3>3
      <4>2. Lists(fl[i], UpTo(ks, K, i))
        BY <2>7, <3>1, <4>1
      <4>3. fl[j] = fl[i] \o seqs[j]
        BY <2>4, <4>1
      <4>4. Lists(seqs[j], Between(ks, K, j) \cup {ks[j]})
        BY <2>5, <4>1
      <4>5. /\ UpTo(ks, K, j) = UpTo(ks, K, i) \cup (Between(ks, K, j) \cup {ks[j]})
            /\ \A a \in UpTo(ks, K, i), b \in Between(ks, K, j) \cup {ks[j]} : a < b
        BY <1>2, <3>2, <4>1
      <4>6. Lists(fl[i] \o seqs[j], UpTo(ks, K, i) \cup (Between(ks, K, j) \cup {ks[j]}))
        BY ONLY <4>2, <4>4, <4>5, ListsJoin
      <4>7. QED
        BY <4>3, <4>5, <4>6
    <3>4. (m + 1) + 1 <= n => Lists(fl[(m + 1) + 1], UpTo(ks, K, (m + 1) + 1))
      BY <3>1, <3>2, <3>3
    <3>5. QED
      BY <3>4
  <2> HIDE DEF S
  <2>8. \A m \in Nat : m \in S
    BY <2>6, <2>7, AllNaturals
  <2>9. Lists(fl[n], UpTo(ks, K, n))
    <3>1. PICK m \in Nat : n = m + 1
      <4>1. n - 1 \in Nat /\ n = (n - 1) + 1
        BY <1>1, <1>5
      <4>2. QED
        BY <4>1
    <3>2. m \in S /\ m + 1 <= n
      BY <1>1, <2>8, <3>1
    <3>3. Lists(fl[m + 1], UpTo(ks, K, m + 1))
      BY <3>2 DEF S
    <3>4. QED
      BY <3>1, <3>3
  <2>10. /\ Between(ks, K, n + 1) \cup UpTo(ks, K, n) = K
         /\ \A a \in UpTo(ks, K, n), b \in Between(ks, K, n + 1) : a < b
    BY <1>1, <1>2, <1>5
  <2>11. PICK U : U = UpTo(ks, K, n)
    OBVIOUS
  <2>12. PICK B : B = Between(ks, K, n + 1)
    OBVIOUS
  <2>13. Lists(fl[n], U) /\ Lists(last, B) /\ B \cup U = K /\ \A a \in U, b \in B : a < b
    BY <1>3, <2>9, <2>10, <2>11, <2>12
  <2>14. Lists(fl[n] \o last, U \cup B)
    BY <2>13, ListsJoin
  <2>15. QED
    BY <2>3, <2>13, <2>14
<1>6. QED
  BY <1>4, <1>5

\* What collect_keys makes of the page q, when f has the keys below its children.
OrderAt(t, f, q) ==
    LET page == t.page[q]
    IN  IF IsLeaf(t, q) THEN page.keys
        ELSE FlattenSeq([i \in DOMAIN page.keys |->
                            Append(f[page.children[i]], page.keys[i])])
             \o f[Last(page.children)]

\* The pages below q in a tree of these levels.
Stacked(t, level) ==
    \A q \in InTree(t, {}) :
        LET ks == t.page[q].keys
            cs == t.page[q].children
        IN  /\ level[q] \in Nat
            /\ ks \in Seq(Int) /\ Len(ks) \in Nat /\ DOMAIN ks = 1..Len(ks)
            /\ IsLeaf(t, q) <=> level[q] = 0
            /\ level[q] = 0 => cs = <<>>
            /\ level[q] # 0 => /\ Len(cs) = Len(ks) + 1
                               /\ Last(cs) = cs[Len(ks) + 1]
            /\ \A i \in 1..Len(ks) + 1 :
                  level[q] # 0 => cs[i] \in InTree(t, {}) /\ level[cs[i]] + 1 = level[q]

LEMMA OrderSame ==
  ASSUME NEW t, NEW level, Stacked(t, level), NEW q \in InTree(t, {}), NEW f, NEW g,
         \A c \in InTree(t, {}) : level[c] + 1 = level[q] => f[c] = g[c]
  PROVE  OrderAt(t, f, q) = OrderAt(t, g, q)
<1> DEFINE ks == t.page[q].keys
           cs == t.page[q].children
<1>1. /\ Len(ks) \in Nat /\ DOMAIN ks = 1..Len(ks)
      /\ IsLeaf(t, q) <=> level[q] = 0
      /\ level[q] # 0 => Last(cs) = cs[Len(ks) + 1]
      /\ \A i \in 1..Len(ks) + 1 :
            level[q] # 0 => cs[i] \in InTree(t, {}) /\ level[cs[i]] + 1 = level[q]
  BY DEF Stacked
<1>2. CASE IsLeaf(t, q)
  BY <1>2 DEF OrderAt
<1>3. CASE ~IsLeaf(t, q)
  <2>1. \A i \in 1..Len(ks) + 1 : f[cs[i]] = g[cs[i]]
    BY <1>1, <1>3
  <2>2. \A i \in DOMAIN ks : i \in 1..Len(ks) + 1
    BY <1>1
  <2>3. Len(ks) + 1 \in 1..Len(ks) + 1
    BY <1>1
  <2>4. f[Last(cs)] = g[Last(cs)]
    BY <1>1, <1>3, <2>1, <2>3
  <2>5. [i \in DOMAIN ks |-> Append(f[cs[i]], ks[i])] = [i \in DOMAIN ks |-> Append(g[cs[i]], ks[i])]
    BY <2>1, <2>2
  <2>6. \A h : OrderAt(t, h, q) =
                  FlattenSeq([i \in DOMAIN ks |-> Append(h[cs[i]], ks[i])]) \o h[Last(cs)]
    BY <1>3 DEF OrderAt
  <2> HIDE DEF ks, cs
  <2>7. QED
    BY <2>4, <2>5, <2>6
<1>4. QED
  BY <1>2, <1>3

\* There is such a function of the pages.
LEMMA OrderExists ==
  ASSUME NEW t, NEW level, Stacked(t, level)
  PROVE  \A n \in Nat : \E f : \A q \in InTree(t, {}) : level[q] < n => f[q] = OrderAt(t, f, q)
<1> DEFINE T == InTree(t, {})
           Goes(f, n) == \A q \in T : level[q] < n => f[q] = OrderAt(t, f, q)
           S == {n \in Nat : \E f : Goes(f, n)}
<1>1. \A q \in T : level[q] \in Nat
  BY DEF Stacked
<1>2. 0 \in S
  <2>1. Goes(<<>>, 0)
    BY <1>1
  <2>2. QED
    BY <2>1
<1>3. ASSUME NEW n \in Nat, n \in S PROVE n + 1 \in S
  <2>1. PICK f : Goes(f, n)
    BY <1>3
  <2> DEFINE h == [q \in T |-> OrderAt(t, f, q)]
  <2>2. \A q \in T : h[q] = OrderAt(t, f, q)
    OBVIOUS
  <2> HIDE DEF h
  <2>3. ASSUME NEW q \in T, level[q] < n + 1 PROVE h[q] = OrderAt(t, h, q)
    <3>1. ASSUME NEW c \in T, level[c] + 1 = level[q] PROVE f[c] = h[c]
      <4>1. level[c] < n
        BY <1>1, <2>3, <3>1
      <4>2. QED
        BY <2>1, <2>2, <4>1
    <3>2. OrderAt(t, f, q) = OrderAt(t, h, q)
      BY <3>1, OrderSame
    <3>3. QED
      BY <2>2, <3>2
  <2>4. Goes(h, n + 1)
    BY <2>3
  <2>5. QED
    BY <2>4
<1> HIDE DEF S
<1>4. \A n \in Nat : n \in S
  BY <1>2, <1>3, AllNaturals
<1>5. QED
  BY <1>4 DEF S

LEMMA InOrderIs ==
  ASSUME NEW t, NEW level, Stacked(t, level), NEW r \in InTree(t, {}),
         \A q \in InTree(t, {}) : level[q] <= level[r]
  PROVE  \E f : InOrder(t, r) = f[r] /\ \A q \in InTree(t, {}) : f[q] = OrderAt(t, f, q)
<1> DEFINE T == InTree(t, {})
           Is(f) == f = [q \in InUse(t) |->
                           LET page == t.page[q]
                           IN  IF IsLeaf(t, q) THEN page.keys
                               ELSE FlattenSeq([i \in DOMAIN page.keys |->
                                                   Append(f[page.children[i]], page.keys[i])])
                                    \o f[Last(page.children)]]
<1>1. \A q \in T : level[q] \in Nat
  BY DEF Stacked
<1>2. PICK n : n = level[r] + 1
  OBVIOUS
<1>3. n \in Nat /\ \A q \in T : level[q] < n
  BY <1>1, <1>2
<1>4. PICK g : \A q \in T : level[q] < n => g[q] = OrderAt(t, g, q)
  BY <1>3, OrderExists
<1> DEFINE f == [q \in T |-> g[q]]
<1>5. \A q \in T : f[q] = g[q]
  OBVIOUS
<1>6. InUse(t) = T
  BY DEF InUse, InTree
<1>7. f = [q \in T |-> OrderAt(t, f, q)]
  <2>1. ASSUME NEW q \in T PROVE OrderAt(t, f, q) = g[q]
    <3>1. OrderAt(t, g, q) = OrderAt(t, f, q)
      <4> HIDE DEF f
      <4>1. \A c \in T : level[c] + 1 = level[q] => g[c] = f[c]
        BY <1>5
      <4>2. QED
        BY <4>1, OrderSame
    <3>2. QED
      BY <1>3, <1>4, <3>1
  <2>2. QED
    BY <2>1
<1> HIDE DEF f, T
<1>8. Is(f)
  BY <1>6, <1>7, Zenon DEF OrderAt
<1> DEFINE x == CHOOSE y : Is(y)
<1>9. Is(x)
  BY <1>8, Zenon
<1>10. InOrder(t, r) = x[r]
  BY DEF InOrder
<1> HIDE DEF x
<1>11. \A q \in T : x[q] = OrderAt(t, x, q)
  BY <1>6, <1>9, Zenon DEF OrderAt
<1>12. QED
  BY <1>10, <1>11 DEF T

\* The keys in the tree that lie inside the cuts m.
Under(T, keys, m) == {y \in Held(T, keys) : Inside(y, m)}

LEMMA InsideGap ==
  ASSUME NEW m, NEW ks \in Seq(Int), NEW j, NEW y \in Int
  PROVE  Inside(y, Gap(m, ks, j)) <=> Inside(y, m) /\ Belongs(ks, j, y)
<1>1. \A i \in DOMAIN ks : ks[i] \in Int
  OBVIOUS
<1>2. \A i \in DOMAIN ks :
         (IF i < j THEN ks[i] < y ELSE y < ks[i]) <=>
         (IF i < j THEN ks[i] < y ELSE y <= ks[i]) /\ (IF i < j THEN ks[i] < y + 1 ELSE y + 1 <= ks[i])
  BY <1>1
<1>3. QED
  BY <1>2, Zenon DEF Inside, Gap, Belongs

LEMMA UnderGap ==
  ASSUME NEW T, NEW keys, Held(T, keys) \subseteq Int, NEW m, NEW ks \in Seq(Int), NEW j
  PROVE  Between(ks, Under(T, keys, m), j) = Under(T, keys, Gap(m, ks, j))
<1>1. \A y \in Held(T, keys) : Inside(y, Gap(m, ks, j)) <=> Inside(y, m) /\ Belongs(ks, j, y)
  BY InsideGap
<1>2. QED
  BY <1>1, Zenon DEF Between, Under

\* A leaf lists the keys inside its cuts.
LEMMA LeafLists ==
  ASSUME NEW D, NEW T, NEW r, NEW kids, NEW keys, NEW by, NEW at, NEW level, NEW may,
         Sorted(D, T, r, kids, keys, by, at, level, may),
         NEW q \in T, level[q] = 0
  PROVE  Lists(keys[q], Under(T, keys, may[q]))
<1>1. /\ keys[q] \in Seq(Int) /\ Ascends(keys[q])
      /\ \A j \in DOMAIN keys[q] : Inside(keys[q][j], may[q])
  BY SortedPage
<1>2. ToSet(keys[q]) \subseteq Under(T, keys, may[q])
  BY <1>1, Zenon DEF Under, Held, ToSet
<1>3. ASSUME NEW y \in Under(T, keys, may[q]) PROVE y \in ToSet(keys[q])
  <2>1. y \in Held(T, keys) /\ Inside(y, may[q])
    BY DEF Under
  <2>2. \E j \in DOMAIN keys[q] : keys[q][j] = y
    BY <2>1, KeyInLeaf
  <2>3. QED
    BY <2>2 DEF ToSet
<1>4. QED
  BY <1>1, <1>2, <1>3 DEF Lists

\* So does a page above others, if its children do.
LEMMA AboveLists ==
  ASSUME NEW t \in Cache, NEW T, T = InTree(t, {}),
         NEW D, NEW r, NEW kids, NEW keys, NEW by, NEW at, NEW level, NEW may,
         Sorted(D, T, r, kids, keys, by, at, level, may), Stacked(t, level),
         NEW q \in T, level[q] # 0,
         keys[q] = t.page[q].keys, kids[q] = t.page[q].children,
         NEW f, f[q] = OrderAt(t, f, q),
         \A c \in T : level[c] + 1 = level[q] => Lists(f[c], Under(T, keys, may[c]))
  PROVE  Lists(f[q], Under(T, keys, may[q]))
<1> DEFINE K == Under(T, keys, may[q])
<1>1. PICK ks : ks = keys[q]
  OBVIOUS
<1>2. PICK cs : cs = kids[q]
  OBVIOUS
<1>3. /\ ks \in Seq(Int) /\ Ascends(ks)
      /\ \A j \in DOMAIN ks : Inside(ks[j], may[q])
      /\ Len(cs) = Len(ks) + 1 /\ DOMAIN cs = 1..Len(cs)
      /\ \A j \in DOMAIN cs : /\ may[cs[j]] = Gap(may[q], ks, j)
                              /\ cs[j] \in T /\ level[cs[j]] + 1 = level[q]
  <2>1. /\ keys[q] \in Seq(Int) /\ Ascends(keys[q])
        /\ \A j \in DOMAIN keys[q] : Inside(keys[q][j], may[q])
        /\ Len(kids[q]) = Len(keys[q]) + 1 /\ DOMAIN kids[q] = 1..Len(kids[q])
        /\ \A j \in DOMAIN kids[q] : /\ may[kids[q][j]] = Gap(may[q], keys[q], j)
                                     /\ kids[q][j] \in T /\ level[kids[q][j]] + 1 = level[q]
    <3>1. Sorted(D, T, r, kids, keys, by, at, level, may) /\ q \in T /\ level[q] # 0
      OBVIOUS
    <3>2. QED
      BY ONLY <3>1, SortedPage
  <2>2. QED
    BY ONLY <1>1, <1>2, <2>1
<1>4. Held(T, keys) \subseteq Int
  BY SortedPage DEF Held, ToSet
<1>5. ToSet(ks) \subseteq K
  <2>1. ASSUME NEW j \in DOMAIN ks PROVE ks[j] \in Held(T, keys)
    BY <1>1, <2>1 DEF Held, ToSet
  <2>2. QED
    BY <1>3, <2>1 DEF Under, ToSet
<1>6. /\ ~IsLeaf(t, q) /\ Last(cs) = cs[Len(ks) + 1]
  BY <1>1, <1>2 DEF Stacked
<1> DEFINE parts == [j \in 1..Len(ks) + 1 |-> f[cs[j]]]
           seqs == [i \in DOMAIN ks |-> Append(f[cs[i]], ks[i])]
<1>7. f[q] = FlattenSeq(seqs) \o f[cs[Len(ks) + 1]]
  BY <1>1, <1>2, <1>6, Zenon DEF OrderAt
<1>8. Len(ks) \in Nat /\ DOMAIN ks = 1..Len(ks)
  BY <1>3
<1>9. parts[Len(ks) + 1] = f[cs[Len(ks) + 1]]
  BY <1>8
<1>10. seqs = [i \in DOMAIN ks |-> Append(parts[i], ks[i])]
  BY <1>8
<1>11. \A j \in 1..Len(ks) + 1 : parts[j] = f[cs[j]]
  OBVIOUS
<1> HIDE DEF parts, seqs
<1>12. ASSUME NEW j \in 1..Len(ks) + 1 PROVE Lists(parts[j], Between(ks, K, j))
  <2>1. cs[j] \in T /\ level[cs[j]] + 1 = level[q] /\ may[cs[j]] = Gap(may[q], ks, j)
    BY <1>3
  <2>2. Lists(f[cs[j]], Under(T, keys, may[cs[j]]))
    BY <2>1
  <2>3. Between(ks, K, j) = Under(T, keys, Gap(may[q], ks, j))
    <3>1. PICK m : m = may[q]
      OBVIOUS
    <3>2. ks \in Seq(Int)
      BY <1>3
    <3>3. Between(ks, Under(T, keys, m), j) = Under(T, keys, Gap(m, ks, j))
      BY ONLY <1>4, <3>2, UnderGap
    <3>4. QED
      BY <3>1, <3>3
  <2>4. QED
    BY <1>11, <2>1, <2>2, <2>3
<1>13. K \in SUBSET Int
  BY <1>4 DEF Under
<1> HIDE DEF K
<1>14. Lists(FlattenSeq(seqs) \o parts[Len(ks) + 1], K)
  BY ONLY <1>3, <1>5, <1>10, <1>12, <1>13, ListsParts
<1>15. QED
  BY <1>7, <1>9, <1>14 DEF K

LEMMA SortedStacks ==
  ASSUME NEW t \in Cache, NEW r, NEW by, NEW at, NEW level, SoundBy(t, r, {}, by, at, level),
         NEW may, Sorted(DOMAIN t.page, InTree(t, {}), r, Kids(t), Shows(t, NoPage, <<>>),
                         by, at, level, may)
  PROVE  Stacked(t, level)
<1> DEFINE T == InTree(t, {})
           D == DOMAIN t.page
           kids == Kids(t)
           keys == Shows(t, NoPage, <<>>)
<1>1. Sorted(D, T, r, kids, keys, by, at, level, may)
  OBVIOUS
<1>2. /\ T \subseteq D
      /\ \A q \in D : keys[q] = t.page[q].keys /\ kids[q] = t.page[q].children
  BY PagesOf, ShowsAll DEF InTree, Kids
<1> HIDE DEF T, D, kids, keys
<1>3. ASSUME NEW q \in T
      PROVE  LET ks == t.page[q].keys
                 cs == t.page[q].children
             IN  /\ level[q] \in Nat
                 /\ ks \in Seq(Int) /\ Len(ks) \in Nat /\ DOMAIN ks = 1..Len(ks)
                 /\ IsLeaf(t, q) <=> level[q] = 0
                 /\ level[q] = 0 => cs = <<>>
                 /\ level[q] # 0 => /\ Len(cs) = Len(ks) + 1
                                    /\ Last(cs) = cs[Len(ks) + 1]
                 /\ \A i \in 1..Len(ks) + 1 :
                       level[q] # 0 => cs[i] \in T /\ level[cs[i]] + 1 = level[q]
  <2>1. PICK ks : ks = t.page[q].keys
    OBVIOUS
  <2>2. PICK cs : cs = t.page[q].children
    OBVIOUS
  <2>3. ks = keys[q] /\ cs = kids[q] /\ q \in D
    BY <1>2, <2>1, <2>2
  <2>4. /\ level[q] \in Nat /\ ks \in Seq(Int)
        /\ level[q] = 0 => cs = <<>>
        /\ level[q] # 0 => Len(cs) = Len(ks) + 1
        /\ DOMAIN cs = 1..Len(cs) /\ DOMAIN ks = 1..Len(ks)
        /\ \A j \in DOMAIN cs : cs[j] \in T /\ level[cs[j]] + 1 = level[q]
    BY <1>1, <2>3, SortedPage
  <2>5. Len(ks) \in Nat
    <3>1. ks \in Seq(Int)
      BY <2>4
    <3>2. QED
      BY ONLY <3>1
  <2>6. /\ t.page[q].kind = "leaf" => cs = <<>> /\ level[q] = 0
        /\ t.page[q].kind = "internal" => Len(cs) = Len(ks) + 1
        /\ t.page[q].kind \in {"leaf", "internal"}
    <3>1. q \in DOMAIN t.page /\ t.page[q].kind # "free"
      BY <1>3 DEF T, InTree
    <3>2. t.page[q].kind \in {"leaf", "internal"}
      BY <3>1, PagesOf
    <3>3. Fits(t, r, q) /\ (t.page[q].kind = "leaf" => level[q] = 0)
      BY <1>3 DEF SoundBy, PagesFit, T
    <3>4. QED
      BY <2>1, <2>2, <3>2, <3>3 DEF Fits
  <2>7. IsLeaf(t, q) <=> level[q] = 0
    <3>1. ASSUME t.page[q].kind = "internal", level[q] = 0 PROVE FALSE
      <4>1. Len(cs) = 0
        BY <2>4, <3>1
      <4>2. QED
        BY <2>5, <2>6, <3>1, <4>1
    <3>2. QED
      BY <2>6, <3>1 DEF IsLeaf
  <2>8. level[q] # 0 => Last(cs) = cs[Len(ks) + 1]
    BY <2>4 DEF Last
  <2>9. QED
    BY ONLY <2>1, <2>2, <2>4, <2>5, <2>7, <2>8
<1>4. QED
  BY <1>3 DEF Stacked, T

\* collect_keys lists the keys of the tree.
LEMMA InOrderLists ==
  ASSUME NEW t \in Cache, NEW r, r # NoPage, Sound(t, r, {}), NEW H, Has(t, r, H)
  PROVE  Lists(InOrder(t, r), H)
<1> DEFINE T == InTree(t, {})
           D == DOMAIN t.page
           kids == Kids(t)
           keys == Shows(t, NoPage, <<>>)
<1>1. PICK by, at, level : SoundBy(t, r, {}, by, at, level)
  BY SoundIs
<1>2. PICK may : Arranged(t, r, keys, may) /\ H = Held(T, keys)
  BY DEF Has, Holding, HeldIn
<1>3. Sorted(D, T, r, kids, keys, by, at, level, may)
  BY <1>1, <1>2, SortedIs
<1>4. /\ T \subseteq D
      /\ \A q \in D : keys[q] = t.page[q].keys /\ kids[q] = t.page[q].children
  BY PagesOf, ShowsAll DEF InTree, Kids
<1>5. r \in T /\ may[r] = Int
  BY <1>2 DEF Sound, Holds, TreeHolds, Arranged, Placed
<1>6. \A q \in T : level[q] \in Nat /\ level[q] <= level[r]
  BY <1>3, SortedPage
<1> HIDE DEF T, D, kids, keys
<1>7. Stacked(t, level)
  BY <1>1, <1>3, SortedStacks DEF T, D, kids, keys
<1>8. PICK f : InOrder(t, r) = f[r] /\ \A q \in T : f[q] = OrderAt(t, f, q)
  BY <1>5, <1>6, <1>7, InOrderIs DEF T
<1> DEFINE S == {n \in Nat : \A q \in T : level[q] = n => Lists(f[q], Under(T, keys, may[q]))}
<1>9. 0 \in S
  <2>1. ASSUME NEW q \in T, level[q] = 0 PROVE Lists(f[q], Under(T, keys, may[q]))
    <3>1. IsLeaf(t, q)
      BY <1>7, <2>1 DEF Stacked, T
    <3>2. f[q] = keys[q]
      BY <1>4, <1>8, <3>1 DEF OrderAt
    <3>3. QED
      BY <1>3, <2>1, <3>2, LeafLists
  <2>2. QED
    BY <2>1
<1>10. ASSUME NEW n \in Nat, n \in S PROVE n + 1 \in S
  <2>1. ASSUME NEW q \in T, level[q] = n + 1 PROVE Lists(f[q], Under(T, keys, may[q]))
    <3>1. \A c \in T : level[c] + 1 = level[q] => Lists(f[c], Under(T, keys, may[c]))
      BY <1>6, <1>10, <2>1
    <3>2. level[q] # 0 /\ keys[q] = t.page[q].keys /\ kids[q] = t.page[q].children
      BY <1>4, <2>1
    <3>3. T = InTree(t, {}) /\ f[q] = OrderAt(t, f, q)
      BY <1>8 DEF T
    <3>4. QED
      BY <1>3, <1>7, <3>1, <3>2, <3>3, AboveLists
  <2>2. QED
    BY <2>1
<1> HIDE DEF S
<1>11. \A n \in Nat : n \in S
  BY <1>9, <1>10, AllNaturals
<1>12. Lists(f[r], Under(T, keys, may[r]))
  BY <1>5, <1>6, <1>11 DEF S
<1>13. Held(T, keys) \subseteq Int
  BY <1>3, SortedPage DEF Held, ToSet
<1>14. Under(T, keys, may[r]) = H
  <2>1. \A y \in Int : y + 1 \in Int
    OBVIOUS
  <2>2. QED
    BY <1>2, <1>5, <1>13, <2>1 DEF Under, Inside, T, keys
<1>15. QED
  BY <1>8, <1>12, <1>14

\* Whoever lists keys in order lists each of them once.
LEMMA ListsLen ==
  ASSUME NEW s, NEW K, Lists(s, K)
  PROVE  /\ IsFiniteSet(K) /\ Len(s) = Cardinality(K)
         /\ \A i \in 1..Len(s) - 1 : s[i] < s[i + 1]
<1> DEFINE n == Len(s)
<1>1. /\ n \in Nat /\ DOMAIN s = 1..n /\ s \in [1..n -> Int] /\ ToSet(s) = K
      /\ \A i, j \in 1..n : i < j => s[i] < s[j]
  BY DEF Lists, Ascends
<1> HIDE DEF n
<1>2. \A i \in 1..n - 1 : s[i] < s[i + 1]
  <2>1. \A i \in 1..n - 1 : i \in 1..n /\ i + 1 \in 1..n /\ i < i + 1
    BY <1>1
  <2>2. QED
    BY <1>1, <2>1
<1>3. s \in Surjection(1..n, K)
  <2>1. \A i \in 1..n : s[i] \in K
    BY <1>1 DEF ToSet
  <2>2. \A y \in K : \E i \in 1..n : s[i] = y
    BY <1>1 DEF ToSet
  <2>3. s \in [1..n -> K]
    BY <1>1, <2>1
  <2>4. QED
    BY <2>2, <2>3 DEF Surjection
<1>4. s \in Injection(1..n, K)
  <2>1. s \in [1..n -> K]
    BY <1>3 DEF Surjection
  <2>2. \A i, j \in 1..n : s[i] = s[j] => i = j
    <3>1. ASSUME NEW i \in 1..n, NEW j \in 1..n, s[i] = s[j], i # j PROVE FALSE
      <4>1. s[i] \in Int /\ s[j] \in Int /\ (i < j \/ j < i)
        BY <1>1, <3>1
      <4>2. QED
        BY <1>1, <3>1, <4>1
    <3>2. QED
      BY <3>1
  <2>3. QED
    BY <2>1, <2>2 DEF Injection, IsInjective
<1>5. IsFiniteSet(1..n) /\ Cardinality(1..n) = n
  <2>1. 1 \in Int /\ n \in Int /\ (IF 1 > n THEN 0 ELSE n - 1 + 1) = n
    BY <1>1
  <2>2. QED
    BY <2>1, FS_Interval
<1>6. IsFiniteSet(K) /\ Cardinality(K) = n
  BY <1>3, <1>4, <1>5, FS_Surjection
<1>7. QED
  BY <1>2, <1>6 DEF n

-----------------------------------------------------------------------------
(* The leaves.                                                             *)

\* What LeafDepths makes of the page q.
DepthsAt(t, f, q) ==
    IF IsLeaf(t, q) THEN {1}
    ELSE {d + 1 : d \in UNION {f[c] : c \in ToSet(t.page[q].children)}}

\* All leaves are on the level the root is above them.
LEMMA DepthsAre ==
  ASSUME NEW t \in Cache, NEW level, Stacked(t, level), NEW r \in InTree(t, {})
  PROVE  LeafDepths(t, r) = {level[r] + 1}
<1> DEFINE T == InTree(t, {})
           Is(f) == f = [q \in InUse(t) |->
                           IF IsLeaf(t, q) THEN {1}
                           ELSE {d + 1 : d \in UNION {f[c] : c \in ToSet(t.page[q].children)}}]
<1>1. \A q \in T : level[q] \in Nat
  BY DEF Stacked
<1>2. ASSUME NEW f, NEW q \in T,
             \A c \in T : level[c] + 1 = level[q] => f[c] = {level[c] + 1}
      PROVE  DepthsAt(t, f, q) = {level[q] + 1}
  <2>1. PICK cs : cs = t.page[q].children
    OBVIOUS
  <2>2. PICK ks : ks = t.page[q].keys
    OBVIOUS
  <2>3. /\ level[q] \in Nat
        /\ Len(ks) \in Nat
        /\ IsLeaf(t, q) <=> level[q] = 0
        /\ level[q] # 0 => Len(cs) = Len(ks) + 1
        /\ \A i \in 1..Len(ks) + 1 :
              level[q] # 0 => cs[i] \in T /\ level[cs[i]] + 1 = level[q]
    BY <2>1, <2>2 DEF Stacked
  <2>4. CASE IsLeaf(t, q)
    <3>1. {level[q] + 1} = {1}
      BY <2>3, <2>4
    <3>2. QED
      BY <2>4, <3>1 DEF DepthsAt
  <2>5. CASE ~IsLeaf(t, q)
    <3>1. DOMAIN cs = 1..Len(cs)
      <4>1. q \in DOMAIN t.page
        BY DEF InTree
      <4>2. cs \in Seq(Nat)
        BY <2>1, <4>1, PagesOf
      <4>3. QED
        BY ONLY <4>2
    <3>2. level[q] # 0 /\ DOMAIN cs = 1..Len(ks) + 1 /\ 1 \in 1..Len(ks) + 1
      <4>1. level[q] # 0 /\ Len(cs) = Len(ks) + 1 /\ Len(ks) \in Nat
        BY <2>3, <2>5, Zenon
      <4>2. QED
        BY ONLY <3>1, <4>1
    <3>3. ASSUME NEW c \in ToSet(cs) PROVE f[c] = {level[q]}
      <4>1. c \in T /\ level[c] + 1 = level[q]
        BY <2>3, <3>2 DEF ToSet
      <4>2. QED
        BY <1>2, <4>1
    <3>4. cs[1] \in ToSet(cs)
      BY <3>2 DEF ToSet
    <3> HIDE DEF T
    <3>5. UNION {f[c] : c \in ToSet(cs)} = {level[q]}
      BY ONLY <3>3, <3>4
    <3>6. DepthsAt(t, f, q) = {d + 1 : d \in {level[q]}}
      BY <2>1, <2>5, <3>5 DEF DepthsAt
    <3>7. QED
      BY <3>6
  <2>6. QED
    BY <2>4, <2>5
<1>3. InUse(t) = T
  BY DEF InUse, InTree
<1> HIDE DEF T
<1> DEFINE f == [q \in T |-> {level[q] + 1}]
<1>4. \A q \in T : f[q] = {level[q] + 1}
  OBVIOUS
<1>5. f = [q \in T |-> DepthsAt(t, f, q)]
  <2>1. \A q \in T : DepthsAt(t, f, q) = {level[q] + 1}
    <3> HIDE DEF f
    <3>1. QED
      BY <1>2, <1>4
  <2>2. QED
    BY <2>1
<1> HIDE DEF f
<1>6. Is(f)
  BY <1>3, <1>5 DEF DepthsAt
<1> DEFINE x == CHOOSE y : Is(y)
<1>7. Is(x)
  BY <1>6
<1>8. LeafDepths(t, r) = x[r]
  BY DEF LeafDepths
<1> HIDE DEF x
<1>9. \A q \in T : x[q] = DepthsAt(t, x, q)
  BY <1>3, <1>7 DEF DepthsAt
<1> DEFINE S == {n \in Nat : \A q \in T : level[q] = n => x[q] = {level[q] + 1}}
<1>10. 0 \in S
  <2>1. ASSUME NEW q \in T, level[q] = 0 PROVE x[q] = {level[q] + 1}
    <3>1. \A c \in T : level[c] + 1 = level[q] => x[c] = {level[c] + 1}
      BY <1>1, <2>1
    <3>2. QED
      BY <1>2, <1>9, <3>1
  <2>2. QED
    BY <2>1
<1>11. ASSUME NEW n \in Nat, n \in S PROVE n + 1 \in S
  <2>1. ASSUME NEW q \in T, level[q] = n + 1 PROVE x[q] = {level[q] + 1}
    <3>1. \A c \in T : level[c] + 1 = level[q] => x[c] = {level[c] + 1}
      BY <1>1, <1>11, <2>1
    <3>2. QED
      BY <1>2, <1>9, <3>1
  <2>2. QED
    BY <2>1
<1> HIDE DEF S
<1>12. \A n \in Nat : n \in S
  BY <1>10, <1>11, AllNaturals
<1>13. r \in T
  BY DEF T
<1>14. QED
  BY <1>1, <1>8, <1>12, <1>13 DEF S

\* What collect_keys and the depths of the leaves say of a tree that has H.
LEMMA TreeShows ==
  ASSUME NEW t \in Cache, NEW r, r # NoPage, Sound(t, r, {}), NEW H, Has(t, r, H)
  PROVE  /\ Lists(InOrder(t, r), H)
         /\ Cardinality(LeafDepths(t, r)) = 1
<1>1. PICK by, at, level : SoundBy(t, r, {}, by, at, level)
  BY SoundIs
<1>2. PICK may : Arranged(t, r, Shows(t, NoPage, <<>>), may)
  BY DEF Has, Holding
<1>3. Sorted(DOMAIN t.page, InTree(t, {}), r, Kids(t), Shows(t, NoPage, <<>>), by, at, level, may)
  BY <1>1, <1>2, SortedIs
<1>4. Stacked(t, level)
  BY <1>1, <1>3, SortedStacks
<1>5. r \in InTree(t, {})
  BY DEF Sound, Holds, TreeHolds
<1>6. LeafDepths(t, r) = {level[r] + 1}
  BY <1>4, <1>5, DepthsAre
<1>7. Cardinality({level[r] + 1}) = 1
  BY FS_Singleton
<1>8. QED
  BY <1>6, <1>7, InOrderLists

-----------------------------------------------------------------------------
(* The first session.                                                      *)

\* Trees the first session comes to, with a set of them for each number of keys.
LEMMA FilledGoes ==
  ASSUME NEW s, Len(s) \in Nat, NEW F, [t |-> EmptyCache, root |-> NoPage] \in F[0],
         \A i, j \in 0..Len(s) : j = i + 1 =>
            \A x \in F[i] : Inserted(x.t, x.root, s[j]) \in F[j]
  PROVE  Filled(s) \in F[Len(s)]
<1> DEFINE n == Len(s)
           start == [t |-> EmptyCache, root |-> NoPage]
           after == CHOOSE g : FillPiece(s, n, g)
<1>1. n \in Nat
  OBVIOUS
<1>2. Filled(s) = after[n]
  BY DEF Filled, FillPiece
<1>3. FillPiece(s, n, after)
  <2>1. \E g : FillPiece(s, n, g)
    BY <1>1, FillPieces
  <2>2. QED
    BY <2>1
<1> HIDE DEF after, n
<1>4. \A i \in 0..n : after[i] = IF i = 0 THEN start
                                 ELSE Inserted(after[i - 1].t, after[i - 1].root, s[i])
  BY <1>3 DEF FillPiece
<1> HIDE DEF start
<1> DEFINE S == {i \in Nat : i <= n => after[i] \in F[i]}
<1>5. 0 \in S
  <2>1. 0 \in 0..n
    BY <1>1
  <2>2. after[0] = start
    BY <1>4, <2>1
  <2>3. QED
    BY <2>2 DEF start
<1>6. ASSUME NEW i \in Nat, i \in S PROVE i + 1 \in S
  <2>1. PICK j : j = i + 1
    OBVIOUS
  <2>2. ASSUME j <= n PROVE after[j] \in F[j]
    <3>1. i \in 0..n /\ j \in 0..n /\ j # 0 /\ j - 1 = i /\ i <= n
      BY <1>1, <2>1, <2>2
    <3>2. after[j] = Inserted(after[i].t, after[i].root, s[j])
      BY <1>4, <3>1
    <3>3. after[i] \in F[i]
      BY <1>6, <3>1
    <3>4. Inserted(after[i].t, after[i].root, s[j]) \in F[j]
      BY <2>1, <3>1, <3>3 DEF n
    <3>5. QED
      BY <3>2, <3>4
  <2>3. j \in Nat
    BY <2>1
  <2>4. QED
    BY <2>1, <2>2, <2>3
<1> HIDE DEF S
<1>7. \A i \in Nat : i \in S
  BY <1>5, <1>6, AllNaturals
<1>8. after[n] \in F[n]
  BY <1>1, <1>7 DEF S
<1>9. QED
  BY <1>2, <1>8 DEF n

\* A tree of no page, or of the keys H and of a page at least.
Tree(t, r, H) == Has(t, r, H) /\ (r = NoPage <=> H = {})

\* insert of a key that is not there.
LEMMA InsertedTree ==
  ASSUME NEW t \in Cache, NEW p \in Nat, Sound(t, p, {}), NEW k \in Int,
         NEW H, Tree(t, p, H), k \notin H
  PROVE  Tree(Inserted(t, p, k).t, Inserted(t, p, k).root, H \cup {k})
<1>1. PICK u : u = Inserted(t, p, k).t
  OBVIOUS
<1>2. PICK q : q = Inserted(t, p, k).root
  OBVIOUS
<1>3. Has(u, q, H \cup {k})
  BY <1>1, <1>2, InsertedHas DEF Tree
<1>4. Sound(u, q, {})
  BY <1>1, <1>2, InsertedHolds DEF Operated
<1>5. q # NoPage
  BY <1>3, <1>4, NoneHeld
<1>6. H \cup {k} # {}
  OBVIOUS
<1>7. QED
  BY <1>1, <1>2, <1>3, <1>5, <1>6 DEF Tree

\* What the first session leaves.
LEMMA FilledHas ==
  ASSUME NEW s \in Fillings
  PROVE  /\ Tree(Filled(s).t, Filled(s).root, ToSet(s))
         /\ Len(s) = Cardinality(ToSet(s)) /\ IsFiniteSet(ToSet(s)) /\ ToSet(s) \subseteq Keys
<1> DEFINE n == Len(s)
           Part(i) == {s[j] : j \in 1..i}
           F == [i \in 0..n |-> {x \in [t : Cache, root : Nat] :
                                    Sound(x.t, x.root, {}) /\ Tree(x.t, x.root, Part(i))}]
           start == [t |-> EmptyCache, root |-> NoPage]
<1>1. /\ s \in Seq(Keys) /\ Keys \subseteq Int /\ IsInjective(s)
  BY BTreeAssumption
<1>2. /\ n \in Nat /\ DOMAIN s = 1..n /\ \A i \in 1..n : s[i] \in Keys
      /\ \A i, j \in 1..n : s[i] = s[j] => i = j
  BY <1>1 DEF IsInjective
<1>3. ToSet(s) = Part(n)
  BY <1>2 DEF ToSet
<1>4. start \in F[0]
  <2>1. NoPage \in Nat /\ 0 \in 0..n
    BY <1>2 DEF NoPage
  <2>2. Part(0) = {}
    OBVIOUS
  <2>3. InTree(EmptyCache, {}) = {}
    BY EmptyIsSound DEF Sound, Holds, TreeHolds
  <2>4. Tree(EmptyCache, NoPage, {})
    BY <2>3, NoneHas DEF Tree
  <2>5. start \in [t : Cache, root : Nat] /\ start.t = EmptyCache /\ start.root = NoPage
    BY <2>1, EmptyIsSound
  <2> HIDE DEF start, Part
  <2>6. Sound(start.t, start.root, {}) /\ Tree(start.t, start.root, Part(0))
    BY <2>2, <2>4, <2>5, EmptyIsSound
  <2>7. QED
    BY <2>1, <2>5, <2>6
<1>5. ASSUME NEW i \in 0..n, NEW j \in 0..n, j = i + 1, NEW x \in F[i]
      PROVE  Inserted(x.t, x.root, s[j]) \in F[j]
  <2> DEFINE y == Inserted(x.t, x.root, s[j])
  <2>1. /\ x.t \in Cache /\ x.root \in Nat /\ Sound(x.t, x.root, {})
        /\ Tree(x.t, x.root, Part(i))
    BY <1>5
  <2>2. j \in 1..n /\ \A m \in 1..i : m \in 1..n /\ m # j
    BY <1>2, <1>5
  <2>3. s[j] \in Int /\ s[j] \notin Part(i)
    BY <1>1, <1>2, <2>2
  <2>4. Part(j) = Part(i) \cup {s[j]}
    <3>1. \A m : m \in 1..j <=> m \in 1..i \/ m = j
      BY <1>2, <1>5, <2>2
    <3>2. QED
      BY <3>1
  <2>5. Operated(x.t, y.t, y.root)
    BY <2>1, <2>3, InsertedHolds
  <2>6. Tree(y.t, y.root, Part(i) \cup {s[j]})
    <3> HIDE DEF Part
    <3>1. QED
      BY <2>1, <2>3, InsertedTree
  <2>7. y = [t |-> y.t, root |-> y.root]
    BY DEF Inserted
  <2> HIDE DEF y, Part
  <2>8. y.t \in Cache /\ y.root \in Nat /\ Sound(y.t, y.root, {})
    BY <2>5 DEF Operated
  <2>9. y \in [t : Cache, root : Nat]
    BY <2>7, <2>8
  <2>10. Tree(y.t, y.root, Part(j))
    BY <2>4, <2>6
  <2>11. y \in F[j]
    BY <2>8, <2>9, <2>10
  <2>12. QED
    BY <2>11 DEF y
<1>6. Filled(s) \in F[n]
  <2> HIDE DEF F
  <2>1. QED
    BY <1>2, <1>4, <1>5, FilledGoes
<1>7. n \in 0..n
  BY <1>2
<1>8. Tree(Filled(s).t, Filled(s).root, Part(n))
  <2> HIDE DEF Part
  <2>1. QED
    BY <1>6, <1>7
<1>9. Len(s) = Cardinality(ToSet(s)) /\ IsFiniteSet(ToSet(s))
  <2>1. s \in Surjection(1..n, ToSet(s))
    <3>1. s \in [1..n -> ToSet(s)]
      BY <1>1, <1>2 DEF ToSet
    <3>2. \A y \in ToSet(s) : \E i \in 1..n : s[i] = y
      BY <1>2 DEF ToSet
    <3>3. QED
      BY <3>1, <3>2 DEF Surjection
  <2>2. s \in Injection(1..n, ToSet(s))
    BY <1>1, <2>1 DEF Injection, Surjection
  <2>3. IsFiniteSet(1..n) /\ Cardinality(1..n) = n
    <3>1. 1 \in Int /\ n \in Int /\ (IF 1 > n THEN 0 ELSE n - 1 + 1) = n
      BY <1>2
    <3>2. QED
      BY <3>1, FS_Interval
  <2>4. QED
    BY <2>1, <2>2, <2>3, FS_Surjection
<1>10. ToSet(s) \subseteq Keys
  BY <1>2 DEF ToSet
<1>11. QED
  BY <1>3, <1>8, <1>9, <1>10

-----------------------------------------------------------------------------
(* The inductive invariant: while no index was out of a page, the pages    *)
(* hold in order the keys put into the tree, and the header counts them.   *)

OrderInv ==
    /\ stored \subseteq Keys /\ IsFiniteSet(stored)
    /\ tree.wild = FALSE => Tree(tree, root, stored) /\ size = Cardinality(stored)

LEMMA OrderInit == Init => OrderInv
<1> SUFFICES ASSUME Init PROVE OrderInv
  OBVIOUS
<1>1. PICK s \in Fillings :
         /\ tree = [Filled(s).t EXCEPT !.dirty = {}, !.header = FALSE]
         /\ root = Filled(s).root
         /\ size = Len(s)
         /\ stored = ToSet(s)
  BY ZenonT(60) DEF Init
<1>2. PICK t : t = Filled(s).t
  OBVIOUS
<1>3. PICK r : r = Filled(s).root
  OBVIOUS
<1>4. /\ Tree(t, r, ToSet(s)) /\ t \in Cache
      /\ Len(s) = Cardinality(ToSet(s)) /\ IsFiniteSet(ToSet(s)) /\ ToSet(s) \subseteq Keys
  BY <1>2, <1>3, FilledHas, FilledHolds
<1>5. tree = [t EXCEPT !.dirty = {}, !.header = FALSE] /\ root = r
  BY <1>1, <1>2, <1>3
<1>6. tree.page = t.page
  BY ONLY <1>4, <1>5 DEF Cache
<1>7. Tree(tree, root, ToSet(s))
  BY ONLY <1>4, <1>5, <1>6, SameHas DEF Tree
<1>8. QED
  BY <1>1, <1>4, <1>7 DEF OrderInv

\* remove of a key that is there.
LEMMA RemovedTree ==
  ASSUME NEW t \in Cache, NEW r \in Nat, Sound(t, r, {}), r # NoPage, t.wild = FALSE,
         NEW k \in Int, NEW H, Has(t, r, H),
         NEW c, c = Call("remove_from", t, r, k), c.todo = "removed",
         NEW s, s = [c.t EXCEPT !.header = TRUE], NEW d, d = Call("shrink_root", s, r, k)
  PROVE  k \in H /\ Tree(d.t, d.at, H \ {k})
<1>1. c \in Removes(t, r) /\ Removed(r, k, H, c)
  BY RemoveCallHas
<1>2. c.t \in Cache /\ Sound(c.t, r, {}) /\ k \in H /\ Has(c.t, r, H \ {k})
  BY <1>1 DEF Removes, IsRemove, Calls, Removed
<1>3. s \in Cache /\ s.page = c.t.page /\ s.free = c.t.free
  BY <1>2 DEF Cache
<1>4. d = Call("shrink_root", s, r, k)
  OBVIOUS
<1>5. Sound(s, r, {})
  BY <1>2, <1>3, SoundSame
<1>6. Has(s, r, H \ {k})
  BY <1>2, <1>3, SameHas
<1>7. Len(s.page) # 0
  <2>1. r \in DOMAIN s.page
    BY <1>5 DEF Sound, Holds, TreeHolds, InTree
  <2>2. QED
    BY <1>3, <2>1, PagesOf
<1>8. PICK G : G = H \ {k}
  OBVIOUS
<1>9. Has(d.t, d.at, G) /\ HasTop(d)
  BY <1>3, <1>4, <1>5, <1>6, <1>7, <1>8, ShrinkCallHas
<1>10. d.t \in Cache /\ Sound(d.t, d.at, {})
  BY <1>3, <1>4, <1>5, ShrinkCallHolds DEF Shrinks, IsShrink, Calls
<1>11. d.at = NoPage <=> G = {}
  BY ONLY <1>9, <1>10, TopHeld
<1>12. QED
  BY <1>2, <1>8, <1>9, <1>11 DEF Tree

LEMMA OrderNext == BTreeInv /\ OrderInv /\ [Next]_vars => OrderInv'
<1> SUFFICES ASSUME BTreeInv, OrderInv, [Next]_vars PROVE OrderInv'
  OBVIOUS
<1>1. /\ tree \in Cache /\ root \in Nat /\ tree.wild \in BOOLEAN
      /\ stored \subseteq Keys /\ IsFiniteSet(stored) /\ Keys \subseteq Int
  BY BTreeAssumption DEF BTreeInv, OrderInv, Cache
<1>2. ASSUME tree.wild = FALSE
      PROVE  /\ Sound(tree, root, {}) /\ Tree(tree, root, stored) /\ Has(tree, root, stored)
             /\ size = Cardinality(stored)
  BY <1>2 DEF BTreeInv, OrderInv, Tree
<1>3. ASSUME NEW k \in Keys, InsertKey(k) PROVE OrderInv'
  <2>1. tree.wild = FALSE
    BY <1>1, <1>3 DEF InsertKey, Operate
  <2>2. tree' = Inserted(tree, root, k).t /\ root' = Inserted(tree, root, k).root
    BY <1>3 DEF InsertKey
  <2>3. /\ size' = size + 1 /\ stored' = stored \cup {k} /\ ~ContainsKey(tree, root, k)
    BY <1>3 DEF InsertKey
  <2>4. k \in Int
    BY <1>1
  <2>5. k \notin stored
    BY <1>1, <1>2, <2>1, <2>3, <2>4, ContainsHas
  <2>6. Tree(tree', root', stored')
    BY <1>1, <1>2, <2>1, <2>2, <2>3, <2>4, <2>5, InsertedTree
  <2>7. IsFiniteSet(stored') /\ Cardinality(stored') = Cardinality(stored) + 1
    BY <1>1, <2>3, <2>5, FS_AddElement
  <2>8. stored' \subseteq Keys
    BY <1>1, <2>3
  <2>9. size' = Cardinality(stored')
    BY <1>2, <2>1, <2>3, <2>7
  <2>10. QED
    BY <2>6, <2>7, <2>8, <2>9 DEF OrderInv
<1>4. ASSUME NEW k \in Keys, RemoveKey(k) PROVE OrderInv'
  <2> DEFINE c == Call("remove_from", tree, root, k)
             d == Call("shrink_root", [c.t EXCEPT !.header = TRUE], root, k)
  <2>1. tree.wild = FALSE /\ root # NoPage
    BY <1>1, <1>4 DEF RemoveKey, Operate
  <2>2. IF c.todo = "removed" THEN tree' = d.t /\ root' = d.at /\ size' = size - 1
        ELSE tree' = c.t /\ root' = root /\ size' = size
    BY <1>4 DEF RemoveKey
  <2>3. stored' = stored \ {k}
    BY <1>4 DEF RemoveKey
  <2>4. k \in Int
    BY <1>1
  <2> DEFINE e == [c.t EXCEPT !.header = TRUE]
  <2>5. c = Call("remove_from", tree, root, k) /\ d = Call("shrink_root", e, root, k)
        /\ e = [c.t EXCEPT !.header = TRUE]
    OBVIOUS
  <2> HIDE DEF c, d, e
  <2>6. /\ IsFiniteSet(stored') /\ stored' \subseteq Keys
        /\ k \in stored => Cardinality(stored') = Cardinality(stored) - 1
    BY <1>1, <2>3, FS_RemoveElement
  <2>7. CASE c.todo = "removed"
    <3>1. k \in stored /\ Tree(d.t, d.at, stored \ {k})
      <4>1. Sound(tree, root, {}) /\ Has(tree, root, stored)
        BY <1>2, <2>1
      <4>2. QED
        BY ONLY <1>1, <2>1, <2>4, <2>5, <2>7, <4>1, RemovedTree
    <3>2. Tree(tree', root', stored')
      BY <2>2, <2>3, <2>7, <3>1 DEF Tree
    <3>3. size' = Cardinality(stored')
      BY <1>2, <2>1, <2>2, <2>6, <2>7, <3>1
    <3>4. QED
      BY <2>6, <3>2, <3>3 DEF OrderInv
  <2>8. CASE c.todo # "removed"
    <3>1. tree' = c.t /\ root' = root /\ size' = size
      BY <2>2, <2>8
    <3>2. ASSUME tree'.wild = FALSE
          PROVE  Tree(tree', root', stored') /\ size' = Cardinality(stored')
      <4>1. c.todo = "absent" /\ NotFound(root, k, stored, c)
        BY <1>1, <1>2, <2>1, <2>4, <2>8, <3>1, <3>2, RemoveCallHas DEF c
      <4>2. k \notin stored /\ Has(c.t, root, stored)
        BY <4>1 DEF NotFound
      <4>3. stored' = stored
        BY <2>3, <4>2
      <4>4. Tree(tree', root', stored')
        BY <1>2, <2>1, <3>1, <4>2, <4>3 DEF Tree
      <4>5. QED
        BY <1>2, <2>1, <3>1, <4>3, <4>4
    <3>3. QED
      BY <2>6, <3>2 DEF OrderInv
  <2>9. QED
    BY <2>7, <2>8
<1>5. ASSUME ClearTree PROVE OrderInv'
  <2>1. tree' = EmptyCache /\ root' = NoPage /\ size' = 0 /\ stored' = {}
    BY <1>5 DEF ClearTree
  <2>2. InTree(EmptyCache, {}) = {}
    BY EmptyIsSound DEF Sound, Holds, TreeHolds
  <2>3. Tree(EmptyCache, NoPage, {})
    BY <2>2, NoneHas DEF Tree
  <2>4. IsFiniteSet({}) /\ Cardinality({}) = 0
    BY FS_EmptySet
  <2>5. QED
    BY <2>1, <2>3, <2>4 DEF OrderInv
<1>6. ASSUME Sync PROVE OrderInv'
  <2>1. tree.wild = FALSE /\ root' = root /\ size' = size /\ stored' = stored
    BY <1>1, <1>6 DEF Sync
  <2>2. tree' = [tree EXCEPT !.dirty = {}, !.header = FALSE]
    BY <1>6 DEF Sync
  <2>3. tree'.page = tree.page
    BY ONLY <1>1, <2>2 DEF Cache
  <2>4. Tree(tree', root', stored')
    BY <1>2, <2>1, <2>3, SameHas DEF Tree
  <2>5. QED
    BY <1>1, <1>2, <2>1, <2>4 DEF OrderInv
<1>7. ASSUME UNCHANGED vars PROVE OrderInv'
  BY <1>7 DEF vars, OrderInv
<1>8. QED
  BY <1>3, <1>4, <1>5, <1>6, <1>7 DEF Next

\* The tree holds exactly the keys the operations should have left: split,
\* borrowed, merged and promoted through whatever pages, none is lost, doubled
\* or out of the reach of contains(), collect_keys() lists them in order, size()
\* counts them, and every leaf is on one level.
THEOREM WellFormedHolds == Spec => []WellFormed
<1>1. BTreeInv /\ OrderInv => WellFormed
  <2> SUFFICES ASSUME BTreeInv, OrderInv, ~tree.wild PROVE WellFormed
    BY DEF WellFormed
  <2>1. tree \in Cache /\ root \in Nat /\ Keys \subseteq Int
    BY BTreeAssumption DEF BTreeInv
  <2>2. tree.wild = FALSE
    BY <2>1 DEF Cache
  <2>3. /\ Sound(tree, root, {}) /\ Has(tree, root, stored)
        /\ root = NoPage <=> stored = {}
        /\ size = Cardinality(stored)
    BY <2>2 DEF BTreeInv, OrderInv, Tree
  <2>4. \A k \in Keys : ContainsKey(tree, root, k) <=> k \in stored
    BY <2>1, <2>3, ContainsHas
  <2>5. ASSUME root # NoPage
        PROVE  /\ Len(InOrder(tree, root)) = size /\ ToSet(InOrder(tree, root)) = stored
               /\ \A i \in 1..Len(InOrder(tree, root)) - 1 :
                     InOrder(tree, root)[i] < InOrder(tree, root)[i + 1]
               /\ Cardinality(LeafDepths(tree, root)) = 1
    <3>1. PICK s : s = InOrder(tree, root)
      OBVIOUS
    <3>2. Lists(s, stored) /\ Cardinality(LeafDepths(tree, root)) = 1
      BY <2>1, <2>3, <2>5, <3>1, TreeShows
    <3>3. /\ Len(s) = Cardinality(stored) /\ ToSet(s) = stored
          /\ \A i \in 1..Len(s) - 1 : s[i] < s[i + 1]
      BY <3>2, ListsLen DEF Lists
    <3>4. QED
      BY <2>3, <3>1, <3>2, <3>3
  <2>6. QED
    BY <2>3, <2>4, <2>5 DEF WellFormed
<1>2. Init => BTreeInv /\ OrderInv
  BY BTreeInit, OrderInit
<1>3. BTreeInv /\ OrderInv /\ [Next]_vars => (BTreeInv /\ OrderInv)'
  BY BTreeNext, OrderNext
<1>4. QED
  BY <1>1, <1>2, <1>3, PTL DEF Spec

=============================================================================
