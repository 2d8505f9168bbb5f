--------------------------- MODULE CountingLemmas ---------------------------
(***************************************************************************)
(* Facts about cardinalities and numbers that the proofs of this project   *)
(* share: the least number of a set, how the size of a set moves when an   *)
(* element enters or leaves it, and how an account of a load against two   *)
(* sets of threads stays balanced.                                         *)
(***************************************************************************)
EXTENDS Integers, FiniteSets, FiniteSetTheorems, WellFoundedInduction, TLAPS

\* A set of natural numbers that is not empty has a least member.
LEMMA LeastNatural ==
  ASSUME NEW S, S \subseteq Nat, S # {}
  PROVE  \E m \in S : \A n \in S : m <= n
  <1> DEFINE R == {pair \in Nat \X Nat : pair[1] < pair[2]}
  <1>1. IsWellFoundedOn(R, Nat)
    BY NatLessThanWellFounded, Zenon DEF OpToRel
  <1>2. PICK m \in S : \A n \in S : <<n, m>> \notin R
    <2> HIDE DEF R
    <2> QED BY <1>1, WFMin, Zenon
  <1>3. \A n \in S : ~(n < m)
    BY <1>2
  <1> QED BY <1>3

LEMMA CardSub ==
  ASSUME NEW S, NEW T, IsFiniteSet(T), S \subseteq T
  PROVE  /\ Cardinality(S) \in Nat /\ Cardinality(T) \in Nat
         /\ Cardinality(S) <= Cardinality(T)
  BY FS_Subset, FS_CardinalityType

LEMMA CardAdd ==
  ASSUME NEW S, NEW T, NEW x, IsFiniteSet(T), x \notin S, S \cup {x} \subseteq T
  PROVE  /\ Cardinality(S) \in Nat /\ Cardinality(T) \in Nat
         /\ Cardinality(S) + 1 <= Cardinality(T)
  <1>1. IsFiniteSet(S) /\ IsFiniteSet(S \cup {x})
    BY FS_Subset
  <1>2. Cardinality(S \cup {x}) = Cardinality(S) + 1
    BY <1>1, FS_AddElement
  <1> QED BY <1>1, <1>2, CardSub, FS_CardinalityType

LEMMA CardDrop ==
  ASSUME NEW S, NEW T, NEW x, IsFiniteSet(S), IsFiniteSet(T), S \ {x} \subseteq T
  PROVE  /\ Cardinality(S) \in Nat /\ Cardinality(T) \in Nat
         /\ Cardinality(S) <= Cardinality(T) + 1
  <1>1. Cardinality(S \ {x}) \in Nat /\ Cardinality(S \ {x}) <= Cardinality(T)
        /\ Cardinality(T) \in Nat
    BY CardSub
  <1>2. CASE x \in S
    <2>1. Cardinality(S \ {x}) = Cardinality(S) - 1
      BY <1>2, FS_RemoveElement
    <2> QED BY <1>1, <2>1, FS_CardinalityType
  <1>3. CASE x \notin S
    <2>1. S \ {x} = S
      BY <1>3
    <2> QED BY <1>1, <2>1
  <1> QED BY <1>2, <1>3

-----------------------------------------------------------------------------
(* Accounts: a load that is covered by two sets of threads, those awake (A)  *)
(* and those that still owe a notification (O).                             *)

\* The ways a step may change the account: nothing lost; a debtor more, or a
\* thread woken, for a load more; a thread less for a load less; a debtor
\* replaced by a thread it has woken.
Balanced(A, O, load, A1, O1, next) ==
    \/ A \subseteq A1 /\ O \subseteq O1 /\ next <= load
    \/ \E x : x \notin O /\ A \subseteq A1 /\ O \cup {x} \subseteq O1 /\ next <= load + 1
    \/ \E y : y \notin A /\ A \cup {y} \subseteq A1 /\ O \subseteq O1 /\ next <= load + 1
    \/ \E x : A \ {x} \subseteq A1 /\ O \subseteq O1 /\ next <= load - 1
    \/ \E x, y : /\ y \notin A /\ A \cup {y} \subseteq A1
                 /\ O \ {x} \subseteq O1 /\ next <= load

LEMMA BalancedCovers ==
  ASSUME NEW A, NEW O, NEW A1, NEW O1, NEW load \in Int, NEW next \in Int,
         IsFiniteSet(A), IsFiniteSet(O), IsFiniteSet(A1), IsFiniteSet(O1),
         load <= Cardinality(A) + Cardinality(O),
         Balanced(A, O, load, A1, O1, next)
  PROVE  next <= Cardinality(A1) + Cardinality(O1)
  <1>1. CASE A \subseteq A1 /\ O \subseteq O1 /\ next <= load
    BY <1>1, CardSub
  <1>2. ASSUME NEW x, x \notin O, A \subseteq A1, O \cup {x} \subseteq O1, next <= load + 1
        PROVE  next <= Cardinality(A1) + Cardinality(O1)
    <2>1. Cardinality(O) + 1 <= Cardinality(O1)
      BY <1>2, CardAdd
    <2>2. Cardinality(A) <= Cardinality(A1)
      BY <1>2, CardSub
    <2> QED BY <1>2, <2>1, <2>2, FS_CardinalityType
  <1>3. ASSUME NEW y, y \notin A, A \cup {y} \subseteq A1, O \subseteq O1, next <= load + 1
        PROVE  next <= Cardinality(A1) + Cardinality(O1)
    <2>1. Cardinality(A) + 1 <= Cardinality(A1)
      BY <1>3, CardAdd
    <2>2. Cardinality(O) <= Cardinality(O1)
      BY <1>3, CardSub
    <2> QED BY <1>3, <2>1, <2>2, FS_CardinalityType
  <1>4. ASSUME NEW x, A \ {x} \subseteq A1, O \subseteq O1, next <= load - 1
        PROVE  next <= Cardinality(A1) + Cardinality(O1)
    <2>1. Cardinality(A) <= Cardinality(A1) + 1
      BY <1>4, CardDrop
    <2>2. Cardinality(O) <= Cardinality(O1)
      BY <1>4, CardSub
    <2> QED BY <1>4, <2>1, <2>2, FS_CardinalityType
  <1>5. ASSUME NEW x, NEW y, y \notin A, A \cup {y} \subseteq A1,
               O \ {x} \subseteq O1, next <= load
        PROVE  next <= Cardinality(A1) + Cardinality(O1)
    <2>1. Cardinality(A) + 1 <= Cardinality(A1)
      BY <1>5, CardAdd
    <2>2. Cardinality(O) <= Cardinality(O1) + 1
      BY <1>5, CardDrop
    <2> QED BY <1>5, <2>1, <2>2, FS_CardinalityType
  <1> QED BY <1>1, <1>2, <1>3, <1>4, <1>5 DEF Balanced

=============================================================================
