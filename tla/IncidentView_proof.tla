------------------------- MODULE IncidentView_proof -------------------------
(***************************************************************************)
(* Proofs about what a reader of the dashboard gets to see, for windows of *)
(* any length, any budget and any number of nodes.                         *)
(***************************************************************************)
EXTENDS IncidentView, FiniteSetTheorems, SequenceTheorems, WellFoundedInduction, TLAPS

-----------------------------------------------------------------------------
(***************************************************************************)
(* Numbers and orders.                                                     *)
(***************************************************************************)

LEMMA LeastNatural ==
  ASSUME NEW T \in SUBSET Nat, T # {}
  PROVE  \E n \in T : \A k \in T : n <= k
<1> DEFINE Less == {p \in Nat \X Nat : p[1] < p[2]}
<1>1. IsWellFoundedOn(Less, Nat)
  BY NatLessThanWellFounded DEF OpToRel
<1> HIDE DEF Less
<1>2. PICK n \in T : \A k \in T : <<k, n>> \notin Less
  BY <1>1, WFMin
<1>3. \A k \in T : ~(k < n)
  BY <1>2 DEF Less
<1> QED BY <1>3

(* The rank of an element of a finite set, in a strict order of the set.   *)
RankIn(S, R, j) == Cardinality({i \in S : <<i, j>> \in R}) + 1

StrictOrder(S, R) ==
  /\ \A i \in S : <<i, i>> \notin R
  /\ \A i, j, k \in S : <<i, j>> \in R /\ <<j, k>> \in R => <<i, k>> \in R
  /\ \A i, j \in S : i = j \/ <<i, j>> \in R \/ <<j, i>> \in R

(* Ranks number the elements from 1 on, in their order.                    *)
LEMMA RanksNumber ==
  ASSUME NEW S, IsFiniteSet(S), NEW R, StrictOrder(S, R)
  PROVE  /\ \A j \in S : RankIn(S, R, j) \in 1..Cardinality(S)
         /\ \A j, k \in S : <<j, k>> \in R => RankIn(S, R, j) < RankIn(S, R, k)
         /\ \A j, k \in S : RankIn(S, R, j) = RankIn(S, R, k) => j = k
         /\ \A n \in 1..Cardinality(S) : \E j \in S : RankIn(S, R, j) = n
<1> DEFINE Below(j) == {i \in S : <<i, j>> \in R}
<1>1. Cardinality(S) \in Nat
  BY FS_CardinalityType
<1>2. ASSUME NEW j \in S
      PROVE  /\ IsFiniteSet(Below(j)) /\ Cardinality(Below(j)) \in Nat
             /\ Cardinality(Below(j)) < Cardinality(S)
  <2>1. Below(j) \in SUBSET S /\ j \notin Below(j)
    BY DEF StrictOrder
  <2>2. Below(j) # S
    BY <2>1
  <2> HIDE DEF Below
  <2>3. /\ IsFiniteSet(Below(j)) /\ Cardinality(Below(j)) \in Nat
        /\ Cardinality(Below(j)) <= Cardinality(S) /\ Cardinality(Below(j)) # Cardinality(S)
    BY <2>1, <2>2, FS_Subset, FS_CardinalityType
  <2> QED BY <1>1, <2>3
<1>3. ASSUME NEW j \in S, NEW k \in S, <<j, k>> \in R
      PROVE  Cardinality(Below(j)) < Cardinality(Below(k))
  <2>1. Below(j) \in SUBSET Below(k) /\ j \in Below(k) /\ j \notin Below(j)
    BY <1>3 DEF StrictOrder
  <2>2. Below(j) # Below(k)
    BY <2>1
  <2>3. IsFiniteSet(Below(k)) /\ Cardinality(Below(k)) \in Nat /\ Cardinality(Below(j)) \in Nat
    BY <1>2
  <2> HIDE DEF Below
  <2>4. Cardinality(Below(j)) <= Cardinality(Below(k)) /\ Cardinality(Below(j)) # Cardinality(Below(k))
    BY <2>1, <2>2, <2>3, FS_Subset
  <2> QED BY <2>3, <2>4
<1>4. \A j : RankIn(S, R, j) = Cardinality(Below(j)) + 1
  BY DEF RankIn
<1> HIDE DEF Below
<1>5. \A j \in S : RankIn(S, R, j) \in 1..Cardinality(S)
  BY <1>1, <1>2, <1>4
<1>6. \A j, k \in S : <<j, k>> \in R => RankIn(S, R, j) < RankIn(S, R, k)
  BY <1>2, <1>3, <1>4
<1>7. \A j, k \in S : RankIn(S, R, j) = RankIn(S, R, k) => j = k
  <2> SUFFICES ASSUME NEW j \in S, NEW k \in S, RankIn(S, R, j) = RankIn(S, R, k), j # k
               PROVE  FALSE
    OBVIOUS
  <2>1. <<j, k>> \in R \/ <<k, j>> \in R
    BY DEF StrictOrder
  <2>2. RankIn(S, R, j) \in Nat /\ RankIn(S, R, k) \in Nat
    BY <1>1, <1>5
  <2> QED BY <1>6, <2>1, <2>2
<1>8. \A n \in 1..Cardinality(S) : \E j \in S : RankIn(S, R, j) = n
  <2> DEFINE r == [j \in S |-> RankIn(S, R, j)]
             T == 1..Cardinality(S)
  <2>1. IsFiniteSet(T) /\ Cardinality(T) = Cardinality(S)
    BY <1>1, FS_Interval
  <2>2. r \in [S -> T] /\ \A j, k \in S : r[j] = r[k] => j = k
    BY <1>5, <1>7
  <2>3. r \in Injection(S, T)
    BY <2>2 DEF Injection, IsInjective
  <2>4. r \in Surjection(S, T)
    BY <2>1, <2>3, FS_Injection
  <2> QED BY <2>4 DEF Surjection
<1> QED BY <1>5, <1>6, <1>7, <1>8

(* The element of a given rank. *)
OfRank(S, R, n) == CHOOSE j \in S : RankIn(S, R, j) = n

LEMMA OfRankIncreases ==
  ASSUME NEW S, IsFiniteSet(S), NEW R, StrictOrder(S, R)
  PROVE  /\ Cardinality(S) \in Nat
         /\ \A n \in 1..Cardinality(S) : OfRank(S, R, n) \in S /\ RankIn(S, R, OfRank(S, R, n)) = n
         /\ \A m, n \in 1..Cardinality(S) : m < n => <<OfRank(S, R, m), OfRank(S, R, n)>> \in R
         /\ \A j \in S : \E n \in 1..Cardinality(S) : OfRank(S, R, n) = j
<1>1. Cardinality(S) \in Nat
  BY FS_CardinalityType
<1>2. ASSUME NEW n \in 1..Cardinality(S)
      PROVE  OfRank(S, R, n) \in S /\ RankIn(S, R, OfRank(S, R, n)) = n
  <2>1. \E j \in S : RankIn(S, R, j) = n
    BY RanksNumber
  <2> QED BY <2>1 DEF OfRank
<1>3. ASSUME NEW m \in 1..Cardinality(S), NEW n \in 1..Cardinality(S), m < n
      PROVE  <<OfRank(S, R, m), OfRank(S, R, n)>> \in R
  <2> DEFINE j == OfRank(S, R, m)
             k == OfRank(S, R, n)
  <2>1. j \in S /\ k \in S /\ RankIn(S, R, j) = m /\ RankIn(S, R, k) = n
    BY <1>2
  <2> HIDE DEF j, k
  <2>2. j # k
    BY <1>3, <2>1
  <2>3. ~(<<k, j>> \in R)
    <3>1. <<k, j>> \in R => n < m
      BY <2>1, RanksNumber
    <3> QED BY <1>1, <1>3, <3>1
  <2>4. <<j, k>> \in R
    BY <2>1, <2>2, <2>3 DEF StrictOrder
  <2> QED BY <2>4 DEF j, k
<1>4. ASSUME NEW j \in S
      PROVE  \E n \in 1..Cardinality(S) : OfRank(S, R, n) = j
  <2>1. RankIn(S, R, j) \in 1..Cardinality(S)
    BY RanksNumber
  <2>2. OfRank(S, R, RankIn(S, R, j)) = j
    BY <1>2, <2>1, RanksNumber
  <2> QED BY <2>1, <2>2
<1> QED BY <1>1, <1>2, <1>3, <1>4

Increases(f, m) == \A k, l \in 1..m : k < l => f[k] < f[l]
Covers(f, g, m) == \A k \in 1..m : \E l \in 1..m : f[l] = g[k]
AgreeBelow(f, g, k) == \A l \in 1..(k - 1) : f[l] = g[l]

LEMMA NotAbove ==
  ASSUME NEW m \in Nat, NEW f \in [1..m -> Nat], NEW g \in [1..m -> Nat],
         Increases(g, m), Increases(f, m), Covers(g, f, m),
         NEW k \in 1..m, AgreeBelow(f, g, k)
  PROVE  ~(f[k] < g[k])
<1> SUFFICES ASSUME f[k] < g[k] PROVE FALSE
  OBVIOUS
<1>1. PICK l \in 1..m : g[l] = f[k]
  BY DEF Covers
<1>2. l < k
  <2>1. k < l => g[k] < g[l]
    BY DEF Increases
  <2> QED BY <1>1, <2>1
<1>3. f[l] = g[l]
  BY <1>2 DEF AgreeBelow
<1>4. f[l] < f[k]
  BY <1>2 DEF Increases
<1> QED BY <1>1, <1>3, <1>4

(* A set of numbers has one increasing enumeration.                        *)
LEMMA IncreasingUnique ==
  ASSUME NEW m \in Nat, NEW f \in [1..m -> Nat], NEW g \in [1..m -> Nat],
         Increases(f, m), Increases(g, m), Covers(f, g, m), Covers(g, f, m)
  PROVE  \A k \in 1..m : f[k] = g[k]
<1> DEFINE Differ == {k \in Nat : k \in 1..m /\ f[k] # g[k]}
<1>1. ASSUME NEW k \in 1..m, AgreeBelow(f, g, k)
      PROVE  f[k] = g[k]
  <2>1. AgreeBelow(g, f, k)
    BY <1>1 DEF AgreeBelow
  <2>2. ~(f[k] < g[k]) /\ ~(g[k] < f[k])
    BY <1>1, <2>1, NotAbove
  <2> QED BY <2>2
<1>2. ASSUME Differ # {} PROVE FALSE
  <2>1. Differ \in SUBSET Nat
    OBVIOUS
  <2>2. PICK k \in Differ : \A l \in Differ : k <= l
    BY <1>2, <2>1, LeastNatural
  <2>3. k \in 1..m /\ f[k] # g[k] /\ \A l \in 1..m : l < k => f[l] = g[l]
    BY <2>2
  <2>4. AgreeBelow(f, g, k)
    BY <2>3 DEF AgreeBelow
  <2>5. f[k] = g[k]
    BY <1>1, <2>3, <2>4
  <2> QED BY <2>3, <2>5
<1>3. ASSUME NEW k \in 1..m, f[k] # g[k] PROVE FALSE
  <2>1. k \in Differ
    BY <1>3
  <2> HIDE DEF Differ
  <2> QED BY <1>2, <2>1
<1> QED BY <1>3

-----------------------------------------------------------------------------
(***************************************************************************)
(* The lists of Filters.                                                   *)
(***************************************************************************)

LEMMA InOrderIncreases ==
  ASSUME NEW n \in Nat, NEW P \in SUBSET (1..n)
  PROVE  /\ Cardinality(P) \in 0..n /\ IsFiniteSet(P)
         /\ InOrder(P) \in [1..Cardinality(P) -> P]
         /\ \A k, l \in 1..Cardinality(P) : k < l => InOrder(P)[k] < InOrder(P)[l]
         /\ \A j \in P : \E k \in 1..Cardinality(P) : InOrder(P)[k] = j
<1> DEFINE R == {p \in P \X P : p[1] < p[2]}
<1>1. IsFiniteSet(P) /\ Cardinality(P) \in 0..n
  <2>1. IsFiniteSet(1..n) /\ Cardinality(1..n) = IF 1 > n THEN 0 ELSE n - 1 + 1
    BY FS_Interval
  <2>2. IsFiniteSet(P) /\ Cardinality(P) <= Cardinality(1..n) /\ Cardinality(P) \in Nat
    BY <2>1, FS_Subset, FS_CardinalityType
  <2> QED BY <2>1, <2>2
<1>2. StrictOrder(P, R)
  BY DEF StrictOrder
<1>3. \A j \in P : Cardinality({i \in P : i < j}) + 1 = RankIn(P, R, j)
  <2> TAKE j \in P
  <2>1. {i \in P : i < j} = {i \in P : <<i, j>> \in R}
    OBVIOUS
  <2> QED BY <2>1 DEF RankIn
<1>4. \A j, k \in P : <<j, k>> \in R => j < k
  OBVIOUS
<1> HIDE DEF R
<1>5. InOrder(P) = [k \in 1..Cardinality(P) |-> OfRank(P, R, k)]
  <2> DEFINE Nth(k) == CHOOSE j \in P : Cardinality({i \in P : i < j}) + 1 = k
  <2>1. InOrder(P) = [k \in 1..Cardinality(P) |-> Nth(k)]
    BY DEF InOrder
  <2>2. ASSUME NEW k \in 1..Cardinality(P)
        PROVE  Nth(k) = OfRank(P, R, k)
    <3>1. OfRank(P, R, k) \in P /\ RankIn(P, R, OfRank(P, R, k)) = k
      BY <1>1, <1>2, OfRankIncreases
    <3>2. \E j \in P : Cardinality({i \in P : i < j}) + 1 = k
      BY <1>3, <3>1
    <3>3. Nth(k) \in P /\ Cardinality({i \in P : i < Nth(k)}) + 1 = k
      BY <3>2
    <3> HIDE DEF Nth
    <3>4. RankIn(P, R, Nth(k)) = k
      BY <1>3, <3>3
    <3> QED BY <1>1, <1>2, <3>1, <3>3, <3>4, RanksNumber
  <2> HIDE DEF Nth
  <2> QED BY <2>1, <2>2
<1>6. /\ \A k \in 1..Cardinality(P) : OfRank(P, R, k) \in P
      /\ \A k, l \in 1..Cardinality(P) : k < l => OfRank(P, R, k) < OfRank(P, R, l)
      /\ \A j \in P : \E k \in 1..Cardinality(P) : OfRank(P, R, k) = j
  BY <1>1, <1>2, <1>4, OfRankIncreases
<1> QED BY <1>1, <1>5, <1>6

(* The increasing enumeration of an interval. *)
LEMMA InOrderInterval ==
  ASSUME NEW a \in Nat, NEW n \in Nat
  PROVE  /\ Cardinality((a + 1)..(a + n)) = n
         /\ \A k \in 1..n : InOrder((a + 1)..(a + n))[k] = a + k
<1> DEFINE P == (a + 1)..(a + n)
           f == InOrder(P)
           g == [k \in 1..n |-> a + k]
<1>1. Cardinality(P) = n
  <2>1. Cardinality(P) = IF a + 1 > a + n THEN 0 ELSE (a + n) - (a + 1) + 1
    BY FS_Interval
  <2> QED BY <2>1
<1>2. a + n \in Nat /\ P \in SUBSET (1..(a + n)) /\ P \in SUBSET Nat
  OBVIOUS
<1>3. /\ f \in [1..n -> P]
      /\ \A k, l \in 1..n : k < l => f[k] < f[l]
      /\ \A j \in P : \E k \in 1..n : f[k] = j
  BY <1>1, <1>2, InOrderIncreases
<1>4. /\ g \in [1..n -> P]
      /\ \A k, l \in 1..n : k < l => g[k] < g[l]
      /\ \A j \in P : j - a \in 1..n /\ g[j - a] = j
  OBVIOUS
<1> HIDE DEF f, g, P
<1>5. \A k \in 1..n : f[k] = g[k]
  <2>1. f \in [1..n -> Nat] /\ g \in [1..n -> Nat]
    BY <1>2, <1>3, <1>4
  <2>2. Increases(f, n) /\ Increases(g, n)
    BY <1>3, <1>4 DEF Increases
  <2>3. Covers(f, g, n) /\ Covers(g, f, n)
    BY <1>3, <1>4 DEF Covers
  <2> QED BY <2>1, <2>2, <2>3, IncreasingUnique
<1> QED BY <1>1, <1>5 DEF f, g, P

LEMMA ElementsAtFacts ==
  ASSUME NEW E, NEW s \in Seq(E), NEW P \in SUBSET DOMAIN s
  PROVE  /\ ElementsAt(s, P) \in Seq(E)
         /\ Len(ElementsAt(s, P)) = Cardinality(P) /\ Cardinality(P) \in 0..Len(s)
         /\ DOMAIN ElementsAt(s, P) = 1..Cardinality(P)
         /\ \A k \in 1..Cardinality(P) :
              InOrder(P)[k] \in P /\ ElementsAt(s, P)[k] = s[InOrder(P)[k]]
         /\ \A j \in P : \E k \in 1..Cardinality(P) : ElementsAt(s, P)[k] = s[j]
         /\ \A k, l \in 1..Cardinality(P) : k < l => InOrder(P)[k] < InOrder(P)[l]
<1>1. Len(s) \in Nat /\ DOMAIN s = 1..Len(s) /\ \A i \in 1..Len(s) : s[i] \in E
  OBVIOUS
<1> DEFINE c == Cardinality(P)
           o == InOrder(P)
<1>2. /\ c \in 0..Len(s) /\ o \in [1..c -> P]
      /\ \A k, l \in 1..c : k < l => o[k] < o[l]
      /\ \A j \in P : \E k \in 1..c : o[k] = j
  BY <1>1, InOrderIncreases
<1>3. ElementsAt(s, P) = [k \in DOMAIN o |-> s[o[k]]]
  BY DEF ElementsAt
<1> HIDE DEF c, o
<1>4. ElementsAt(s, P) \in [1..c -> E]
  BY <1>1, <1>2, <1>3
<1>5. ElementsAt(s, P) \in Seq(E) /\ Len(ElementsAt(s, P)) = c
  BY <1>2, <1>4
<1>6. /\ \A k \in 1..c : o[k] \in P /\ ElementsAt(s, P)[k] = s[o[k]]
      /\ \A j \in P : \E k \in 1..c : ElementsAt(s, P)[k] = s[j]
  BY <1>2, <1>3
<1> QED BY <1>2, <1>3, <1>5, <1>6 DEF c, o

-----------------------------------------------------------------------------
(***************************************************************************)
(* The timeline.                                                           *)
(***************************************************************************)

Timed(E) == \A e \in E : e.at \in Nat

Earlier(s, i, j) == s[i].at < s[j].at \/ (s[i].at = s[j].at /\ i < j)
EarlierIn(s) == {p \in (DOMAIN s) \X (DOMAIN s) : Earlier(s, p[1], p[2])}

(* Where the k-th of the sorted list was before. *)
PlaceOf(s, k) == OfRank(DOMAIN s, EarlierIn(s), k)

LEMMA EarlierOrders ==
  ASSUME NEW E, Timed(E), NEW s \in Seq(E)
  PROVE  StrictOrder(DOMAIN s, EarlierIn(s))
<1>1. \A i \in DOMAIN s : s[i].at \in Nat /\ i \in Nat
  <2>1. Len(s) \in Nat /\ DOMAIN s = 1..Len(s) /\ \A i \in 1..Len(s) : s[i] \in E
    OBVIOUS
  <2> QED BY <2>1 DEF Timed
<1>2. \A i, j \in DOMAIN s : <<i, j>> \in EarlierIn(s) <=> Earlier(s, i, j)
  BY DEF EarlierIn
<1>3. \A i \in DOMAIN s : ~Earlier(s, i, i)
  BY <1>1 DEF Earlier
<1>4. \A i, j, k \in DOMAIN s : Earlier(s, i, j) /\ Earlier(s, j, k) => Earlier(s, i, k)
  BY <1>1 DEF Earlier
<1>5. \A i, j \in DOMAIN s : i = j \/ Earlier(s, i, j) \/ Earlier(s, j, i)
  BY <1>1 DEF Earlier
<1> QED BY <1>2, <1>3, <1>4, <1>5 DEF StrictOrder

(* t holds the elements of s, each once, the earlier ones first. *)
Rearranged(t, s) ==
  /\ DOMAIN t = 1..Len(s)
  /\ \A k \in 1..Len(s) : PlaceOf(s, k) \in 1..Len(s) /\ t[k] = s[PlaceOf(s, k)]
  /\ \A k, l \in 1..Len(s) : k < l => Earlier(s, PlaceOf(s, k), PlaceOf(s, l))
  /\ \A j \in 1..Len(s) : \E k \in 1..Len(s) : PlaceOf(s, k) = j

LEMMA ChronologicalFacts ==
  ASSUME NEW E, Timed(E), NEW s \in Seq(E)
  PROVE  /\ Chronological(s) \in Seq(E) /\ Len(Chronological(s)) = Len(s)
         /\ Rearranged(Chronological(s), s)
<1> DEFINE D == DOMAIN s
           R == EarlierIn(s)
<1>1. Len(s) \in Nat /\ D = 1..Len(s) /\ \A i \in D : s[i] \in E
  OBVIOUS
<1>2. IsFiniteSet(D) /\ Cardinality(D) = Len(s)
  <2>1. IsFiniteSet(1..Len(s)) /\ Cardinality(1..Len(s)) = IF 1 > Len(s) THEN 0 ELSE Len(s) - 1 + 1
    BY <1>1, FS_Interval
  <2> QED BY <1>1, <2>1
<1>3. StrictOrder(D, R)
  BY EarlierOrders
<1>4. \A j \in D : Cardinality({i \in D : Earlier(s, i, j)}) + 1 = RankIn(D, R, j)
  <2> TAKE j \in D
  <2>1. {i \in D : Earlier(s, i, j)} = {i \in D : <<i, j>> \in R}
    BY DEF EarlierIn, D, R
  <2> QED BY <2>1 DEF RankIn
<1>5. \A k, l \in 1..Len(s) : <<PlaceOf(s, k), PlaceOf(s, l)>> \in R => Earlier(s, PlaceOf(s, k), PlaceOf(s, l))
  BY DEF EarlierIn
<1> DEFINE Nth(k) == CHOOSE j \in D : Cardinality({i \in D : Earlier(s, i, j)}) + 1 = k
<1>6. Chronological(s) = [k \in D |-> s[Nth(k)]]
  BY DEF Chronological, Earlier
<1> HIDE DEF D, R
<1>7. ASSUME NEW k \in 1..Len(s)
      PROVE  PlaceOf(s, k) \in D /\ Nth(k) = PlaceOf(s, k)
  <2>1. PlaceOf(s, k) \in D /\ RankIn(D, R, PlaceOf(s, k)) = k
    BY <1>2, <1>3, OfRankIncreases DEF PlaceOf, D, R
  <2>2. \E j \in D : Cardinality({i \in D : Earlier(s, i, j)}) + 1 = k
    BY <1>4, <2>1
  <2>3. Nth(k) \in D /\ Cardinality({i \in D : Earlier(s, i, Nth(k))}) + 1 = k
    BY <2>2
  <2> HIDE DEF Nth
  <2>4. RankIn(D, R, Nth(k)) = k
    BY <1>4, <2>3
  <2> QED BY <1>2, <1>3, <2>1, <2>3, <2>4, RanksNumber
<1> HIDE DEF Nth
<1>8. Chronological(s) = [k \in 1..Len(s) |-> s[PlaceOf(s, k)]]
  BY <1>1, <1>6, <1>7
<1>9. /\ \A k, l \in 1..Len(s) : k < l => <<PlaceOf(s, k), PlaceOf(s, l)>> \in R
      /\ \A j \in D : \E k \in 1..Len(s) : PlaceOf(s, k) = j
  BY <1>2, <1>3, OfRankIncreases DEF PlaceOf, D, R
<1>10. Chronological(s) \in [1..Len(s) -> E]
  BY <1>1, <1>7, <1>8
<1>11. Chronological(s) \in Seq(E) /\ Len(Chronological(s)) = Len(s)
  BY <1>1, <1>10
<1>12. Rearranged(Chronological(s), s)
  BY <1>1, <1>5, <1>7, <1>8, <1>9 DEF Rearranged
<1> QED BY <1>11, <1>12

SortedAt(s, places) == \A i, j \in places : i < j => s[i].at <= s[j].at

(* Sorting keeps the order of elements that are in order: the list of them *)
(* is the same before and after.                                           *)
LEMMA SortKeeps ==
  ASSUME NEW E, Timed(E), NEW c \in Seq(E), NEW P \in SUBSET (DOMAIN c), SortedAt(c, P),
         NEW Q, Q = {k \in 1..Len(c) : PlaceOf(c, k) \in P}
  PROVE  ElementsAt(Chronological(c), Q) = ElementsAt(c, P)
<1> DEFINE t == Chronological(c)
           N == Len(c)
           m == Cardinality(P)
           place(k) == PlaceOf(c, k)
<1>1. N \in Nat /\ DOMAIN c = 1..N /\ \A i \in 1..N : c[i].at \in Nat
  BY DEF Timed
<1>2. /\ t \in Seq(E) /\ DOMAIN t = 1..N
      /\ \A k \in 1..N : place(k) \in 1..N /\ t[k] = c[place(k)]
      /\ \A k, l \in 1..N : k < l => Earlier(c, place(k), place(l))
      /\ \A j \in 1..N : \E k \in 1..N : place(k) = j
  <2>1. t \in Seq(E) /\ Rearranged(t, c)
    BY ChronologicalFacts
  <2> QED BY <2>1 DEF Rearranged
<1> HIDE DEF t, place
<1>3. \A k, l \in 1..N : place(k) = place(l) => k = l
  <2>1. \A j \in 1..N : ~Earlier(c, j, j)
    BY <1>1 DEF Earlier
  <2> QED BY <1>1, <1>2, <2>1
<1>4. Q \in SUBSET (1..N) /\ \A k \in 1..N : k \in Q <=> place(k) \in P
  BY DEF place
<1>5. IsFiniteSet(Q) /\ Cardinality(Q) = m /\ m \in Nat
  <2> DEFINE b == [k \in Q |-> place(k)]
  <2>1. b \in [Q -> P]
    BY <1>4
  <2>2. \A k, l \in Q : b[k] = b[l] => k = l
    BY <1>3, <1>4
  <2>3. \A j \in P : \E k \in Q : b[k] = j
    BY <1>1, <1>2, <1>4
  <2>4. b \in Bijection(Q, P)
    BY <2>1, <2>2, <2>3 DEF Bijection, Injection, Surjection, IsInjective
  <2>5. ExistsBijection(Q, P)
    BY <2>4 DEF ExistsBijection
  <2>6. IsFiniteSet(Q) /\ m \in Nat
    BY <1>1, <1>4, InOrderIncreases
  <2> QED BY <2>5, <2>6, FS_Bijection
<1> DEFINE f == [i \in 1..m |-> place(InOrder(Q)[i])]
           g == InOrder(P)
<1>6. /\ g \in [1..m -> P]
      /\ \A k, l \in 1..m : k < l => g[k] < g[l]
      /\ \A j \in P : \E k \in 1..m : g[k] = j
  BY <1>1, InOrderIncreases
<1>7. /\ InOrder(Q) \in [1..m -> Q]
      /\ \A k, l \in 1..m : k < l => InOrder(Q)[k] < InOrder(Q)[l]
      /\ \A j \in Q : \E k \in 1..m : InOrder(Q)[k] = j
  BY <1>1, <1>4, <1>5, InOrderIncreases
<1>8. f \in [1..m -> P]
  BY <1>4, <1>7
<1>9. \A j \in P : \E k \in 1..m : f[k] = j
  <2> TAKE j \in P
  <2>1. PICK k \in 1..N : place(k) = j
    BY <1>1, <1>2
  <2>2. k \in Q
    BY <1>4, <2>1
  <2>3. PICK i \in 1..m : InOrder(Q)[i] = k
    BY <1>7, <2>2
  <2>4. f[i] = j
    BY <2>1, <2>3
  <2> QED BY <2>4
<1>10. Increases(f, m)
  <2> SUFFICES ASSUME NEW k \in 1..m, NEW l \in 1..m, k < l
               PROVE  f[k] < f[l]
    BY DEF Increases
  <2>1. InOrder(Q)[k] \in 1..N /\ InOrder(Q)[l] \in 1..N /\ InOrder(Q)[k] < InOrder(Q)[l]
    BY <1>4, <1>7
  <2>2. Earlier(c, f[k], f[l])
    BY <1>2, <2>1
  <2>3. f[k] \in P /\ f[l] \in P
    BY <1>8
  <2> HIDE DEF f
  <2>4. f[k] \in 1..N /\ f[l] \in 1..N
    BY <1>1, <2>3
  <2>5. c[f[k]].at \in Nat /\ c[f[l]].at \in Nat
    BY <1>1, <2>4
  <2>6. f[l] < f[k] => c[f[l]].at <= c[f[k]].at
    BY <2>3 DEF SortedAt
  <2> QED BY <2>2, <2>4, <2>5, <2>6 DEF Earlier
<1>11. \A i \in 1..m : f[i] = g[i]
  <2> HIDE DEF f, g
  <2>1. f \in [1..m -> Nat] /\ g \in [1..m -> Nat]
    BY <1>1, <1>6, <1>8
  <2>2. Increases(g, m)
    BY <1>6 DEF Increases
  <2>3. Covers(f, g, m)
    BY <1>6, <1>9 DEF Covers
  <2>4. Covers(g, f, m)
    BY <1>6, <1>8 DEF Covers
  <2> QED BY <1>5, <1>10, <2>1, <2>2, <2>3, <2>4, IncreasingUnique
<1>12. ElementsAt(t, Q) = [i \in 1..m |-> t[InOrder(Q)[i]]]
  BY <1>7 DEF ElementsAt
<1>13. ElementsAt(c, P) = [i \in 1..m |-> c[g[i]]]
  BY <1>6 DEF ElementsAt
<1>14. \A i \in 1..m : t[InOrder(Q)[i]] = c[g[i]]
  <2> TAKE i \in 1..m
  <2>1. InOrder(Q)[i] \in 1..N
    BY <1>4, <1>7
  <2>2. t[InOrder(Q)[i]] = c[place(InOrder(Q)[i])]
    BY <1>2, <2>1
  <2>3. f[i] = place(InOrder(Q)[i])
    OBVIOUS
  <2> QED BY <1>11, <2>2, <2>3
<1> QED BY <1>12, <1>13, <1>14 DEF t

(* Sorting what is in order changes nothing. *)
LEMMA SortedUnchanged ==
  ASSUME NEW E, Timed(E), NEW s \in Seq(E), SortedAt(s, DOMAIN s)
  PROVE  Chronological(s) = s
<1> DEFINE N == Len(s)
           t == Chronological(s)
<1>1. N \in Nat /\ DOMAIN s = 1..N /\ s \in [1..N -> E]
  OBVIOUS
<1>2. /\ t \in Seq(E) /\ Len(t) = N /\ DOMAIN t = 1..N
      /\ \A k \in 1..N : PlaceOf(s, k) \in 1..N
  <2>1. t \in Seq(E) /\ Len(t) = N /\ Rearranged(t, s)
    BY ChronologicalFacts
  <2> QED BY <2>1 DEF Rearranged
<1> HIDE DEF t
<1>3. 1..N = {k \in 1..N : PlaceOf(s, k) \in DOMAIN s}
  BY <1>1, <1>2
<1>4. ElementsAt(t, 1..N) = ElementsAt(s, 1..N)
  BY <1>1, <1>3, SortKeeps DEF t
<1>5. Cardinality(1..N) = N /\ \A k \in 1..N : InOrder(1..N)[k] = k
  <2>1. Cardinality((0 + 1)..(0 + N)) = N /\ \A k \in 1..N : InOrder((0 + 1)..(0 + N))[k] = 0 + k
    BY <1>1, InOrderInterval
  <2>2. (0 + 1)..(0 + N) = 1..N /\ \A k \in 1..N : 0 + k = k
    BY <1>1
  <2> QED BY <2>1, <2>2
<1>6. \A k \in 1..N : ElementsAt(t, 1..N)[k] = t[k] /\ ElementsAt(s, 1..N)[k] = s[k]
  <2> DEFINE P == 1..N
  <2>1. P \in SUBSET (DOMAIN s) /\ P \in SUBSET (DOMAIN t)
    BY <1>1, <1>2
  <2> HIDE DEF P
  <2>2. /\ \A k \in 1..Cardinality(P) : ElementsAt(s, P)[k] = s[InOrder(P)[k]]
        /\ \A k \in 1..Cardinality(P) : ElementsAt(t, P)[k] = t[InOrder(P)[k]]
    BY <1>2, <2>1, ElementsAtFacts
  <2> QED BY <1>5, <2>2 DEF P
<1>7. \A k \in 1..N : t[k] = s[k]
  BY <1>4, <1>6
<1>8. t \in [1..N -> E]
  BY <1>2
<1> QED BY <1>1, <1>7, <1>8 DEF t

LEMMA SortKeepsKinds ==
  ASSUME NEW E, Timed(E), NEW c \in Seq(E)
  PROVE  /\ SortedAt(c, {i \in DOMAIN c : IsHigh(c[i])}) => High(Chronological(c)) = High(c)
         /\ SortedAt(c, {i \in DOMAIN c : ~IsHigh(c[i])}) => Low(Chronological(c)) = Low(c)
<1> DEFINE t == Chronological(c)
           P == {i \in DOMAIN c : IsHigh(c[i])}
           R == {i \in DOMAIN c : ~IsHigh(c[i])}
<1>1. /\ DOMAIN c = 1..Len(c) /\ DOMAIN t = 1..Len(c)
      /\ \A k \in 1..Len(c) : PlaceOf(c, k) \in 1..Len(c) /\ t[k] = c[PlaceOf(c, k)]
  <2>1. Rearranged(t, c)
    BY ChronologicalFacts
  <2>2. DOMAIN c = 1..Len(c)
    OBVIOUS
  <2> QED BY <2>1, <2>2 DEF Rearranged
<1> HIDE DEF t
<1>2. {k \in DOMAIN t : IsHigh(t[k])} = {k \in 1..Len(c) : PlaceOf(c, k) \in P}
  BY <1>1
<1>3. {k \in DOMAIN t : ~IsHigh(t[k])} = {k \in 1..Len(c) : PlaceOf(c, k) \in R}
  BY <1>1
<1>4. P \in SUBSET (DOMAIN c) /\ R \in SUBSET (DOMAIN c)
  OBVIOUS
<1>5. High(t) = ElementsAt(t, {k \in DOMAIN t : IsHigh(t[k])}) /\ High(c) = ElementsAt(c, P)
  BY DEF High
<1>6. Low(t) = ElementsAt(t, {k \in DOMAIN t : ~IsHigh(t[k])}) /\ Low(c) = ElementsAt(c, R)
  BY DEF Low
<1> HIDE DEF P, R
<1>7. SortedAt(c, P) => High(t) = High(c)
  BY <1>2, <1>4, <1>5, SortKeeps DEF t
<1>8. SortedAt(c, R) => Low(t) = Low(c)
  BY <1>3, <1>4, <1>6, SortKeeps DEF t
<1> QED BY <1>7, <1>8 DEF t, P, R

(* What is in one piece in a list is found there. *)
LEMMA ElementsAtInterval ==
  ASSUME NEW E, NEW c \in Seq(E), NEW a \in Nat, NEW d \in Seq(E), a + Len(d) <= Len(c),
         \A k \in 1..Len(d) : c[a + k] = d[k]
  PROVE  ElementsAt(c, (a + 1)..(a + Len(d))) = d
<1> DEFINE n == Len(d)
           P == (a + 1)..(a + n)
<1>1. n \in Nat /\ Len(c) \in Nat /\ DOMAIN c = 1..Len(c) /\ d \in [1..n -> E]
  OBVIOUS
<1>2. Cardinality(P) = n /\ \A k \in 1..n : InOrder(P)[k] = a + k
  BY <1>1, InOrderInterval
<1>3. P \in SUBSET (DOMAIN c)
  BY <1>1
<1> HIDE DEF P
<1>4. /\ ElementsAt(c, P) \in Seq(E) /\ Len(ElementsAt(c, P)) = n
      /\ \A k \in 1..n : ElementsAt(c, P)[k] = c[InOrder(P)[k]]
  BY <1>2, <1>3, ElementsAtFacts
<1>5. \A k \in 1..n : ElementsAt(c, P)[k] = d[k]
  BY <1>2, <1>4
<1> QED BY <1>1, <1>4, <1>5 DEF P

(* The high-signal list and the sample, joined and sorted, are found again *)
(* in the timeline.                                                        *)
LEMMA JoinedAndSorted ==
  ASSUME NEW E, Timed(E), NEW h \in Seq(E), NEW d \in Seq(E),
         \A k \in 1..Len(h) : IsHigh(h[k]), \A k \in 1..Len(d) : ~IsHigh(d[k]),
         SortedAt(h, 1..Len(h)), SortedAt(d, 1..Len(d)),
         NEW t, t = Chronological(h \o d)
  PROVE  /\ High(t) = h /\ Low(t) = d
         /\ t \in Seq(E) /\ Len(t) = Len(h) + Len(d)
         /\ SortedAt(t, DOMAIN t)
<1> DEFINE c == h \o d
           a == Len(h)
           n == Len(d)
<1>1. /\ a \in Nat /\ n \in Nat /\ c \in Seq(E) /\ Len(c) = a + n /\ DOMAIN c = 1..(a + n)
      /\ \A k \in 1..a : c[k] = h[k]
      /\ \A k \in 1..n : c[a + k] = d[k]
  OBVIOUS
<1>2. \A i \in 1..(a + n) : i \in 1..a \/ (i - a \in 1..n /\ i = a + (i - a))
  BY <1>1
<1> HIDE DEF c
<1>3. \A i \in (a + 1)..(a + n) : c[i] = d[i - a] /\ i - a \in 1..n
  BY <1>1, <1>2
<1>4. {i \in DOMAIN c : IsHigh(c[i])} = (0 + 1)..(0 + a)
  <2>1. \A i \in 1..a : IsHigh(c[i])
    BY <1>1
  <2>2. \A i \in (a + 1)..(a + n) : ~IsHigh(c[i])
    BY <1>3
  <2> QED BY <1>1, <2>1, <2>2
<1>5. {i \in DOMAIN c : ~IsHigh(c[i])} = (a + 1)..(a + n)
  <2>1. \A i \in 1..a : IsHigh(c[i])
    BY <1>1
  <2>2. \A i \in (a + 1)..(a + n) : ~IsHigh(c[i])
    BY <1>3
  <2> QED BY <1>1, <2>1, <2>2
<1>6. SortedAt(c, {i \in DOMAIN c : IsHigh(c[i])})
  <2>1. \A i \in (0 + 1)..(0 + a) : i \in 1..a /\ c[i] = h[i]
    BY <1>1
  <2> QED BY <1>4, <2>1 DEF SortedAt
<1>7. SortedAt(c, {i \in DOMAIN c : ~IsHigh(c[i])})
  <2> SUFFICES ASSUME NEW i \in (a + 1)..(a + n), NEW j \in (a + 1)..(a + n), i < j
               PROVE  c[i].at <= c[j].at
    BY <1>5 DEF SortedAt
  <2>1. i - a \in 1..n /\ j - a \in 1..n /\ i - a < j - a
    BY <1>1
  <2>2. d[i - a].at <= d[j - a].at
    BY <2>1 DEF SortedAt
  <2> QED BY <1>3, <2>2
<1>8. High(c) = h
  <2>1. 0 \in Nat /\ 0 + Len(h) <= Len(c) /\ \A k \in 1..Len(h) : c[0 + k] = h[k]
    BY <1>1
  <2>2. ElementsAt(c, (0 + 1)..(0 + Len(h))) = h
    BY <1>1, <2>1, ElementsAtInterval
  <2> QED BY <1>4, <2>2 DEF High
<1>9. Low(c) = d
  <2>1. ElementsAt(c, (a + 1)..(a + Len(d))) = d
    BY <1>1, ElementsAtInterval
  <2> QED BY <1>5, <2>1 DEF Low
<1>10. High(t) = h /\ Low(t) = d
  BY <1>1, <1>6, <1>7, <1>8, <1>9, SortKeepsKinds DEF c
<1>11. /\ t \in Seq(E) /\ Len(t) = a + n /\ DOMAIN t = 1..(a + n)
       /\ \A k \in 1..(a + n) : PlaceOf(c, k) \in 1..(a + n) /\ t[k] = c[PlaceOf(c, k)]
       /\ \A k, l \in 1..(a + n) : k < l => Earlier(c, PlaceOf(c, k), PlaceOf(c, l))
  <2>1. t \in Seq(E) /\ Len(t) = Len(c) /\ Rearranged(t, c)
    BY <1>1, ChronologicalFacts DEF c
  <2> QED BY <1>1, <2>1 DEF Rearranged
<1>12. SortedAt(t, DOMAIN t)
  <2> SUFFICES ASSUME NEW k \in 1..(a + n), NEW l \in 1..(a + n), k < l
               PROVE  t[k].at <= t[l].at
    BY <1>11 DEF SortedAt
  <2>1. PlaceOf(c, k) \in 1..(a + n) /\ PlaceOf(c, l) \in 1..(a + n)
    BY <1>11
  <2>2. c[PlaceOf(c, k)].at \in Nat /\ c[PlaceOf(c, l)].at \in Nat
    BY <1>1, <2>1 DEF Timed
  <2>3. Earlier(c, PlaceOf(c, k), PlaceOf(c, l))
    BY <1>11
  <2>4. c[PlaceOf(c, k)].at <= c[PlaceOf(c, l)].at
    BY <2>2, <2>3 DEF Earlier
  <2>5. t[k] = c[PlaceOf(c, k)] /\ t[l] = c[PlaceOf(c, l)]
    BY <1>11
  <2> QED BY <2>4, <2>5
<1> QED BY <1>10, <1>11, <1>12

-----------------------------------------------------------------------------
(***************************************************************************)
(* The sample: what is between two products of the step, both of them      *)
(* rounded to whole numbers.                                               *)
(***************************************************************************)

LEMMA NoneOrOne ==
  ASSUME NEW b \in Nat \ {0}, NEW z \in Int, -b < b * z, b * z < 2 * b
  PROVE  z \in {0, 1}
<1>1. z < 0 => b * z <= -b
  BY Z3
<1>2. z > 1 => b * z >= 2 * b
  BY Z3
<1> DEFINE p == b * z
<1>3. p \in Int
  OBVIOUS
<1> QED BY <1>1, <1>2
LEMMA DivMod ==
  ASSUME NEW a \in Nat, NEW b \in Nat \ {0}
  PROVE  /\ a \div b \in Nat /\ a % b \in 0..(b - 1)
         /\ a = b * (a \div b) + (a % b)
<1>1. a % b \in 0..(b - 1) /\ a = b * (a \div b) + (a % b)
  OBVIOUS
<1>2. a \div b \in Nat
  OBVIOUS
<1> QED BY <1>1, <1>2

LEMMA NextMultiple ==
  ASSUME NEW i \in Nat, NEW j \in Nat, i < j, NEW n \in Nat
  PROVE  i * n + n <= j * n
<1> DEFINE d == j - i - 1
<1>1. d \in Nat /\ j = i + 1 + d
  OBVIOUS
<1> HIDE DEF d
<1>2. d * n \in Nat /\ i * n \in Nat
  BY <1>1
<1>3. j * n = i * n + n + d * n
  BY <1>1
<1> QED BY <1>2, <1>3

(* e and f are quotients, r and s their rests, d and g what rounding takes *)
(* off them.                                                               *)
LEMMA SamplingGap ==
  ASSUME NEW b \in Nat \ {0}, NEW n \in Nat, b < n,
         NEW e \in Nat, NEW r \in 0..(b - 1), NEW f \in Nat, NEW s \in 0..(b - 1),
         NEW d \in {0, 1}, NEW g \in {0, 1}, d = 1 => r = 0, g = 1 => s = 0
  PROVE  /\ b * f + s >= b * e + r + n => e - d < f - g
         /\ b * f + s = b * e + r + n => (f - g) - (e - d) <= n \div b + 1
<1> DEFINE q == n \div b
           t == n % b
           z == f - e - q
           be == b * e
           bf == b * f
           bq == b * q
           bz == b * z
           y == f - e
           by == b * y
<1>1. q \in Nat /\ t \in 0..(b - 1) /\ n = bq + t
  BY DivMod
<1> HIDE DEF q, t
<1>2. z \in Int /\ y \in Int /\ be \in Int /\ bf \in Int /\ bq \in Int /\ bz \in Int /\ by \in Int
  BY <1>1
<1>3. bz = bf - be - bq /\ by = bf - be
  BY <1>1
<1>4. y <= 0 => by <= 0
  BY <1>2, Z3
<1>5. y <= 1 => by <= b
  BY <1>2, Z3
<1>6. ASSUME bf + s >= be + r + n
      PROVE  e - d < f - g
  <2>1. by >= n + r - s
    BY <1>2, <1>3, <1>6
  <2>2. y >= 1
    <3> HIDE DEF y, by
    <3> QED BY <1>2, <1>4, <2>1
  <2>3. g = 1 => y >= 2
    <3> HIDE DEF y, by
    <3> QED BY <1>2, <1>5, <2>1
  <2> QED BY <2>2, <2>3
<1>7. ASSUME bf + s = be + r + n
      PROVE  (f - g) - (e - d) <= q + 1
  <2>1. bz = t + r - s
    <3> HIDE DEF be, bf, bq, bz
    <3> QED BY <1>1, <1>2, <1>3, <1>7
  <2>2. z \in {0, 1}
    <3>1. -b < bz /\ bz < 2 * b
      <4> HIDE DEF bz
      <4> QED BY <1>1, <1>2, <2>1
    <3> HIDE DEF z
    <3> QED BY <1>2, <3>1, NoneOrOne
  <2>3. d = 1 => z = 0
    <3> SUFFICES ASSUME d = 1, z = 1 PROVE FALSE
      BY <2>2
    <3>1. bz = b
      <4> HIDE DEF z
      <4> QED OBVIOUS
    <3> HIDE DEF bz, z
    <3> QED BY <1>1, <1>2, <2>1, <3>1
  <2> QED BY <1>1, <2>2, <2>3
<1> QED BY <1>6, <1>7 DEF q

(* The place of the k-th element of the sample; the place after the last   *)
(* one is the end of the list.                                             *)
SamplePlace(k, n, b) ==
  IF n <= b THEN k ELSE IF k = b + 1 THEN n + 1 ELSE SampleIndex(k - 1, n, b) + 1

(* The quotient and what rounding takes off it. *)
Rounded(i, n, b) == IF <<i, n, b>> \in RoundsDown /\ (i * n) % b = 0 THEN 1 ELSE 0

LEMMA SamplePlaces ==
  ASSUME NEW n \in Nat, NEW b \in Nat \ {0}, b < n
  PROVE  /\ \A k \in 1..(b + 1) : SamplePlace(k, n, b) \in Int
         /\ SamplePlace(1, n, b) = 1
         /\ \A k, l \in 1..(b + 1) : k < l => SamplePlace(k, n, b) < SamplePlace(l, n, b)
         /\ \A k \in 1..b : SamplePlace(k + 1, n, b) - SamplePlace(k, n, b) <= n \div b + 1
<1> DEFINE quotient(i) == (i * n) \div b
           rest(i) == (i * n) % b
           rounded(i) == IF i = b THEN 0 ELSE Rounded(i, n, b)
<1>1. ASSUME NEW i \in 0..b
      PROVE  /\ quotient(i) \in Nat /\ rest(i) \in 0..(b - 1)
             /\ i * n \in Nat /\ i * n = b * quotient(i) + rest(i)
             /\ rounded(i) \in {0, 1} /\ (rounded(i) = 1 => rest(i) = 0)
  <2>1. i \in Nat /\ i * n \in Nat
    OBVIOUS
  <2>2. quotient(i) \in Nat /\ rest(i) \in 0..(b - 1) /\ i * n = b * quotient(i) + rest(i)
    BY <2>1, DivMod
  <2>3. rounded(i) \in {0, 1} /\ (rounded(i) = 1 => rest(i) = 0)
    BY DEF Rounded
  <2> QED BY <2>1, <2>2, <2>3
<1>2. ASSUME NEW k \in 1..(b + 1)
      PROVE  SamplePlace(k, n, b) = quotient(k - 1) - rounded(k - 1) + 1
  <2>1. CASE k = b + 1
    <3>1. k - 1 = b /\ b * n = b * quotient(b) + rest(b)
      BY <2>1, <1>1
    <3>2. quotient(b) = n
      BY <3>1
    <3> QED BY <2>1, <3>1, <3>2 DEF SamplePlace
  <2>2. CASE k # b + 1
    <3>1. k - 1 # b /\ quotient(k - 1) \in Nat
      BY <2>2, <1>1
    <3>2. SampleIndex(k - 1, n, b) = quotient(k - 1) - rounded(k - 1)
      BY <3>1 DEF SampleIndex, Rounded
    <3> QED BY <2>2, <3>2 DEF SamplePlace
  <2> QED BY <2>1, <2>2
<1>3. quotient(0) = 0 /\ rounded(0) = 0
  <2>1. 0 * n = 0 /\ 0 \div b = 0
    OBVIOUS
  <2>2. rounded(0) = 0
    BY TimelineAssumption DEF Rounded
  <2> QED BY <2>1, <2>2
<1> HIDE DEF quotient, rest, rounded
<1>4. \A k \in 1..(b + 1) : k - 1 \in 0..b
  OBVIOUS
<1>5. \A k \in 1..(b + 1) : SamplePlace(k, n, b) \in Int
  BY <1>1, <1>2, <1>4
<1>6. SamplePlace(1, n, b) = 1
  BY <1>2, <1>3
<1>7. ASSUME NEW k \in 1..(b + 1), NEW l \in 1..(b + 1), k < l
      PROVE  SamplePlace(k, n, b) < SamplePlace(l, n, b)
  <2> DEFINE i == k - 1
             j == l - 1
  <2>1. i \in 0..b /\ j \in 0..b /\ i \in Nat /\ j \in Nat /\ i < j
    BY <1>7
  <2> HIDE DEF i, j
  <2>2. i * n + n <= j * n
    BY <2>1, NextMultiple
  <2>3. quotient(i) - rounded(i) < quotient(j) - rounded(j)
    <3>1. b * quotient(j) + rest(j) >= b * quotient(i) + rest(i) + n
      BY <1>1, <2>1, <2>2
    <3> QED BY <1>1, <2>1, <3>1, SamplingGap
  <2>4. /\ SamplePlace(k, n, b) = quotient(i) - rounded(i) + 1
        /\ SamplePlace(l, n, b) = quotient(j) - rounded(j) + 1
    BY <1>2 DEF i, j
  <2>5. /\ quotient(i) \in Nat /\ rounded(i) \in {0, 1}
        /\ quotient(j) \in Nat /\ rounded(j) \in {0, 1}
    BY <1>1, <2>1
  <2> QED BY <2>3, <2>4, <2>5
<1>8. ASSUME NEW k \in 1..b
      PROVE  SamplePlace(k + 1, n, b) - SamplePlace(k, n, b) <= n \div b + 1
  <2> DEFINE i == k - 1
             j == k
  <2>1. i \in 0..b /\ j \in 0..b /\ j = i + 1 /\ i \in Nat
    OBVIOUS
  <2>2. /\ SamplePlace(k, n, b) = quotient(i) - rounded(i) + 1
        /\ SamplePlace(k + 1, n, b) = quotient(j) - rounded(j) + 1
    BY <1>2
  <2> HIDE DEF i, j
  <2>3. j * n = i * n + n
    BY <2>1
  <2>4. b * quotient(j) + rest(j) = b * quotient(i) + rest(i) + n
    BY <1>1, <2>1, <2>3
  <2>5. /\ quotient(i) \in Nat /\ rest(i) \in 0..(b - 1)
        /\ rounded(i) \in {0, 1} /\ (rounded(i) = 1 => rest(i) = 0)
    BY <1>1, <2>1
  <2>6. /\ quotient(j) \in Nat /\ rest(j) \in 0..(b - 1)
        /\ rounded(j) \in {0, 1} /\ (rounded(j) = 1 => rest(j) = 0)
    BY <1>1, <2>1
  <2>7. (quotient(j) - rounded(j)) - (quotient(i) - rounded(i)) <= n \div b + 1
    BY <2>4, <2>5, <2>6, SamplingGap
  <2>8. n \div b \in Nat
    BY DivMod
  <2> QED BY <2>2, <2>5, <2>6, <2>7, <2>8
<1> QED BY <1>5, <1>6, <1>7, <1>8

TakenFrom(d, s, m, n, b) ==
  \A k \in 1..m : SamplePlace(k, n, b) \in 1..n /\ d[k] = s[SamplePlace(k, n, b)]

SpreadOut(m, n, b) ==
  m # 0 => /\ SamplePlace(1, n, b) = 1
           /\ SamplePlace(m + 1, n, b) = n + 1
           /\ \A k \in 1..m : SamplePlace(k + 1, n, b) - SamplePlace(k, n, b) \in 1..(n \div b + 1)

(* What the sample takes: as many as there is room for, from the first on, *)
(* in their order, with no large gap.                                      *)
LEMMA DownsampleFacts ==
  ASSUME NEW E, NEW s \in Seq(E), NEW b \in Nat,
         NEW n, n = Len(s), NEW m, m = (IF n <= b THEN n ELSE b)
  PROVE  /\ Downsample(s, b) \in Seq(E) /\ Len(Downsample(s, b)) = m /\ m \in Nat
         /\ TakenFrom(Downsample(s, b), s, m, n, b)
         /\ \A k, l \in 1..m : k < l => SamplePlace(k, n, b) < SamplePlace(l, n, b)
         /\ SpreadOut(m, n, b)
<1>1. n \in Nat /\ \A i \in 1..n : s[i] \in E
  OBVIOUS
<1>2. CASE n <= b
  <2>1. \A k : SamplePlace(k, n, b) = k
    BY <1>2 DEF SamplePlace
  <2>2. Downsample(s, b) = s /\ m = n
    BY <1>2 DEF Downsample
  <2>3. ASSUME NEW k \in 1..m PROVE 1 \in 1..(n \div b + 1)
    <3>1. b \in Nat \ {0}
      BY <1>1, <1>2, <2>2
    <3>2. n \div b \in Nat
      BY <1>1, <3>1, DivMod
    <3> QED BY <3>2
  <2>4. \A k \in 1..m : (k + 1) - k = 1
    BY <1>1, <2>2
  <2> QED BY <1>1, <2>1, <2>2, <2>3, <2>4 DEF TakenFrom, SpreadOut
<1>3. CASE b < n /\ b = 0
  <2>1. Downsample(s, b) = [k \in 1..b |-> s[SampleIndex(k - 1, Len(s), b) + 1]]
    BY <1>1, <1>3 DEF Downsample
  <2>2. 1..b = {} /\ m = 0
    BY <1>1, <1>3
  <2>3. Downsample(s, b) \in [1..0 -> E]
    BY <1>3, <2>1, <2>2
  <2> QED BY <2>2, <2>3 DEF TakenFrom, SpreadOut
<1>4. CASE b < n /\ b # 0
  <2>1. Downsample(s, b) = [k \in 1..b |-> s[SampleIndex(k - 1, Len(s), b) + 1]] /\ m = b
    BY <1>1, <1>4 DEF Downsample
  <2>2. \A k \in 1..b : SamplePlace(k, n, b) = SampleIndex(k - 1, n, b) + 1
    BY <1>1, <1>4 DEF SamplePlace
  <2>3. SamplePlace(b + 1, n, b) = n + 1
    BY <1>1, <1>4 DEF SamplePlace
  <2>4. /\ \A k \in 1..(b + 1) : SamplePlace(k, n, b) \in Int
        /\ SamplePlace(1, n, b) = 1
        /\ \A k, l \in 1..(b + 1) : k < l => SamplePlace(k, n, b) < SamplePlace(l, n, b)
        /\ \A k \in 1..b : SamplePlace(k + 1, n, b) - SamplePlace(k, n, b) <= n \div b + 1
    BY <1>1, <1>4, SamplePlaces
  <2>5. ASSUME NEW k \in 1..b PROVE SamplePlace(k, n, b) \in 1..n
    <3>1. k = 1 \/ SamplePlace(1, n, b) < SamplePlace(k, n, b)
      BY <2>4
    <3>2. SamplePlace(k, n, b) < SamplePlace(b + 1, n, b)
      BY <2>4
    <3>3. SamplePlace(k, n, b) \in Int
      BY <2>4
    <3>4. SamplePlace(1, n, b) = 1
      BY <2>4
    <3> QED BY <1>1, <2>3, <3>1, <3>2, <3>3, <3>4
  <2>6. Downsample(s, b) \in [1..m -> E] /\ \A k \in 1..m : Downsample(s, b)[k] = s[SamplePlace(k, n, b)]
    BY <1>1, <2>1, <2>2, <2>5
  <2>7. ASSUME NEW k \in 1..b
        PROVE  SamplePlace(k + 1, n, b) - SamplePlace(k, n, b) \in 1..(n \div b + 1)
    <3>1. /\ k \in 1..(b + 1) /\ k + 1 \in 1..(b + 1) /\ k < k + 1
      OBVIOUS
    <3>2. n \div b \in Nat
      BY <1>1, <1>4, DivMod
    <3>3. SamplePlace(k, n, b) \in Int /\ SamplePlace(k + 1, n, b) \in Int
      BY <2>4, <3>1
    <3>4. SamplePlace(k, n, b) < SamplePlace(k + 1, n, b)
      BY <2>4, <3>1
    <3>5. SamplePlace(k + 1, n, b) - SamplePlace(k, n, b) <= n \div b + 1
      BY <2>4
    <3> QED BY <3>2, <3>3, <3>4, <3>5
  <2>8. \A k, l \in 1..m : k < l => SamplePlace(k, n, b) < SamplePlace(l, n, b)
    <3> TAKE k, l \in 1..m
    <3>1. k \in 1..(b + 1) /\ l \in 1..(b + 1)
      BY <2>1
    <3> QED BY <2>4, <3>1
  <2>9. m \in Nat /\ SamplePlace(m + 1, n, b) = n + 1 /\ SamplePlace(1, n, b) = 1
    BY <2>1, <2>3, <2>4
  <2>10. /\ \A k \in 1..m : SamplePlace(k, n, b) \in 1..n
         /\ \A k \in 1..m : SamplePlace(k + 1, n, b) - SamplePlace(k, n, b) \in 1..(n \div b + 1)
    BY <2>1, <2>5, <2>7
  <2>11. Downsample(s, b) \in Seq(E) /\ Len(Downsample(s, b)) = m
    BY <2>6, <2>9
  <2>12. TakenFrom(Downsample(s, b), s, m, n, b)
    BY <2>6, <2>10 DEF TakenFrom
  <2>13. SpreadOut(m, n, b)
    BY <2>9, <2>10 DEF SpreadOut
  <2> QED BY <2>8, <2>9, <2>11, <2>12, <2>13, Zenon
<1> QED BY <1>1, <1>2, <1>3, <1>4

-----------------------------------------------------------------------------
(***************************************************************************)
(* The window and its package.                                             *)
(***************************************************************************)

Recorded ==
  [at : Nat, id : Nat, type : {kind.type : kind \in Kinds}, pid : {kind.pid : kind \in Kinds},
   named : {kind.named : kind \in Kinds}, cpu : {kind.cpu : kind \in Kinds}]

WindowInv ==
  /\ events \in Seq(Recorded)
  /\ \A i \in 1..Len(events) : events[i].id = i
  /\ SortedAt(events, 1..Len(events))
  /\ \/ evidence = None
     \/ createdAt # None /\ evidence = BuildEvidence(events, createdAt)

LEMMA RecordedTimed == Timed(Recorded)
BY DEF Timed, Recorded

LEMMA WindowInit == Init => WindowInv
<1> SUFFICES ASSUME Init PROVE WindowInv
  OBVIOUS
<1>1. events = <<>> /\ evidence = None
  BY DEF Init
<1>2. events \in Seq(Recorded) /\ Len(events) = 0
  BY <1>1
<1> QED BY <1>1, <1>2 DEF WindowInv, SortedAt

LEMMA WindowStep == WindowInv /\ [Next]_vars => WindowInv'
<1> SUFFICES ASSUME WindowInv, [Next]_vars PROVE WindowInv'
  OBVIOUS
<1> DEFINE n == Len(events)
<1>0. n \in Nat /\ DOMAIN events = 1..n /\ \A i \in 1..n : events[i] \in Recorded /\ events[i].at \in Nat
  BY RecordedTimed DEF WindowInv, Timed
<1>1. ASSUME NEW kind \in Kinds, Record(kind)
      PROVE  WindowInv'
  <2> DEFINE e == [at |-> Now + kind.gap, id |-> n + 1, type |-> kind.type, pid |-> kind.pid,
                   named |-> kind.named, cpu |-> kind.cpu]
  <2>1. events' = Append(events, e) /\ evidence = None /\ evidence' = None
    BY <1>1 DEF Record
  <2>2. Now \in Nat /\ \A i \in 1..n : events[i].at <= Now
    <3>1. CASE n = 0
      BY <1>0, <3>1 DEF Now, WindowInv
    <3>2. CASE n # 0
      <4>1. n \in 1..n /\ Now = events[n].at
        BY <1>0, <3>2 DEF Now, Last
      <4>2. \A i \in 1..n : i < n => events[i].at <= events[n].at
        BY <4>1 DEF WindowInv, SortedAt
      <4> QED BY <1>0, <4>1, <4>2
    <3> QED BY <3>1, <3>2
  <2>3. e \in Recorded /\ e.at \in Nat /\ Now <= e.at /\ e.id = n + 1
    BY <1>0, <2>2, ViewAssumption DEF Recorded
  <2> HIDE DEF e
  <2>4. /\ events' \in Seq(Recorded) /\ Len(events') = n + 1
        /\ \A i \in 1..n : events'[i] = events[i]
        /\ events'[n + 1] = e
    BY <1>0, <2>1, <2>3 DEF WindowInv
  <2>5. \A i \in 1..(n + 1) : i \in 1..n \/ i = n + 1
    BY <1>0
  <2>6. \A i \in 1..(n + 1) : events'[i].id = i
    BY <2>3, <2>4, <2>5 DEF WindowInv
  <2>7. \A i, j \in 1..(n + 1) : i < j => events'[i].at <= events'[j].at
    <3> SUFFICES ASSUME NEW i \in 1..(n + 1), NEW j \in 1..(n + 1), i < j
                 PROVE  events'[i].at <= events'[j].at
      OBVIOUS
    <3>1. i \in 1..n
      BY <1>0
    <3>2. CASE j \in 1..n
      BY <2>4, <3>1, <3>2 DEF WindowInv, SortedAt
    <3>3. CASE j = n + 1
      BY <1>0, <2>2, <2>3, <2>4, <3>1, <3>3
    <3> QED BY <2>5, <3>2, <3>3
  <2>8. SortedAt(events', 1..Len(events'))
    BY <2>4, <2>7 DEF SortedAt
  <2> QED BY <2>1, <2>4, <2>6, <2>8 DEF WindowInv, SortedAt
<1>2. CASE Create
  <2>1. events' = events /\ evidence' = evidence /\ createdAt = None
    BY <1>2 DEF Create
  <2>2. evidence = None
    BY <2>1 DEF WindowInv
  <2> QED BY <2>1, <2>2 DEF WindowInv, SortedAt
<1>3. CASE Finish
  <2>1. /\ events' = events /\ createdAt' = createdAt /\ createdAt # None
        /\ evidence' = BuildEvidence(events, createdAt)
    BY <1>3 DEF Finish
  <2>2. BuildEvidence(events, createdAt)' = BuildEvidence(events, createdAt)
    BY <2>1
  <2> QED BY <2>1 DEF WindowInv, SortedAt
<1>4. CASE UNCHANGED vars
  BY <1>4 DEF vars, WindowInv, SortedAt
<1> QED BY <1>1, <1>2, <1>3, <1>4 DEF Next

(* Every window is in the order of its timestamps, no two of its events    *)
(* are the same, and the package is the one of the window.                 *)
THEOREM WindowInvariance == Spec => []WindowInv
<1>1. Init => WindowInv
  BY WindowInit
<1>2. WindowInv /\ [Next]_vars => WindowInv'
  BY WindowStep
<1> QED BY <1>1, <1>2, PTL DEF Spec

(* The events of a kind, out of a window that is in order. *)
LEMMA KindsOfWindow ==
  ASSUME WindowInv
  PROVE  /\ High(events) \in Seq(Recorded) /\ Low(events) \in Seq(Recorded)
         /\ \A k \in 1..Len(High(events)) : IsHigh(High(events)[k])
         /\ \A k \in 1..Len(Low(events)) : ~IsHigh(Low(events)[k])
         /\ SortedAt(High(events), 1..Len(High(events)))
         /\ SortedAt(Low(events), 1..Len(Low(events)))
         /\ \A i \in 1..Len(events) : IsHigh(events[i]) => events[i] \in ToSet(High(events))
         /\ \A k \in 1..Len(Low(events)) : Low(events)[k].id \in Nat
         /\ \A k, l \in 1..Len(Low(events)) : k < l => Low(events)[k].id < Low(events)[l].id
<1> DEFINE P == {i \in DOMAIN events : IsHigh(events[i])}
           R == {i \in DOMAIN events : ~IsHigh(events[i])}
           h == ElementsAt(events, P)
           l == ElementsAt(events, R)
<1>1. /\ events \in Seq(Recorded) /\ DOMAIN events = 1..Len(events) /\ Len(events) \in Nat
      /\ \A i \in 1..Len(events) : events[i].id = i
      /\ \A i, j \in 1..Len(events) : i < j => events[i].at <= events[j].at
  BY DEF WindowInv, SortedAt
<1>2. High(events) = h /\ Low(events) = l
  BY DEF High, Low
<1>3. /\ P \in SUBSET (DOMAIN events) /\ \A i \in P : i \in 1..Len(events) /\ IsHigh(events[i])
      /\ R \in SUBSET (DOMAIN events) /\ \A i \in R : i \in 1..Len(events) /\ ~IsHigh(events[i])
      /\ \A i \in 1..Len(events) : IsHigh(events[i]) => i \in P
  BY <1>1
<1> HIDE DEF P, R
<1>4. /\ h \in Seq(Recorded) /\ Len(h) = Cardinality(P) /\ Cardinality(P) \in Nat
      /\ \A k \in 1..Cardinality(P) : InOrder(P)[k] \in P /\ h[k] = events[InOrder(P)[k]]
      /\ \A j \in P : \E k \in 1..Cardinality(P) : h[k] = events[j]
      /\ \A j, k \in 1..Cardinality(P) : j < k => InOrder(P)[j] < InOrder(P)[k]
  BY <1>1, <1>3, ElementsAtFacts
<1>5. /\ l \in Seq(Recorded) /\ Len(l) = Cardinality(R) /\ Cardinality(R) \in Nat
      /\ \A k \in 1..Cardinality(R) : InOrder(R)[k] \in R /\ l[k] = events[InOrder(R)[k]]
      /\ \A j, k \in 1..Cardinality(R) : j < k => InOrder(R)[j] < InOrder(R)[k]
  BY <1>1, <1>3, ElementsAtFacts
<1> HIDE DEF h, l
<1>6. \A k \in 1..Len(h) : IsHigh(h[k])
  BY <1>3, <1>4
<1>7. \A k \in 1..Len(l) : ~IsHigh(l[k])
  BY <1>3, <1>5
<1>8. SortedAt(h, 1..Len(h))
  <2> SUFFICES ASSUME NEW j \in 1..Len(h), NEW k \in 1..Len(h), j < k
               PROVE  h[j].at <= h[k].at
    BY DEF SortedAt
  <2>1. /\ InOrder(P)[j] \in 1..Len(events) /\ h[j] = events[InOrder(P)[j]]
        /\ InOrder(P)[k] \in 1..Len(events) /\ h[k] = events[InOrder(P)[k]]
        /\ InOrder(P)[j] < InOrder(P)[k]
    BY <1>3, <1>4
  <2> QED BY <1>1, <2>1
<1>9. \A j, k \in 1..Len(l) : j < k => /\ l[j].at <= l[k].at
                                       /\ l[j].id < l[k].id
  <2> SUFFICES ASSUME NEW j \in 1..Len(l), NEW k \in 1..Len(l), j < k
               PROVE  l[j].at <= l[k].at /\ l[j].id < l[k].id
    OBVIOUS
  <2>1. /\ InOrder(R)[j] \in 1..Len(events) /\ l[j] = events[InOrder(R)[j]]
        /\ InOrder(R)[k] \in 1..Len(events) /\ l[k] = events[InOrder(R)[k]]
        /\ InOrder(R)[j] < InOrder(R)[k]
    BY <1>3, <1>5
  <2> QED BY <1>1, <2>1
<1>10. \A k \in 1..Len(l) : l[k].id \in Nat
  BY <1>1, <1>3, <1>5
<1>11. \A i \in 1..Len(events) : IsHigh(events[i]) => events[i] \in ToSet(h)
  <2> SUFFICES ASSUME NEW i \in 1..Len(events), IsHigh(events[i])
               PROVE  events[i] \in ToSet(h)
    OBVIOUS
  <2>1. PICK k \in 1..Cardinality(P) : h[k] = events[i]
    BY <1>3, <1>4
  <2>2. k \in DOMAIN h
    BY <1>4
  <2> QED BY <2>1, <2>2 DEF ToSet
<1>12. SortedAt(l, 1..Len(l))
  BY <1>9 DEF SortedAt
<1> QED BY <1>2, <1>4, <1>5, <1>6, <1>7, <1>8, <1>9, <1>10, <1>11, <1>12

Budget == BudgetForLowSignal(High(events))

(* The timeline of a package: the high-signal events of the window and the *)
(* sample of the others, in the order of their timestamps.                 *)
LEMMA TimelineOfWindow ==
  ASSUME WindowInv, Built
  PROVE  /\ High(evidence.timeline) = High(events)
         /\ Low(evidence.timeline) = Downsample(Low(events), Budget)
         /\ Budget \in Nat
         /\ evidence.timeline \in Seq(Recorded)
         /\ Len(evidence.timeline) = Len(High(events)) + Len(Downsample(Low(events), Budget))
         /\ SortedAt(evidence.timeline, DOMAIN evidence.timeline)
         /\ evidence.correlations = Correlate(events, createdAt)
<1> DEFINE h == High(events)
           l == Low(events)
           d == Downsample(l, Budget)
           n == Len(l)
           m == IF n <= Budget THEN n ELSE Budget
<1>1. /\ evidence.timeline = BuildTimeline(events)
      /\ evidence.correlations = Correlate(events, createdAt)
  BY DEF WindowInv, Built, BuildEvidence
<1>2. Chronological(events) = events
  <2>1. events \in Seq(Recorded) /\ SortedAt(events, DOMAIN events)
    BY DEF WindowInv
  <2> QED BY <2>1, RecordedTimed, SortedUnchanged
<1>3. evidence.timeline = Chronological(h \o d)
  BY <1>1, <1>2 DEF BuildTimeline, Budget
<1>4. /\ h \in Seq(Recorded) /\ l \in Seq(Recorded)
      /\ \A k \in 1..Len(h) : IsHigh(h[k])
      /\ \A k \in 1..n : ~IsHigh(l[k])
      /\ SortedAt(h, 1..Len(h)) /\ SortedAt(l, 1..n)
  BY KindsOfWindow
<1> HIDE DEF h, l
<1>5. Budget \in Nat
  BY <1>4, TimelineAssumption DEF Budget, BudgetForLowSignal, h
<1>6. /\ d \in Seq(Recorded) /\ Len(d) = m /\ m \in Nat
      /\ \A k \in 1..m : SamplePlace(k, n, Budget) \in 1..n /\ d[k] = l[SamplePlace(k, n, Budget)]
      /\ \A j, k \in 1..m : j < k => SamplePlace(j, n, Budget) < SamplePlace(k, n, Budget)
  <2>1. n = Len(l) /\ m = (IF n <= Budget THEN n ELSE Budget)
    OBVIOUS
  <2> HIDE DEF n, m
  <2>2. /\ Downsample(l, Budget) \in Seq(Recorded) /\ Len(Downsample(l, Budget)) = m /\ m \in Nat
        /\ \A k \in 1..m : /\ SamplePlace(k, n, Budget) \in 1..n
                           /\ Downsample(l, Budget)[k] = l[SamplePlace(k, n, Budget)]
        /\ \A j, k \in 1..m : j < k => SamplePlace(j, n, Budget) < SamplePlace(k, n, Budget)
    <3>1. l \in Seq(Recorded) /\ Budget \in Nat
      BY <1>4, <1>5
    <3>2. /\ Downsample(l, Budget) \in Seq(Recorded) /\ Len(Downsample(l, Budget)) = m /\ m \in Nat
      BY <2>1, <3>1, DownsampleFacts
    <3>3. \A k \in 1..m : /\ SamplePlace(k, n, Budget) \in 1..n
                           /\ Downsample(l, Budget)[k] = l[SamplePlace(k, n, Budget)]
      <4>1. TakenFrom(Downsample(l, Budget), l, m, n, Budget)
        BY <2>1, <3>1, DownsampleFacts
      <4> QED BY <4>1 DEF TakenFrom
    <3>4. \A j, k \in 1..m : j < k => SamplePlace(j, n, Budget) < SamplePlace(k, n, Budget)
      BY <2>1, <3>1, DownsampleFacts
    <3> QED BY <3>2, <3>3, <3>4
  <2> QED BY <2>2
<1> HIDE DEF d, m
<1>7. \A k \in 1..Len(d) : ~IsHigh(d[k])
  BY <1>4, <1>6
<1>8. SortedAt(d, 1..Len(d))
  <2> SUFFICES ASSUME NEW j \in 1..m, NEW k \in 1..m, j < k
               PROVE  d[j].at <= d[k].at
    BY <1>6 DEF SortedAt
  <2>1. /\ SamplePlace(j, n, Budget) \in 1..n /\ d[j] = l[SamplePlace(j, n, Budget)]
        /\ SamplePlace(k, n, Budget) \in 1..n /\ d[k] = l[SamplePlace(k, n, Budget)]
        /\ SamplePlace(j, n, Budget) < SamplePlace(k, n, Budget)
    BY <1>6
  <2> QED BY <1>4, <2>1 DEF SortedAt
<1>9. /\ High(evidence.timeline) = h /\ Low(evidence.timeline) = d
      /\ evidence.timeline \in Seq(Recorded) /\ Len(evidence.timeline) = Len(h) + Len(d)
      /\ SortedAt(evidence.timeline, DOMAIN evidence.timeline)
  BY <1>3, <1>4, <1>6, <1>7, <1>8, RecordedTimed, JoinedAndSorted
<1> QED BY <1>1, <1>5, <1>9 DEF h, l, d

-----------------------------------------------------------------------------
(***************************************************************************)
(* What the findings quote.                                                *)
(***************************************************************************)

LEMMA MinAndMax ==
  ASSUME NEW n \in Nat, NEW P \in SUBSET (1..n), P # {}
  PROVE  /\ Min(P) \in P /\ \A i \in P : Min(P) <= i
         /\ Max(P) \in P /\ \A i \in P : i <= Max(P)
<1>1. \E i \in P : \A j \in P : i <= j
  <2>1. P \in SUBSET Nat
    OBVIOUS
  <2> QED BY <2>1, LeastNatural
<1>2. \E i \in P : \A j \in P : i >= j
  <2> DEFINE T == {n - i : i \in P}
  <2>0. \A i \in P : i \in Nat /\ n - i \in Nat
    OBVIOUS
  <2>1. T \in SUBSET Nat /\ T # {}
    BY <2>0
  <2>2. PICK t \in T : \A u \in T : t <= u
    <3> HIDE DEF T
    <3> QED BY <2>1, LeastNatural
  <2>3. PICK i \in P : t = n - i
    OBVIOUS
  <2>4. \A j \in P : n - i <= n - j
    BY <2>2, <2>3
  <2>5. \A j \in P : i >= j
    BY <2>4
  <2> QED BY <2>5
<1>3. Min(P) \in P /\ \A i \in P : Min(P) <= i
  BY <1>1 DEF Min
<1>4. Max(P) \in P /\ \A i \in P : Max(P) >= i
  BY <1>2 DEF Max
<1>5. \A i \in P : i <= Max(P)
  BY <1>4
<1> QED BY <1>3, <1>4, <1>5

LEMMA JoinedSet ==
  ASSUME NEW E, NEW s \in Seq(E), NEW t \in Seq(E)
  PROVE  ToSet(s \o t) = ToSet(s) \cup ToSet(t)
<1>1. /\ Len(s) \in Nat /\ Len(t) \in Nat /\ DOMAIN s = 1..Len(s) /\ DOMAIN t = 1..Len(t)
      /\ DOMAIN (s \o t) = 1..(Len(s) + Len(t))
      /\ \A i \in 1..Len(s) : (s \o t)[i] = s[i]
      /\ \A i \in 1..Len(t) : (s \o t)[Len(s) + i] = t[i]
  OBVIOUS
<1>2. \A i \in 1..(Len(s) + Len(t)) : i \in 1..Len(s) \/ (i - Len(s) \in 1..Len(t) /\ i = Len(s) + (i - Len(s)))
  BY <1>1
<1>3. ASSUME NEW x \in ToSet(s \o t) PROVE x \in ToSet(s) \cup ToSet(t)
  <2>1. PICK i \in 1..(Len(s) + Len(t)) : x = (s \o t)[i]
    BY <1>1 DEF ToSet
  <2>2. CASE i \in 1..Len(s)
    BY <1>1, <2>1, <2>2 DEF ToSet
  <2>3. CASE i - Len(s) \in 1..Len(t) /\ i = Len(s) + (i - Len(s))
    <3>1. x = t[i - Len(s)]
      BY <1>1, <2>1, <2>3
    <3> QED BY <1>1, <2>3, <3>1 DEF ToSet
  <2> QED BY <1>2, <2>2, <2>3
<1>4. ASSUME NEW x \in ToSet(s) PROVE x \in ToSet(s \o t)
  <2>1. PICK i \in 1..Len(s) : x = s[i]
    BY <1>1 DEF ToSet
  <2>2. i \in 1..(Len(s) + Len(t)) /\ x = (s \o t)[i]
    BY <1>1, <2>1
  <2> QED BY <1>1, <2>2 DEF ToSet
<1>5. ASSUME NEW x \in ToSet(t) PROVE x \in ToSet(s \o t)
  <2>1. PICK i \in 1..Len(t) : x = t[i]
    BY <1>1 DEF ToSet
  <2>2. Len(s) + i \in 1..(Len(s) + Len(t)) /\ x = (s \o t)[Len(s) + i]
    BY <1>1, <2>1
  <2> QED BY <1>1, <2>2 DEF ToSet
<1> QED BY <1>3, <1>4, <1>5

HighEvents == {e \in ToSet(events) : IsHigh(e)}

(* A crash finding quotes a report and a termination of the window.        *)
LEMMA CrashFindings ==
  ASSUME WindowInv
  PROVE  CrashToLifecycle(events) \in Seq([kind : {"crash_matches_termination"}, quotes : SUBSET HighEvents])
<1> DEFINE ended == {e.pid : e \in ToSet(OfType(events, "process.terminated"))} \ {NoPid}
           C == {i \in DOMAIN events : events[i].type = "os.crash_report" /\ events[i].pid \in ended}
           P == {i \in DOMAIN events : events[i].type = "process.terminated"}
           matched == ElementsAt(events, C)
           F == [kind : {"crash_matches_termination"}, quotes : SUBSET HighEvents]
<1>1. events \in Seq(Recorded) /\ DOMAIN events = 1..Len(events) /\ Len(events) \in Nat
  BY DEF WindowInv
<1>2. CrashToLifecycle(events) =
        [i \in DOMAIN matched |-> [kind |-> "crash_matches_termination",
                                   quotes |-> {matched[i], TerminationOf(matched[i].pid, events)}]]
  BY DEF CrashToLifecycle
<1>3. ASSUME NEW p \in ended
      PROVE  TerminationOf(p, events) \in HighEvents
  <2> DEFINE T == {i \in DOMAIN events : events[i].type = "process.terminated" /\ events[i].pid = p}
  <2>1. PICK e \in ToSet(OfType(events, "process.terminated")) : e.pid = p
    OBVIOUS
  <2>2. OfType(events, "process.terminated") = ElementsAt(events, P) /\ P \in SUBSET (DOMAIN events)
    BY DEF OfType
  <2>3. PICK k \in DOMAIN ElementsAt(events, P) : e = ElementsAt(events, P)[k]
    BY <2>1, <2>2 DEF ToSet
  <2>4. InOrder(P)[k] \in P /\ e = events[InOrder(P)[k]]
    <3> HIDE DEF P
    <3> QED BY <1>1, <2>2, <2>3, ElementsAtFacts
  <2>5. T # {} /\ T \in SUBSET (1..Len(events))
    BY <1>1, <2>1, <2>4
  <2>6. Max(T) \in T
    <3> HIDE DEF T
    <3> QED BY <1>1, <2>5, MinAndMax
  <2>7. TerminationOf(p, events) = events[Max(T)]
    BY DEF TerminationOf
  <2>8. Max(T) \in DOMAIN events /\ events[Max(T)].type = "process.terminated"
    BY <2>6
  <2> QED BY <2>7, <2>8 DEF HighEvents, IsHigh, HighSignal, ToSet
<1>4. C \in SUBSET (DOMAIN events)
  OBVIOUS
<1>5. ASSUME NEW i \in DOMAIN matched
      PROVE  matched[i] \in HighEvents /\ matched[i].pid \in ended
  <2>1. InOrder(C)[i] \in C /\ matched[i] = events[InOrder(C)[i]]
    <3> HIDE DEF C
    <3> QED BY <1>1, <1>4, ElementsAtFacts
  <2> HIDE DEF matched, ended
  <2>2. InOrder(C)[i] \in DOMAIN events /\ events[InOrder(C)[i]].type = "os.crash_report"
    BY <2>1
  <2>3. matched[i].pid \in ended
    BY <2>1
  <2> QED BY <2>1, <2>2, <2>3 DEF HighEvents, IsHigh, HighSignal, ToSet
<1>6. \E n \in Nat : DOMAIN matched = 1..n
  <2> HIDE DEF C
  <2> QED BY <1>1, <1>4, ElementsAtFacts
<1> HIDE DEF ended, C, P, matched
<1>7. ASSUME NEW i \in DOMAIN matched
      PROVE  [kind |-> "crash_matches_termination",
              quotes |-> {matched[i], TerminationOf(matched[i].pid, events)}] \in F
  <2> DEFINE quoted == {matched[i], TerminationOf(matched[i].pid, events)}
  <2>1. quoted \in SUBSET HighEvents
    BY <1>3, <1>5
  <2> HIDE DEF quoted
  <2>2. [kind |-> "crash_matches_termination", quotes |-> quoted] \in F
    BY <2>1
  <2> QED BY <2>2 DEF quoted
<1> HIDE DEF F
<1>8. CrashToLifecycle(events) \in [DOMAIN matched -> F]
  BY <1>2, <1>7
<1>9. PICK n \in Nat : DOMAIN matched = 1..n
  BY <1>6
<1>10. CrashToLifecycle(events) \in Seq(F)
  BY <1>8, <1>9
<1> QED BY <1>10 DEF F

(* Of finitely many numbers one is the greatest.                           *)
LEMMA Greatest ==
  ASSUME NEW n \in Nat, n > 0, NEW v \in [1..n -> Nat]
  PROVE  \E i \in 1..n : \A j \in 1..n : v[j] <= v[i]
<1> DEFINE Tops(k) == \E i \in 1..k : \A j \in 1..k : v[j] <= v[i]
           Bad == {k \in 1..n : ~Tops(k)}
<1>1. CASE Bad = {}
  <2>1. n \in 1..n /\ n \notin Bad
    <3>1. n \in 1..n
      OBVIOUS
    <3> HIDE DEF Bad
    <3> QED BY <1>1, <3>1
  <2>2. Tops(n)
    <3> HIDE DEF Tops
    <3> QED BY <2>1
  <2> QED BY <2>2
<1>2. CASE Bad # {}
  <2>1. PICK k \in Bad : \A l \in Bad : k <= l
    <3>1. Bad \in SUBSET Nat
      OBVIOUS
    <3> HIDE DEF Bad
    <3> QED BY <1>2, <3>1, LeastNatural
  <2>2. k \in 1..n /\ ~Tops(k)
    OBVIOUS
  <2>3. k # 1
    <3>1. Tops(1)
      OBVIOUS
    <3> QED BY <2>2, <3>1
  <2>4. k - 1 \in 1..n /\ ~(k <= k - 1)
    BY <2>2, <2>3
  <2>5. Tops(k - 1)
    BY <2>1, <2>4
  <2>6. PICK i \in 1..(k - 1) : \A j \in 1..(k - 1) : v[j] <= v[i]
    BY <2>5
  <2>7. i \in 1..k /\ k \in 1..k /\ v[i] \in Nat /\ v[k] \in Nat
    BY <2>2, <2>6
  <2>8. \A j \in 1..k : j = k \/ j \in 1..(k - 1)
    BY <2>2
  <2>9. CASE v[k] <= v[i]
    BY <2>2, <2>6, <2>7, <2>8, <2>9
  <2>10. CASE v[i] <= v[k]
    <3>1. \A j \in 1..k : v[j] \in Nat
      BY <2>2
    <3>2. \A j \in 1..k : v[j] <= v[k]
      BY <2>6, <2>7, <2>8, <2>10, <3>1
    <3> QED BY <2>2, <2>7, <3>2
  <2> QED BY <2>7, <2>9, <2>10
<1> QED BY <1>1, <1>2

(* The events of one type are events of the window, of that type.          *)
LEMMA OfTypeFacts ==
  ASSUME WindowInv, NEW type, NEW s, s = OfType(events, type)
  PROVE  /\ s \in Seq(Recorded)
         /\ \A i \in 1..Len(s) : s[i] \in ToSet(events) /\ s[i].type = type
<1> DEFINE P == {i \in DOMAIN events : events[i].type = type}
<1>1. s = ElementsAt(events, P) /\ P \in SUBSET DOMAIN events /\ events \in Seq(Recorded)
  BY DEF OfType, WindowInv
<1>2. \A i \in P : events[i] \in ToSet(events) /\ events[i].type = type
  BY DEF ToSet
<1> HIDE DEF P
<1> QED BY <1>1, <1>2, ElementsAtFacts

(* The time and the load an event records are numbers.                     *)
LEMMA RecordedNumbers ==
  ASSUME NEW e \in Recorded
  PROVE  e.at \in Nat /\ e.cpu \in Nat
<1>1. e.at \in Nat /\ e.cpu \in {kind.cpu : kind \in Kinds}
  BY DEF Recorded
<1>2. \A c \in {kind.cpu : kind \in Kinds} : c \in Nat
  BY ViewAssumption
<1> QED BY <1>1, <1>2

(* max() and min() return a member of the list.                            *)
LEMMA PeakAndClosest ==
  ASSUME NEW s \in Seq(Recorded), s # <<>>, NEW t \in Nat
  PROVE  (\E i \in 1..Len(s) : Peak(s) = s[i]) /\ (\E i \in 1..Len(s) : Closest(s, t) = s[i])
<1> DEFINE n == Len(s)
<1>1. n \in Nat /\ n > 0 /\ DOMAIN s = 1..n /\ \A i \in 1..n : s[i].cpu \in Nat /\ s[i].at \in Nat
  <2>1. n \in Nat /\ n > 0 /\ DOMAIN s = 1..n
    OBVIOUS
  <2>2. \A i \in 1..n : s[i] \in Recorded
    OBVIOUS
  <2>3. \A i \in 1..n : s[i].cpu \in Nat /\ s[i].at \in Nat
    BY <2>2, RecordedNumbers
  <2> QED BY <2>1, <2>3
<1> HIDE DEF n
<1>2. \E i \in 1..n : Peak(s) = s[i]
  <2> DEFINE v == [i \in 1..n |-> s[i].cpu]
             S == {s[i].cpu : i \in DOMAIN s}
             T == {i \in DOMAIN s : s[i].cpu = Max(S)}
  <2>1. v \in [1..n -> Nat]
    BY <1>1
  <2>2. PICK i \in 1..n : \A j \in 1..n : v[j] <= v[i]
    <3> HIDE DEF v
    <3> QED BY <1>1, <2>1, Greatest
  <2>3. s[i].cpu \in S /\ \A x \in S : s[i].cpu >= x
    BY <1>1, <2>2
  <2>4. Max(S) \in S
    <3> HIDE DEF S
    <3> QED BY <2>3 DEF Max
  <2>5. T # {} /\ T \in SUBSET (1..n)
    BY <1>1, <2>4
  <2>6. Peak(s) = s[Min(T)]
    BY DEF Peak
  <2> HIDE DEF T
  <2> QED BY <1>1, <2>5, <2>6, MinAndMax
<1>3. \E i \in 1..n : Closest(s, t) = s[i]
  <2> DEFINE S == {Distance(s[i].at, t) : i \in DOMAIN s}
             T == {i \in DOMAIN s : Distance(s[i].at, t) = Min(S)}
  <2>1. \A i \in 1..n : Distance(s[i].at, t) \in Nat
    BY <1>1 DEF Distance
  <2>2. S \in SUBSET Nat /\ S # {}
    <3>1. S \in SUBSET Nat
      BY <1>1, <2>1
    <3>2. 1 \in DOMAIN s
      BY <1>1
    <3>3. Distance(s[1].at, t) \in S
      BY <3>2
    <3> QED BY <3>1, <3>3
  <2>3. Min(S) \in S
    <3>1. PICK x \in S : \A y \in S : x <= y
      <4> HIDE DEF S
      <4> QED BY <2>2, LeastNatural
    <3> HIDE DEF S
    <3> QED BY <3>1 DEF Min
  <2>4. T # {} /\ T \in SUBSET (1..n)
    BY <1>1, <2>3
  <2>5. Closest(s, t) = s[Min(T)]
    BY DEF Closest
  <2> HIDE DEF T
  <2> QED BY <1>1, <2>4, <2>5, MinAndMax
<1> QED BY <1>2, <1>3 DEF n

(* The finding of a CPU spike quotes two events of the window.             *)
LEMMA SpikeQuotesWindow ==
  ASSUME WindowInv
  PROVE  \A f \in ToSet(ResourceSpikeToProcess(events)) : f.quotes \subseteq ToSet(events)
<1> DEFINE metrics == OfType(events, "system.metrics")
           snapshots == OfType(events, "process.snapshot")
           peak == Peak(metrics)
           closest == Closest(snapshots, peak.at)
           spike == [kind |-> "cpu_spike_process", quotes |-> {peak, closest}]
<1>1. /\ metrics \in Seq(Recorded) /\ \A i \in 1..Len(metrics) : metrics[i] \in ToSet(events)
      /\ snapshots \in Seq(Recorded) /\ \A i \in 1..Len(snapshots) : snapshots[i] \in ToSet(events)
  BY OfTypeFacts
<1>2. \/ ResourceSpikeToProcess(events) = <<>>
      \/ /\ ResourceSpikeToProcess(events) = <<spike>>
         /\ metrics # <<>> /\ snapshots # <<>>
  BY DEF ResourceSpikeToProcess
<1> HIDE DEF metrics, snapshots
<1>3. ASSUME metrics # <<>>, snapshots # <<>> PROVE {peak, closest} \subseteq ToSet(events)
  <2>1. PICK i \in 1..Len(metrics) : peak = metrics[i]
    <3>1. 0 \in Nat
      OBVIOUS
    <3> QED BY <1>1, <1>3, <3>1, PeakAndClosest
  <2>2. peak.at \in Nat
    <3>1. metrics[i] \in Recorded
      BY <1>1
    <3> HIDE DEF peak
    <3> QED BY <2>1, <3>1, RecordedNumbers
  <2> HIDE DEF peak
  <2>3. \E j \in 1..Len(snapshots) : closest = snapshots[j]
    BY <1>1, <1>3, <2>2, PeakAndClosest
  <2> QED BY <1>1, <2>1, <2>3
<1> DEFINE quoted == {peak, closest}
<1>4. spike.quotes = quoted
  OBVIOUS
<1> HIDE DEF spike, quoted
<1>5. \A f \in ToSet(ResourceSpikeToProcess(events)) :
        f = spike /\ metrics # <<>> /\ snapshots # <<>>
  BY <1>2 DEF ToSet
<1> QED BY <1>3, <1>4, <1>5 DEF quoted

LEMMA FindingsQuoteWindow ==
  ASSUME WindowInv, NEW trigger
  PROVE  \A f \in ToSet(Correlate(events, trigger)) :
            /\ f.quotes \subseteq ToSet(events)
            /\ f.kind # "cpu_spike_process" => f.quotes \subseteq HighEvents
<1> DEFINE crashes == CrashToLifecycle(events)
           spikes == ResourceSpikeToProcess(events)
           recent == RecentTerminalActivity(events, trigger)
           metrics == OfType(events, "system.metrics")
           snapshots == OfType(events, "process.snapshot")
           spike == [kind |-> "cpu_spike_process",
                     quotes |-> {Peak(metrics), Closest(snapshots, Peak(metrics).at)}]
           commands == {e \in ToSet(events) :
                          e.type = "terminal.command" /\ trigger - e.at \in 0..TerminalWindow}
           command == [kind |-> "recent_terminal_commands", quotes |-> commands]
           F == [kind : {"crash_matches_termination"}, quotes : SUBSET HighEvents]
           E == F \cup {spike, command}
<1>1. crashes \in Seq(F)
  BY CrashFindings
<1>2. spikes = <<>> \/ spikes = <<spike>>
  BY DEF ResourceSpikeToProcess
<1>3. recent = <<>> \/ recent = <<command>>
  BY DEF RecentTerminalActivity
<1>4. commands \subseteq HighEvents
  BY DEF HighEvents, IsHigh, HighSignal
<1>5. Correlate(events, trigger) = (crashes \o spikes) \o recent
  BY DEF Correlate
<1>6. spike.kind = "cpu_spike_process" /\ command.quotes = commands
  OBVIOUS
<1>7. \A f \in F : f.quotes \subseteq HighEvents
  OBVIOUS
<1> HIDE DEF crashes, spikes, recent, spike, command, commands, F
<1>8. crashes \in Seq(E)
  <2>1. Len(crashes) \in Nat /\ crashes \in [1..Len(crashes) -> F]
    BY <1>1
  <2>2. crashes \in [1..Len(crashes) -> E]
    BY <2>1
  <2> QED BY <2>1, <2>2
<1>9. spikes \in Seq(E) /\ recent \in Seq(E)
  <2>1. spike \in E /\ command \in E
    OBVIOUS
  <2> HIDE DEF E
  <2>2. <<>> \in Seq(E) /\ <<spike>> \in Seq(E) /\ <<command>> \in Seq(E)
    BY <2>1
  <2> QED BY <1>2, <1>3, <2>2
<1>10. ToSet(crashes) \subseteq F
  BY <1>1 DEF ToSet
<1>11. ToSet(spikes) \subseteq {spike}
  BY <1>2 DEF ToSet
<1>12. ToSet(recent) \subseteq {command}
  BY <1>3 DEF ToSet
<1> HIDE DEF E
<1>13. crashes \o spikes \in Seq(E)
  BY <1>8, <1>9
<1>14. ToSet(Correlate(events, trigger)) = (ToSet(crashes) \cup ToSet(spikes)) \cup ToSet(recent)
  <2>1. ToSet(crashes \o spikes) = ToSet(crashes) \cup ToSet(spikes)
    BY <1>8, <1>9, JoinedSet
  <2>2. ToSet((crashes \o spikes) \o recent) = ToSet(crashes \o spikes) \cup ToSet(recent)
    BY <1>9, <1>13, JoinedSet
  <2> QED BY <1>5, <2>1, <2>2
<1>15. HighEvents \subseteq ToSet(events)
  BY DEF HighEvents
<1>16. \A f \in ToSet(spikes) : f.quotes \subseteq ToSet(events)
  BY SpikeQuotesWindow DEF spikes
<1> QED BY <1>4, <1>6, <1>7, <1>10, <1>11, <1>12, <1>14, <1>15, <1>16

(* The high-signal events of the window are in the timeline.               *)
LEMMA HighEventsShown ==
  ASSUME WindowInv, Built
  PROVE  HighEvents \subseteq ToSet(evidence.timeline)
<1> DEFINE t == evidence.timeline
           P == {i \in DOMAIN t : IsHigh(t[i])}
<1>1. High(t) = High(events) /\ t \in Seq(Recorded)
  BY TimelineOfWindow
<1>2. High(t) = ElementsAt(t, P) /\ P \in SUBSET (DOMAIN t)
  BY DEF High
<1> HIDE DEF t
<1> SUFFICES ASSUME NEW e \in HighEvents PROVE e \in ToSet(t)
  BY DEF t
<1>3. e \in ToSet(High(events))
  <2>1. PICK i \in DOMAIN events : e = events[i] /\ IsHigh(events[i])
    BY DEF HighEvents, ToSet
  <2>2. i \in 1..Len(events)
    BY <2>1 DEF WindowInv
  <2> QED BY <2>1, <2>2, KindsOfWindow
<1>4. PICK k \in DOMAIN High(t) : e = High(t)[k]
  BY <1>1, <1>3 DEF ToSet
<1> HIDE DEF P
<1>5. InOrder(P)[k] \in P /\ High(t)[k] = t[InOrder(P)[k]]
  BY <1>1, <1>2, <1>4, ElementsAtFacts
<1> QED BY <1>2, <1>4, <1>5 DEF ToSet

(* With room for all the others, the whole window is in the timeline.      *)
LEMMA AllEventsShown ==
  ASSUME WindowInv, Built, Len(Low(events)) <= Budget
  PROVE  ToSet(events) \subseteq ToSet(evidence.timeline)
<1> DEFINE t == evidence.timeline
           P == {i \in DOMAIN t : ~IsHigh(t[i])}
           R == {i \in DOMAIN events : ~IsHigh(events[i])}
<1>1. Low(t) = Low(events) /\ t \in Seq(Recorded)
  BY TimelineOfWindow DEF Downsample
<1>2. Low(t) = ElementsAt(t, P) /\ P \in SUBSET (DOMAIN t)
  BY DEF Low
<1>3. Low(events) = ElementsAt(events, R) /\ R \in SUBSET (DOMAIN events) /\ events \in Seq(Recorded)
  BY DEF Low, WindowInv
<1>4. HighEvents \subseteq ToSet(t)
  BY HighEventsShown
<1> HIDE DEF t
<1> SUFFICES ASSUME NEW i \in DOMAIN events PROVE events[i] \in ToSet(t)
  BY DEF t, ToSet
<1>5. CASE IsHigh(events[i])
  BY <1>4, <1>5 DEF HighEvents, ToSet
<1>6. CASE ~IsHigh(events[i])
  <2>1. i \in R
    BY <1>6
  <2> HIDE DEF P, R
  <2>2. PICK k \in DOMAIN Low(events) : Low(events)[k] = events[i]
    BY <1>3, <2>1, ElementsAtFacts
  <2>3. k \in DOMAIN ElementsAt(t, P) /\ ElementsAt(t, P)[k] = events[i]
    BY <1>1, <1>2, <2>2
  <2>4. InOrder(P)[k] \in P /\ ElementsAt(t, P)[k] = t[InOrder(P)[k]]
    BY <1>1, <1>2, <2>3, ElementsAtFacts
  <2> QED BY <1>2, <2>3, <2>4 DEF ToSet
<1> QED BY <1>5, <1>6

(* The signal is kept, whatever the window, the budget and the rounding.   *)
THEOREM SignalKeptHolds == Spec => []SignalKept
<1>1. WindowInv => SignalKept
  <2> SUFFICES ASSUME WindowInv, Built PROVE SignalKept
    BY DEF SignalKept
  <2> DEFINE t == evidence.timeline
             h == High(events)
             d == Downsample(Low(events), Budget)
  <2>1. /\ High(t) = h /\ t \in Seq(Recorded) /\ Len(t) = Len(h) + Len(d)
        /\ SortedAt(t, DOMAIN t) /\ Low(t) = d /\ Budget \in Nat
        /\ evidence.correlations = Correlate(events, createdAt)
    BY TimelineOfWindow
  <2>2. h \in Seq(Recorded) /\ Low(events) \in Seq(Recorded)
    BY KindsOfWindow
  <2>3. Len(d) \in Nat /\ Len(d) <= Budget
    <3> DEFINE n == Len(Low(events))
               m == IF n <= Budget THEN n ELSE Budget
    <3>1. n = Len(Low(events)) /\ m = (IF n <= Budget THEN n ELSE Budget) /\ n \in Nat
      BY <2>2
    <3>2. m <= Budget
      BY <2>1, <3>1
    <3> HIDE DEF n, m
    <3>3. Low(events) \in Seq(Recorded) /\ Budget \in Nat
      BY <2>1, <2>2
    <3>4. Len(d) = m /\ m \in Nat
      BY <3>1, <3>3, DownsampleFacts
    <3> QED BY <3>2, <3>4
  <2>4. Len(h) < MaxEvents => Budget = MaxEvents - Len(h)
    BY DEF Budget, BudgetForLowSignal
  <2>5. ~(Len(h) < MaxEvents) => Budget = 0
    BY DEF Budget, BudgetForLowSignal
  <2>6. \A f \in ToSet(evidence.correlations) :
          /\ f.quotes \subseteq ToSet(events)
          /\ \/ f.quotes \subseteq ToSet(t)
             \/ f.kind = "cpu_spike_process" /\ Len(Lows) > BudgetForLowSignal(Highs)
    <3> DEFINE room == Len(Low(events)) <= Budget
    <3>1. room => ToSet(events) \subseteq ToSet(t)
      BY AllEventsShown
    <3>2. ~room => Len(Lows) > BudgetForLowSignal(Highs)
      <4>1. Len(Low(events)) \in Nat
        BY <2>2
      <4> QED BY <2>1, <4>1 DEF Lows, Highs, Budget
    <3>3. HighEvents \subseteq ToSet(t)
      BY HighEventsShown
    <3>4. \A f \in ToSet(evidence.correlations) :
            /\ f.quotes \subseteq ToSet(events)
            /\ f.kind # "cpu_spike_process" => f.quotes \subseteq HighEvents
      BY <2>1, FindingsQuoteWindow
    <3> HIDE DEF room, t
    <3> QED BY <3>1, <3>2, <3>3, <3>4
  <2>7. \A i, j \in DOMAIN t : i < j => t[i].at <= t[j].at
    BY <2>1 DEF SortedAt
  <2>8. Len(t) <= MaxEvents \/ t = h
    <3>1. CASE Len(h) < MaxEvents
      <4> HIDE DEF t, h, d
      <4> QED BY <2>1, <2>2, <2>3, <2>4, <3>1, TimelineAssumption
    <3>2. CASE ~(Len(h) < MaxEvents)
      <4>1. Len(d) = 0
        <5> HIDE DEF d, h
        <5> QED BY <2>3, <2>5, <3>2
      <4>2. {i \in DOMAIN t : ~IsHigh(t[i])} = {}
        <5> DEFINE L == {i \in DOMAIN t : ~IsHigh(t[i])}
        <5>1. Low(t) = ElementsAt(t, L) /\ L \in SUBSET (DOMAIN t)
          BY DEF Low
        <5> HIDE DEF L, t, d
        <5>2. Cardinality(L) = 0
          BY <2>1, <4>1, <5>1, ElementsAtFacts
        <5>3. IsFiniteSet(L)
          <6>1. DOMAIN t = 1..Len(t) /\ Len(t) \in Nat
            BY <2>1
          <6> QED BY <5>1, <6>1, InOrderIncreases
        <5> QED BY <5>2, <5>3, FS_EmptySet DEF L
      <4>3. {i \in DOMAIN t : IsHigh(t[i])} = (0 + 1)..(0 + Len(t))
        <5>1. DOMAIN t = 1..Len(t) /\ Len(t) \in Nat
          BY <2>1
        <5> HIDE DEF t
        <5> QED BY <4>2, <5>1
      <4>4. High(t) = t
        <5> HIDE DEF t
        <5>1. /\ 0 \in Nat /\ 0 + Len(t) <= Len(t) /\ Len(t) \in Nat
              /\ \A k \in 1..Len(t) : t[0 + k] = t[k]
          BY <2>1
        <5>2. ElementsAt(t, (0 + 1)..(0 + Len(t))) = t
          BY <2>1, <5>1, ElementsAtInterval
        <5> QED BY <4>3, <5>2 DEF High
      <4> QED BY <2>1, <4>4
    <3> QED BY <3>1, <3>2
  <2> QED BY <2>1, <2>6, <2>7, <2>8 DEF SignalKept, Highs
<1> QED BY <1>1, WindowInvariance, PTL

(* The rest is sampled evenly, whatever the window, the budget and the     *)
(* products that are rounded down.                                         *)
THEOREM SampledEvenlyHolds == Spec => []SampledEvenly
<1>1. WindowInv => SampledEvenly
  <2> SUFFICES ASSUME WindowInv, Built PROVE SampledEvenly
    BY DEF SampledEvenly
  <2> DEFINE l == Low(events)
             kept == Low(evidence.timeline)
             n == Len(l)
             b == Budget
             m == IF n <= b THEN n ELSE b
             Place(k) == IF k > Len(kept) THEN n + 1
                         ELSE CHOOSE i \in DOMAIN l : l[i] = kept[k]
             at == [k \in 1..(Len(kept) + 1) |-> Place(k)]
  <2>1. /\ l \in Seq(Recorded) /\ n \in Nat /\ DOMAIN l = 1..n
        /\ \A i \in 1..n : l[i].id \in Nat
        /\ \A i, j \in 1..n : i < j => l[i].id < l[j].id
    BY KindsOfWindow
  <2>2. kept = Downsample(l, b) /\ b \in Nat
    BY TimelineOfWindow
  <2>3. n = Len(l) /\ m = (IF n <= b THEN n ELSE b)
    OBVIOUS
  <2>4. m = IF n < b THEN n ELSE b
    BY <2>1, <2>2
  <2> HIDE DEF l, b, n, m, kept, Place
  <2>5. /\ Len(kept) = m /\ m \in Nat
        /\ TakenFrom(kept, l, m, n, b)
        /\ SamplePlace(1, n, b) = 1 \/ m = 0
        /\ SamplePlace(m + 1, n, b) = n + 1 \/ m = 0
        /\ \A k \in 1..m : SamplePlace(k + 1, n, b) - SamplePlace(k, n, b) \in 1..(n \div b + 1)
    <3>1. l \in Seq(Recorded) /\ b \in Nat
      BY <2>1, <2>2
    <3>2. Len(kept) = m /\ m \in Nat /\ TakenFrom(kept, l, m, n, b)
      BY <2>2, <2>3, <3>1, DownsampleFacts
    <3>3. SpreadOut(m, n, b)
      BY <2>3, <3>1, DownsampleFacts
    <3>4. \A k \in 1..m : m # 0
      BY <3>2
    <3> QED BY <3>2, <3>3, <3>4 DEF SpreadOut
  <2>6. ASSUME NEW k \in 1..m
        PROVE  Place(k) = SamplePlace(k, n, b)
    <3>1. SamplePlace(k, n, b) \in 1..n /\ kept[k] = l[SamplePlace(k, n, b)]
      BY <2>5 DEF TakenFrom
    <3>2. Place(k) = CHOOSE i \in DOMAIN l : l[i] = kept[k]
      BY <2>5 DEF Place
    <3>3. Place(k) \in 1..n /\ l[Place(k)] = kept[k]
      BY <2>1, <3>1, <3>2
    <3>4. l[Place(k)].id = l[SamplePlace(k, n, b)].id
      BY <3>1, <3>3
    <3> HIDE DEF SamplePlace
    <3>5. /\ l[Place(k)].id \in Nat
          /\ Place(k) < SamplePlace(k, n, b) => l[Place(k)].id < l[SamplePlace(k, n, b)].id
          /\ SamplePlace(k, n, b) < Place(k) => l[SamplePlace(k, n, b)].id < l[Place(k)].id
      BY <2>1, <3>1, <3>3
    <3> QED BY <3>1, <3>3, <3>4, <3>5
  <2>7. m # 0 => Place(m + 1) = SamplePlace(m + 1, n, b)
    <3>1. m + 1 > Len(kept)
      BY <2>5
    <3>2. Place(m + 1) = n + 1
      BY <3>1 DEF Place
    <3> QED BY <2>5, <3>2
  <2>8. \A k \in 1..(m + 1) : at[k] = Place(k)
    BY <2>5
  <2> HIDE DEF at
  <2>9. kept # <<>> => at[1] = 1
    <3>1. kept # <<>> => m # 0
      <4>1. Downsample(l, b) \in Seq(Recorded)
        BY <2>1, <2>2, <2>3, DownsampleFacts
      <4>2. kept \in Seq(Recorded)
        BY <2>2, <4>1
      <4> QED BY <2>5, <4>2
    <3>2. m # 0 => 1 \in 1..m /\ 1 \in 1..(m + 1)
      BY <2>5
    <3> QED BY <2>5, <2>6, <2>8, <3>1, <3>2
  <2>10. ASSUME NEW k \in 1..m
         PROVE  at[k + 1] - at[k] \in 1..(n \div b + 1)
    <3>1. m # 0 /\ k \in 1..(m + 1) /\ k + 1 \in 1..(m + 1) /\ (k + 1 \in 1..m \/ k + 1 = m + 1)
      BY <2>5
    <3>2. at[k] = SamplePlace(k, n, b)
      BY <2>6, <2>8, <3>1
    <3>3. at[k + 1] = SamplePlace(k + 1, n, b)
      <4>1. CASE k + 1 \in 1..m
        BY <2>6, <2>8, <3>1, <4>1
      <4>2. CASE k + 1 = m + 1
        BY <2>7, <2>8, <3>1, <4>2
      <4> QED BY <3>1, <4>1, <4>2
    <3>4. SamplePlace(k + 1, n, b) - SamplePlace(k, n, b) \in 1..(n \div b + 1)
      BY <2>5
    <3> QED BY <3>2, <3>3, <3>4
  <2>11. DOMAIN kept = 1..m
    <3>1. Downsample(l, b) \in Seq(Recorded)
      BY <2>1, <2>2, <2>3, DownsampleFacts
    <3>2. kept \in Seq(Recorded)
      BY <2>2, <3>1
    <3> QED BY <2>5, <3>2
  <2>12. /\ Len(kept) = IF n < b THEN n ELSE b
         /\ kept # <<>> => at[1] = 1
         /\ \A k \in DOMAIN kept : at[k + 1] - at[k] \in 1..(n \div b + 1)
    BY <2>4, <2>5, <2>9, <2>10, <2>11
  <2> QED BY <2>12 DEF SampledEvenly, Highs, Lows, Budget, at, Place, n, l, b, kept
<1> QED BY <1>1, WindowInvariance, PTL

-----------------------------------------------------------------------------
(***************************************************************************)
(* The graph.                                                              *)
(***************************************************************************)

LEMMA SubjectShown ==
  ASSUME NEW E, NEW shown \in Seq(E)
  PROVE  PickSubject(shown) = 0 \/ PickSubject(shown) \in 1..Len(shown)
<1>1. DOMAIN shown = 1..Len(shown) /\ Len(shown) \in Nat
  OBVIOUS
<1>2. Crashes(shown) \in SUBSET (1..Len(shown)) /\ Subjects(shown) \in SUBSET (1..Len(shown))
  BY <1>1 DEF Crashes, Subjects
<1>3. Crashes(shown) # {} => Min(Crashes(shown)) \in 1..Len(shown)
  BY <1>1, <1>2, MinAndMax
<1>4. Subjects(shown) # {} => Min(Subjects(shown)) \in 1..Len(shown)
  BY <1>1, <1>2, MinAndMax
<1> QED BY <1>3, <1>4 DEF PickSubject

(* What the chain starts from. *)
Start(shown) == IF PickSubject(shown) # 0 THEN Node("subject") ELSE Node("trigger")

(* j is the entry before i in the chain. *)
JustBefore(j, i, shown) ==
  j \in Chained(shown) /\ j < i /\ \A l \in Chained(shown) : l < i => l <= j

First(i, shown) == \A l \in Chained(shown) : ~(l < i)

LEMMA PreviousFacts ==
  ASSUME NEW E, NEW shown \in Seq(E), NEW i \in Chained(shown)
  PROVE  \/ First(i, shown) /\ Previous(i, shown) = Start(shown)
         \/ \E j \in Chained(shown) : JustBefore(j, i, shown) /\ Previous(i, shown) = Entry(j)
<1> DEFINE before == {j \in Chained(shown) : j < i}
<1>1. DOMAIN shown = 1..Len(shown) /\ Len(shown) \in Nat
  OBVIOUS
<1>2. Chained(shown) \in SUBSET (1..Len(shown))
  BY <1>1 DEF Chained
<1>3. CASE before = {}
  <2>1. Previous(i, shown) = Start(shown)
    BY <1>3 DEF Previous, Start
  <2> QED BY <1>3, <2>1 DEF First
<1>4. CASE before # {}
  <2>1. Previous(i, shown) = Entry(Max(before))
    BY <1>4 DEF Previous
  <2>2. before \in SUBSET (1..Len(shown))
    BY <1>2
  <2>3. Max(before) \in before /\ \A l \in before : l <= Max(before)
    <3> HIDE DEF before
    <3> QED BY <1>1, <1>4, <2>2, MinAndMax
  <2>4. Max(before) \in Chained(shown) /\ JustBefore(Max(before), i, shown)
    <3>1. Max(before) \in Chained(shown) /\ Max(before) < i
      BY <2>3
    <3>2. \A l \in Chained(shown) : l < i => l <= Max(before)
      BY <2>3
    <3> HIDE DEF before
    <3> QED BY <3>1, <3>2 DEF JustBefore
  <2> QED BY <2>1, <2>4
<1> QED BY <1>3, <1>4

LEMMA ShownFacts ==
  ASSUME WindowInv, Built, NEW shown, shown = Shown(evidence.timeline)
  PROVE  shown \in Seq(Recorded) /\ SortedAt(shown, 1..Len(shown))
<1> DEFINE h == High(events)
           m == IF Len(h) < MaxNodes THEN Len(h) ELSE MaxNodes
<1>1. /\ h \in Seq(Recorded) /\ Len(h) \in Nat
      /\ \A i, j \in 1..Len(h) : i < j => h[i].at <= h[j].at
  BY KindsOfWindow DEF SortedAt
<1>2. shown = SubSeq(h, 1, m)
  BY TimelineOfWindow DEF Shown
<1>3. m \in 0..Len(h)
  BY <1>1, GraphAssumption
<1> HIDE DEF h, m
<1>4. /\ shown \in Seq(Recorded) /\ Len(shown) = m
      /\ \A i \in 1..m : shown[i] = h[i]
  BY <1>1, <1>2, <1>3
<1>5. \A i, j \in 1..m : i < j => shown[i].at <= shown[j].at
  <2>1. \A i \in 1..m : i \in 1..Len(h)
    BY <1>1, <1>3
  <2> QED BY <1>1, <1>4, <2>1
<1> QED BY <1>4, <1>5 DEF SortedAt

EdgesTo(shown) == {<<Previous(i, shown), Entry(i)>> : i \in Chained(shown)}

(* The edges to event nodes are those of the chain. *)
LEMMA ChainOfEdges ==
  ASSUME NEW package, NEW shown, shown = Shown(package.timeline)
  PROVE  {e \in Edges(package) : e[2][1] = "evt"} = EdgesTo(shown)
<1> DEFINE others ==
             {<<Node("trigger"), Node("root_cause")>>}
               \cup (IF PickSubject(shown) = 0 THEN {}
                     ELSE {<<Node("trigger"), Node("subject")>>, <<Node("root_cause"), Node("subject")>>})
               \cup {<<Node("root_cause"), Spoke(i)>> : i \in DOMAIN package.correlations}
               \cup (IF package.screenshot = {} THEN {} ELSE {<<Node("trigger"), Node("screenshot")>>})
<1>1. Edges(package) = others \cup EdgesTo(shown)
  BY DEF Edges, EdgesTo
<1>2. \A e \in others : e[2][1] # "evt"
  BY DEF Node, Spoke
<1>3. \A e \in EdgesTo(shown) : e[2][1] = "evt"
  BY DEF EdgesTo, Entry
<1> HIDE DEF others
<1> QED BY <1>1, <1>2, <1>3

LEMMA EdgesJoinNodes ==
  ASSUME NEW package, NEW E, NEW shown \in Seq(E), shown = Shown(package.timeline)
  PROVE  \A e \in Edges(package) : {e[1], e[2]} \subseteq Nodes(package)
<1> DEFINE nodes == Nodes(package)
<1>1. /\ Node("trigger") \in nodes /\ Node("root_cause") \in nodes
      /\ PickSubject(shown) # 0 => Node("subject") \in nodes
      /\ \A i \in DOMAIN package.correlations : Spoke(i) \in nodes
      /\ package.screenshot # {} => Node("screenshot") \in nodes
      /\ \A i \in Chained(shown) : Entry(i) \in nodes
  BY DEF Nodes
<1> HIDE DEF nodes
<1>2. ASSUME NEW i \in Chained(shown)
      PROVE  Previous(i, shown) \in nodes
  <2>1. Start(shown) \in nodes
    BY <1>1 DEF Start
  <2> QED BY <1>1, <2>1, PreviousFacts
<1>3. ASSUME NEW e \in Edges(package)
      PROVE  e[1] \in nodes /\ e[2] \in nodes
  <2>1. CASE e = <<Node("trigger"), Node("root_cause")>>
    BY <1>1, <2>1
  <2>2. CASE PickSubject(shown) # 0 /\ e = <<Node("trigger"), Node("subject")>>
    BY <1>1, <2>2
  <2>3. CASE PickSubject(shown) # 0 /\ e = <<Node("root_cause"), Node("subject")>>
    BY <1>1, <2>3
  <2>4. CASE \E i \in DOMAIN package.correlations : e = <<Node("root_cause"), Spoke(i)>>
    BY <1>1, <2>4
  <2>5. CASE package.screenshot # {} /\ e = <<Node("trigger"), Node("screenshot")>>
    BY <1>1, <2>5
  <2>6. CASE \E i \in Chained(shown) : e = <<Previous(i, shown), Entry(i)>>
    BY <1>1, <1>2, <2>6
  <2> QED BY <2>1, <2>2, <2>3, <2>4, <2>5, <2>6 DEF Edges
<1> QED BY <1>3 DEF nodes

LEMMA AllReached ==
  ASSUME NEW package, NEW E, NEW shown \in Seq(E), shown = Shown(package.timeline),
         NEW S \in SUBSET Nodes(package), Node("trigger") \in S,
         \A e \in Edges(package) : e[1] \in S => e[2] \in S
  PROVE  S = Nodes(package)
<1> DEFINE edges == Edges(package)
           C == Chained(shown)
<1>0. \A a, b : <<a, b>> \in edges /\ a \in S => b \in S
  <2> SUFFICES ASSUME NEW a, NEW b, <<a, b>> \in edges, a \in S PROVE b \in S
    OBVIOUS
  <2> DEFINE e == <<a, b>>
  <2>1. e[1] = a /\ e[2] = b /\ e \in edges
    OBVIOUS
  <2> HIDE DEF e
  <2> QED BY <2>1
<1>1. Node("root_cause") \in S
  <2>1. <<Node("trigger"), Node("root_cause")>> \in edges
    BY DEF Edges
  <2> QED BY <1>0, <2>1
<1>2. PickSubject(shown) # 0 => Node("subject") \in S
  <2>1. PickSubject(shown) # 0 => <<Node("trigger"), Node("subject")>> \in edges
    BY DEF Edges
  <2> QED BY <1>0, <2>1
<1>3. \A i \in DOMAIN package.correlations : Spoke(i) \in S
  <2>1. \A i \in DOMAIN package.correlations : <<Node("root_cause"), Spoke(i)>> \in edges
    BY DEF Edges
  <2> QED BY <1>0, <1>1, <2>1
<1>4. package.screenshot # {} => Node("screenshot") \in S
  <2>1. package.screenshot # {} => <<Node("trigger"), Node("screenshot")>> \in edges
    BY DEF Edges
  <2> QED BY <1>0, <2>1
<1>5. \A i \in C : <<Previous(i, shown), Entry(i)>> \in edges
  BY DEF Edges
<1>6. C \in SUBSET (1..Len(shown)) /\ Len(shown) \in Nat
  BY DEF Chained
<1>7. \A i \in C : Entry(i) \in S
  <2> DEFINE T == {i \in C : Entry(i) \notin S}
  <2> SUFFICES ASSUME T # {} PROVE FALSE
    OBVIOUS
  <2>1. T \in SUBSET Nat
    BY <1>6
  <2>2. PICK i \in T : \A k \in T : i <= k
    <3> HIDE DEF T
    <3> QED BY <2>1, LeastNatural
  <2>3. i \in C /\ Entry(i) \notin S
    OBVIOUS
  <2>4. \A j \in C : j < i => Entry(j) \in S
    <3> SUFFICES ASSUME NEW j \in C, j < i, Entry(j) \notin S PROVE FALSE
      OBVIOUS
    <3>1. j \in T /\ j \in Nat /\ i \in Nat
      BY <1>6, <2>3
    <3> QED BY <2>2, <3>1
  <2>5. Previous(i, shown) \in S
    <3>1. CASE Previous(i, shown) = Start(shown)
      BY <1>2, <3>1 DEF Start
    <3>2. CASE \E j \in C : JustBefore(j, i, shown) /\ Previous(i, shown) = Entry(j)
      BY <2>4, <3>2 DEF JustBefore
    <3> QED BY <2>3, <3>1, <3>2, PreviousFacts
  <2> HIDE DEF edges
  <2> QED BY <1>0, <1>5, <2>3, <2>5
<1>8. Nodes(package) \subseteq S
  BY <1>1, <1>2, <1>3, <1>4, <1>7 DEF Nodes
<1> QED BY <1>8

(* No two edges of the chain share an end, and it follows the time.        *)
LEMMA OneChain ==
  ASSUME NEW E, Timed(E), NEW shown \in Seq(E), SortedAt(shown, 1..Len(shown))
  PROVE  /\ {e[2][2] : e \in EdgesTo(shown)} = Chained(shown)
         /\ \A e \in EdgesTo(shown) : e[1][1] = "evt" => shown[e[1][2]].at <= shown[e[2][2]].at
         /\ \A d, e \in EdgesTo(shown) : d[1] = e[1] \/ d[2] = e[2] => d = e
<1> DEFINE C == Chained(shown)
<1>0. C \in SUBSET (1..Len(shown)) /\ Len(shown) \in Nat
  BY DEF Chained
<1>1. \A i : Entry(i)[1] = "evt" /\ Entry(i)[2] = i
  BY DEF Entry
<1>2. Start(shown)[1] # "evt"
  BY DEF Start, Node
<1>3. \A i \in C : \/ First(i, shown) /\ Previous(i, shown) = Start(shown)
                   \/ \E j \in C : JustBefore(j, i, shown) /\ Previous(i, shown) = Entry(j)
  BY PreviousFacts
<1> DEFINE Edge(i) == <<Previous(i, shown), Entry(i)>>
<1>4. EdgesTo(shown) = {Edge(i) : i \in C}
  BY DEF EdgesTo
<1>5. \A i : Edge(i)[1] = Previous(i, shown) /\ Edge(i)[2] = Entry(i)
  OBVIOUS
<1> HIDE DEF C, Edge
<1>6. {e[2][2] : e \in EdgesTo(shown)} = C
  BY <1>1, <1>4, <1>5
<1>7. ASSUME NEW i \in C, Edge(i)[1][1] = "evt"
      PROVE  shown[Edge(i)[1][2]].at <= shown[Edge(i)[2][2]].at
  <2>1. PICK j \in C : JustBefore(j, i, shown) /\ Previous(i, shown) = Entry(j)
    BY <1>2, <1>3, <1>5, <1>7
  <2>2. Edge(i)[1][2] = j /\ Edge(i)[2][2] = i
    BY <1>1, <1>5, <2>1
  <2>3. j \in 1..Len(shown) /\ i \in 1..Len(shown) /\ j < i
    BY <1>0, <2>1 DEF JustBefore
  <2> QED BY <2>2, <2>3 DEF SortedAt
<1>8. ASSUME NEW i \in C, NEW k \in C, i < k
      PROVE  Previous(i, shown) # Previous(k, shown)
  <2>1. ~First(k, shown)
    BY <1>8 DEF First, C
  <2>2. PICK j \in C : JustBefore(j, k, shown) /\ Previous(k, shown) = Entry(j)
    BY <1>3, <2>1
  <2>3. i <= j
    BY <1>8, <2>2 DEF JustBefore, C
  <2>4. CASE Previous(i, shown) = Start(shown)
    BY <1>1, <1>2, <2>2, <2>4
  <2>5. CASE \E l \in C : JustBefore(l, i, shown) /\ Previous(i, shown) = Entry(l)
    <3>1. PICK l \in C : JustBefore(l, i, shown) /\ Previous(i, shown) = Entry(l)
      BY <2>5
    <3>2. l < i /\ l \in Int /\ i \in Int /\ j \in Int
      BY <1>0, <3>1 DEF JustBefore
    <3>3. l # j
      BY <2>3, <3>2
    <3>4. Entry(l)[2] = l /\ Entry(j)[2] = j
      BY <1>1
    <3> QED BY <2>2, <3>1, <3>3, <3>4
  <2> QED BY <1>3, <2>4, <2>5
<1>9. ASSUME NEW i \in C, NEW k \in C, Edge(i)[1] = Edge(k)[1] \/ Edge(i)[2] = Edge(k)[2]
      PROVE  Edge(i) = Edge(k)
  <2>1. CASE Edge(i)[2] = Edge(k)[2]
    <3>1. i = k
      BY <1>1, <1>5, <2>1
    <3> QED BY <3>1
  <2>2. CASE Edge(i)[1] = Edge(k)[1]
    <3>1. Previous(i, shown) = Previous(k, shown)
      BY <1>5, <2>2
    <3>2. ~(i < k) /\ ~(k < i) /\ i \in Int /\ k \in Int
      BY <1>0, <1>8, <3>1
    <3>3. i = k
      BY <3>2
    <3> QED BY <3>3
  <2> QED BY <1>9, <2>1, <2>2
<1>10. \A e \in EdgesTo(shown) : e[1][1] = "evt" => shown[e[1][2]].at <= shown[e[2][2]].at
  BY <1>4, <1>7
<1>11. \A d, e \in EdgesTo(shown) : d[1] = e[1] \/ d[2] = e[2] => d = e
  BY <1>4, <1>9
<1> QED BY <1>6, <1>10, <1>11 DEF C

(* The graph is one piece and its events one chain, whatever is shown.     *)
THEOREM GraphConnectedHolds == Spec => []GraphConnected
<1>1. WindowInv => GraphConnected
  <2> SUFFICES ASSUME WindowInv, Built PROVE GraphConnected
    BY DEF GraphConnected
  <2> DEFINE shown == Shown(evidence.timeline)
             chain == {e \in Edges(evidence) : e[2][1] = "evt"}
  <2>1. shown \in Seq(Recorded) /\ SortedAt(shown, 1..Len(shown))
    BY ShownFacts
  <2>2. chain = EdgesTo(shown)
    BY ChainOfEdges
  <2> HIDE DEF chain
  <2>3. \A e \in Edges(evidence) : {e[1], e[2]} \subseteq Nodes(evidence)
    BY <2>1, EdgesJoinNodes
  <2>4. \A S \in SUBSET Nodes(evidence) :
          /\ Node("trigger") \in S
          /\ \A e \in Edges(evidence) : e[1] \in S => e[2] \in S
          => S = Nodes(evidence)
    BY <2>1, AllReached
  <2>5. /\ {e[2][2] : e \in chain} = Chained(shown)
        /\ \A e \in chain : e[1][1] = "evt" => shown[e[1][2]].at <= shown[e[2][2]].at
        /\ \A d, e \in chain : d[1] = e[1] \/ d[2] = e[2] => d = e
    BY <2>1, <2>2, RecordedTimed, OneChain
  <2>6. Graph.nodes = Nodes(evidence) /\ Graph.edges = Edges(evidence)
    BY DEF Graph
  <2> QED BY <2>3, <2>4, <2>5, <2>6 DEF GraphConnected, Chained, chain
<1> QED BY <1>1, WindowInvariance, PTL

(* A crash report wins outright, as _pick_subject_entry's docstring says,  *)
(* when all high-signal events of the window become nodes: the limit of    *)
(* MaxNodes is the only thing that keeps a crash from being the subject.   *)
THEOREM CrashIsSubjectHolds == Spec => [](Len(Highs) <= MaxNodes => CrashWinsOutright)
<1>1. WindowInv => (Len(Highs) <= MaxNodes => CrashWinsOutright)
  <2> SUFFICES ASSUME WindowInv, Len(Highs) <= MaxNodes, Built,
                      NEW e \in ToSet(events), e.type = "os.crash_report", e.named
               PROVE  PickSubject(Shown(evidence.timeline)) \in Crashes(Shown(evidence.timeline))
    BY DEF CrashWinsOutright
  <2> DEFINE h == High(events)
  <2>1. h \in Seq(Recorded) /\ Len(h) \in Nat /\ DOMAIN h = 1..Len(h) /\ Len(h) <= MaxNodes
    BY KindsOfWindow DEF Highs
  <2>2. e \in ToSet(h)
    <3>1. IsHigh(e)
      BY DEF IsHigh, HighSignal
    <3>2. PICK i \in 1..Len(events) : e = events[i]
      BY DEF ToSet, WindowInv
    <3> QED BY <3>1, <3>2, KindsOfWindow
  <2>3. Shown(evidence.timeline) = h
    <3>1. Shown(evidence.timeline) = SubSeq(h, 1, IF Len(h) < MaxNodes THEN Len(h) ELSE MaxNodes)
      BY TimelineOfWindow DEF Shown
    <3> HIDE DEF h
    <3>2. (IF Len(h) < MaxNodes THEN Len(h) ELSE MaxNodes) = Len(h)
      <4>1. \A a, b \in Nat : a <= b => (IF a < b THEN a ELSE b) = a
        OBVIOUS
      <4>2. MaxNodes \in Nat
        BY GraphAssumption
      <4> QED BY <2>1, <4>1, <4>2, Zenon
    <3>3. SubSeq(h, 1, Len(h)) = h
      BY <2>1
    <3> QED BY <3>1, <3>2, <3>3
  <2> HIDE DEF h
  <2>4. PICK k \in 1..Len(h) : e = h[k]
    BY <2>1, <2>2 DEF ToSet
  <2>5. k \in Crashes(h) /\ Crashes(h) \in SUBSET (1..Len(h))
    BY <2>1, <2>4 DEF Crashes, HasSubject
  <2>6. Min(Crashes(h)) \in Crashes(h)
    BY <2>1, <2>5, MinAndMax
  <2> QED BY <2>3, <2>5, <2>6 DEF PickSubject
<1> QED BY <1>1, WindowInvariance, PTL
=============================================================================
