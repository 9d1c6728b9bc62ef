--------------------------- MODULE S3ListingProofs ---------------------------
(***************************************************************************)
(* Proofs about S3Listing for every bucket, prefix, directory, limit and   *)
(* page size.                                                              *)
(***************************************************************************)
EXTENDS S3Listing, FiniteSetTheorems, TLAPS

-----------------------------------------------------------------------------
(* Sequences.                                                              *)

\* What two sequences hold together.
LEMMA RangeConcat ==
    ASSUME NEW S, NEW s \in Seq(S), NEW t \in Seq(S)
    PROVE  /\ s \o t \in Seq(S) /\ Len(s \o t) = Len(s) + Len(t)
           /\ \A i \in 1..Len(s) : (s \o t)[i] = s[i]
           /\ \A i \in 1..Len(t) : (s \o t)[Len(s) + i] = t[i]
           /\ Range(s \o t) = Range(s) \cup Range(t)
<1>1. /\ s \o t \in Seq(S) /\ Len(s \o t) = Len(s) + Len(t)
      /\ \A i \in 1..Len(s) : (s \o t)[i] = s[i]
  OBVIOUS
<1>2. \A i \in 1..Len(t) : (s \o t)[Len(s) + i] = t[i]
  OBVIOUS
<1>3. \A i \in 1..Len(s \o t) : i \in 1..Len(s) \/ i - Len(s) \in 1..Len(t)
  BY <1>1
<1>4. \A i \in 1..Len(s) : i \in 1..Len(s \o t)
  BY <1>1
<1>5. \A i \in 1..Len(t) : Len(s) + i \in 1..Len(s \o t)
  BY <1>1
<1>6. \A x : x \in Range(s \o t) => x \in Range(s) \cup Range(t)
  BY <1>1, <1>2, <1>3 DEF Range
<1>7. ASSUME NEW x \in Range(s) PROVE x \in Range(s \o t)
  <2>1. PICK i \in 1..Len(s) : x = s[i]
    BY <1>7 DEF Range
  <2>2. QED
    BY SMTT(60), <1>1, <1>4, <2>1 DEF Range
<1>8. ASSUME NEW x \in Range(t) PROVE x \in Range(s \o t)
  <2>1. PICK i \in 1..Len(t) : x = t[i]
    BY <1>8 DEF Range
  <2>2. (s \o t)[Len(s) + i] = x /\ Len(s) + i \in DOMAIN (s \o t)
    BY <1>1, <1>2, <1>5, <2>1
  <2>3. QED
    BY Zenon, <2>2 DEF Range
<1>9. Range(s \o t) = Range(s) \cup Range(t)
  BY Zenon, <1>6, <1>7, <1>8
<1>10. QED
  BY <1>1, <1>2, <1>9

\* IterNext hands an entry from one sequence to the other.
LEMMA HandOver ==
    ASSUME NEW S, NEW s \in Seq(S), NEW t \in Seq(S), t # <<>>
    PROVE  Append(s, Head(t)) \o Tail(t) = s \o t
  BY SMTT(60)

\* The order of words, for words a and b of lengths m and n.
Lower(m, a, n, b) ==
    \/ m < n /\ \A j \in 1..m : a[j] = b[j]
    \/ \E i \in 1..m : /\ i <= n /\ a[i] < b[i]
                         /\ \A j \in 1..(i - 1) : a[j] = b[j]

\* The order of words is transitive.
LEMMA LowerTransitive ==
    ASSUME NEW l \in Nat, NEW m \in Nat, NEW n \in Nat,
           NEW a \in [1..l -> Nat], NEW b \in [1..m -> Nat], NEW c \in [1..n -> Nat],
           Lower(l, a, m, b), Lower(m, b, n, c)
    PROVE  Lower(l, a, n, c)
<1>1. CASE l < m /\ \A j \in 1..l : a[j] = b[j]
  <2>1. CASE m < n /\ \A j \in 1..m : b[j] = c[j]
    BY <1>1, <2>1 DEF Lower
  <2>2. ASSUME NEW k \in 1..m, k <= n, b[k] < c[k], \A j \in 1..(k - 1) : b[j] = c[j]
        PROVE  Lower(l, a, n, c)
    <3>1. CASE k <= l
      <4>1. k \in 1..l /\ a[k] < c[k] /\ \A j \in 1..(k - 1) : a[j] = c[j]
        BY <1>1, <2>2, <3>1
      <4>2. QED
        BY Zenon, <2>2, <4>1 DEF Lower
    <3>2. CASE k > l
      <4>1. l < n /\ \A j \in 1..l : a[j] = c[j]
        BY SMTT(60), <1>1, <2>2, <3>2
      <4>2. QED
        BY Zenon, <4>1 DEF Lower
    <3>3. QED
      BY <3>1, <3>2
  <2>3. QED
    BY <2>1, <2>2 DEF Lower
<1>2. ASSUME NEW i \in 1..l, i <= m, a[i] < b[i], \A j \in 1..(i - 1) : a[j] = b[j]
      PROVE  Lower(l, a, n, c)
  <2>1. CASE m < n /\ \A j \in 1..m : b[j] = c[j]
    <3>1. i <= n /\ a[i] < c[i] /\ \A j \in 1..(i - 1) : a[j] = c[j]
      BY <1>2, <2>1
    <3>2. QED
      BY Zenon, <3>1 DEF Lower
  <2>2. ASSUME NEW k \in 1..m, k <= n, b[k] < c[k], \A j \in 1..(k - 1) : b[j] = c[j]
        PROVE  Lower(l, a, n, c)
    <3>1. CASE i <= k
      <4>1. b[i] <= c[i] /\ i <= n /\ \A j \in 1..(i - 1) : a[j] = c[j]
        BY SMTT(60), <1>2, <2>2, <3>1
      <4>2. a[i] < c[i]
        BY <1>2, <2>2, <3>1, <4>1
      <4>3. QED
        BY Zenon, <4>1, <4>2 DEF Lower
    <3>2. CASE k < i
      <4>1. k \in 1..l /\ a[k] = b[k] /\ \A j \in 1..(k - 1) : a[j] = c[j]
        BY SMTT(60), <1>2, <2>2, <3>2
      <4>2. QED
        BY Zenon, <2>2, <4>1 DEF Lower
    <3>3. QED
      BY <3>1, <3>2
  <2>3. QED
    BY <2>1, <2>2 DEF Lower
<1>3. QED
  BY Zenon, <1>1, <1>2 DEF Lower

\* The byte order of keys and paths is the order of words.
LEMMA BeforeIsLower ==
    ASSUME NEW s \in Seq(Nat), NEW t \in Seq(Nat)
    PROVE  Before(s, t) <=> Lower(Len(s), s, Len(t), t)
<1>1. ASSUME NEW n \in Nat, n <= Len(s), n <= Len(t)
      PROVE  SubSeq(s, 1, n) = SubSeq(t, 1, n) <=> \A j \in 1..n : s[j] = t[j]
  BY SMTT(60), <1>1
<1>2. Beneath(t, s) <=> Len(s) < Len(t) /\ \A j \in 1..Len(s) : s[j] = t[j]
  <2>1. Len(s) <= Len(t) =>
           (SubSeq(t, 1, Len(s)) = s <=> \A j \in 1..Len(s) : s[j] = t[j])
    <3>1. SubSeq(s, 1, Len(s)) = s
      OBVIOUS
    <3>2. QED
      BY SMTT(60), <1>1, <3>1
  <2>2. Len(s) = Len(t) /\ (\A j \in 1..Len(s) : s[j] = t[j]) => s = t
    BY SMTT(60)
  <2>3. Len(s) \in Nat /\ Len(t) \in Nat
    OBVIOUS
  <2>4. QED
    BY <2>1, <2>2, <2>3 DEF Beneath, HasPrefix
<1>3. ASSUME NEW i \in 1..Len(s), i <= Len(t)
      PROVE  SubSeq(s, 1, i - 1) = SubSeq(t, 1, i - 1) <=> \A j \in 1..(i - 1) : s[j] = t[j]
  BY SMTT(60), <1>1, <1>3
<1>4. QED
  BY SMTT(60), <1>2, <1>3 DEF Before, Lower, Low

\* The byte order is strict.
LEMMA BeforeStrict ==
    /\ \A s \in Seq(Nat) : ~Before(s, s)
    /\ \A s, t, u \in Seq(Nat) : Before(s, t) /\ Before(t, u) => Before(s, u)
<1>1. \A s \in Seq(Nat) : Len(s) \in Nat /\ s \in [1..Len(s) -> Nat]
  OBVIOUS
<1>2. ASSUME NEW n \in Nat, NEW a \in [1..n -> Nat] PROVE ~Lower(n, a, n, a)
  BY DEF Lower
<1>3. ASSUME NEW s \in Seq(Nat) PROVE ~Before(s, s)
  BY <1>1, <1>2, BeforeIsLower
<1>4. ASSUME NEW s \in Seq(Nat), NEW t \in Seq(Nat), NEW u \in Seq(Nat),
             Before(s, t), Before(t, u)
      PROVE  Before(s, u)
  <2>1. Lower(Len(s), s, Len(t), t) /\ Lower(Len(t), t, Len(u), u)
    BY <1>4, BeforeIsLower
  <2>2. Lower(Len(s), s, Len(u), u)
    BY Zenon, <1>1, <2>1, LowerTransitive
  <2>3. QED
    BY <2>2, BeforeIsLower
<1>5. QED
  BY <1>3, <1>4

Items == [path : Seq(Nat), kind : Kinds]

\* The order of items is strict.
LEMMA ItemBeforeStrict ==
    /\ \A i \in Items : ~ItemBefore(i, i)
    /\ \A i, j, k \in Items : ItemBefore(i, j) /\ ItemBefore(j, k) => ItemBefore(i, k)
<1>1. \A i \in Items : i.path \in Seq(Nat)
  BY DEF Items
<1>2. ASSUME NEW i \in Items PROVE ~ItemBefore(i, i)
  BY <1>1, BeforeStrict DEF ItemBefore
<1>3. ASSUME NEW i \in Items, NEW j \in Items, NEW k \in Items,
             ItemBefore(i, j), ItemBefore(j, k)
      PROVE  ItemBefore(i, k)
  BY <1>1, <1>3, BeforeStrict DEF ItemBefore
<1>4. QED
  BY <1>2, <1>3
-----------------------------------------------------------------------------
(* Sorting.                                                                *)

Distinct(s) == \A i, j \in 1..Len(s) : s[i] = s[j] => i = j

\* A set in a sequence.
LEMMA Enumeration ==
    ASSUME NEW S, IsFiniteSet(S), NEW s \in Bijection(1..Cardinality(S), S)
    PROVE  /\ s \in Seq(S) /\ Len(s) = Cardinality(S)
           /\ Range(s) = S
           /\ Distinct(s)
<1>1. Cardinality(S) \in Nat
  BY FS_CardinalityType
<1>2. s \in [1..Cardinality(S) -> S]
  BY DEF Bijection, Injection
<1>3. s \in Seq(S) /\ Len(s) = Cardinality(S)
  BY <1>1, <1>2
<1>4. Range(s) = S
  BY <1>2 DEF Bijection, Surjection, Range
<1>5. Distinct(s)
  BY <1>2, <1>3 DEF Bijection, Injection, IsInjective, Distinct
<1>6. QED
  BY <1>3, <1>4, <1>5

\* newIterator only rearranges the entries, and leaves them in order.
LEMMA Rearranged ==
    ASSUME NEW S, NEW c \in Seq(S), NEW s \in newIterator(c)
    PROVE  /\ s \in Seq(S) /\ Len(s) = Len(c)
           /\ Range(s) = Range(c)
           /\ Distinct(c) => Distinct(s)
           /\ \A i \in 1..Len(s) : \A j \in 1..(i - 1) : ~Before(s[i].path, s[j].path)
<1> DEFINE places == 1..Len(c)
<1>1. PICK f \in Bijection(places, places) :
         /\ \A i, j \in places : i < j => ~Before(c[f[j]].path, c[f[i]].path)
         /\ s = [i \in places |-> c[f[i]]]
  BY DEF newIterator
<1>2. /\ f \in [places -> places]
      /\ \A i, j \in places : f[i] = f[j] => i = j
      /\ \A k \in places : \E i \in places : f[i] = k
  BY DEF Bijection, Injection, Surjection, IsInjective
<1>3. Len(c) \in Nat /\ \A i \in places : c[i] \in S
  OBVIOUS
<1>4. s \in Seq(S) /\ Len(s) = Len(c) /\ \A i \in places : s[i] = c[f[i]]
  BY SMTT(60), <1>1, <1>2, <1>3
<1>5. Range(s) = Range(c)
  <2>1. ASSUME NEW x \in Range(s) PROVE x \in Range(c)
    <3>1. PICK i \in places : x = s[i]
      BY <1>4 DEF Range
    <3>2. x = c[f[i]] /\ f[i] \in DOMAIN c
      BY <1>2, <1>4, <3>1
    <3>3. QED
      BY Zenon, <3>2 DEF Range
  <2>2. ASSUME NEW x \in Range(c) PROVE x \in Range(s)
    <3>1. PICK k \in places : x = c[k]
      BY DEF Range
    <3>2. PICK i \in places : f[i] = k
      BY <1>2
    <3>3. x = s[i] /\ i \in DOMAIN s
      BY <1>4, <3>1, <3>2
    <3>4. QED
      BY Zenon, <3>3 DEF Range
  <2>3. QED
    BY Zenon, <2>1, <2>2
<1>6. ASSUME Distinct(c), NEW i \in 1..Len(s), NEW j \in 1..Len(s), s[i] = s[j]
      PROVE  i = j
  <2>1. i \in places /\ j \in places /\ f[i] \in places /\ f[j] \in places
    BY Zenon, <1>2, <1>4
  <2>2. f[i] = f[j]
    BY Zenon, <1>4, <1>6, <2>1 DEF Distinct
  <2>3. QED
    BY Zenon, <1>2, <2>1, <2>2
<1>7. ASSUME NEW i \in 1..Len(s), NEW j \in 1..(i - 1)
      PROVE  ~Before(s[i].path, s[j].path)
  <2>1. i \in places /\ j \in places /\ j < i
    BY <1>3, <1>4
  <2>2. QED
    BY Zenon, <1>1, <1>4, <2>1
<1>8. QED
  BY <1>4, <1>5, <1>6, <1>7 DEF Distinct

\* The first entries of a sequence.
LEMMA Cut ==
    ASSUME NEW S, NEW c \in Seq(S), NEW n \in 0..Len(c)
    PROVE  /\ SubSeq(c, 1, n) \in Seq(S) /\ Len(SubSeq(c, 1, n)) = n
           /\ Range(SubSeq(c, 1, n)) \subseteq Range(c)
           /\ Distinct(c) => Distinct(SubSeq(c, 1, n))
           /\ n = Len(c) => SubSeq(c, 1, n) = c
<1>1. /\ SubSeq(c, 1, n) \in Seq(S) /\ Len(SubSeq(c, 1, n)) = n
      /\ \A i \in 1..n : SubSeq(c, 1, n)[i] = c[i]
  OBVIOUS
<1>2. n = Len(c) => SubSeq(c, 1, n) = c
  OBVIOUS
<1>3. ASSUME NEW x \in Range(SubSeq(c, 1, n)) PROVE x \in Range(c)
  <2>1. PICK i \in 1..n : x = c[i]
    BY <1>1, <1>3 DEF Range
  <2>2. i \in DOMAIN c
    OBVIOUS
  <2>3. QED
    BY Zenon, <2>1, <2>2 DEF Range
<1>4. Distinct(c) => Distinct(SubSeq(c, 1, n))
  BY <1>1 DEF Distinct
<1>5. QED
  BY <1>1, <1>2, <1>3, <1>4

-----------------------------------------------------------------------------
(* Paths without their empty segments.                                     *)

Rank(v, i) == Cardinality({j \in Kept(v) : j <= i})

\* The places that are kept are numbered from 1, without gaps.
LEMMA Ranks ==
    ASSUME NEW v \in Seq(Nat)
    PROVE  /\ IsFiniteSet(Kept(v)) /\ Cardinality(Kept(v)) \in Nat
           /\ \A i \in Kept(v) : Rank(v, i) \in 1..Cardinality(Kept(v))
           /\ \A i, j \in Kept(v) : Rank(v, i) = Rank(v, j) => i = j
           /\ \A n \in 1..Cardinality(Kept(v)) : \E i \in Kept(v) : Rank(v, i) = n
<1> DEFINE K == Kept(v)
           Upto(i) == {j \in K : j <= i}
<1>1. K \subseteq 1..Len(v) /\ Len(v) \in Nat /\ K \subseteq Nat
  BY DEF Kept
<1>2. IsFiniteSet(K) /\ Cardinality(K) \in Nat
  <2>1. IsFiniteSet(1..Len(v)) /\ K \in SUBSET (1..Len(v))
    BY <1>1, FS_Interval
  <2>2. IsFiniteSet(K)
    BY Zenon, <2>1, FS_Subset
  <2>3. QED
    BY Zenon, <2>2, FS_CardinalityType
<1>3. ASSUME NEW i \in K
      PROVE  /\ IsFiniteSet(Upto(i)) /\ Cardinality(Upto(i)) \in 1..Cardinality(K)
  <2>1. Upto(i) \in SUBSET K /\ i \in Upto(i)
    BY <1>1
  <2>2. IsFiniteSet(Upto(i)) /\ Cardinality(Upto(i)) <= Cardinality(K)
    BY <1>2, <2>1, FS_Subset
  <2>3. Cardinality(Upto(i)) \in Nat /\ Cardinality(Upto(i)) # 0
    BY Zenon, <2>1, <2>2, FS_CardinalityType, FS_EmptySet
  <2>4. QED
    BY <1>2, <2>2, <2>3
<1>4. ASSUME NEW i \in K, NEW j \in K, i < j, Cardinality(Upto(i)) = Cardinality(Upto(j))
      PROVE  FALSE
  <2>1. Upto(i) \in SUBSET Upto(j)
    BY <1>1, <1>4
  <2>2. Upto(i) = Upto(j)
    BY Zenon, <1>3, <1>4, <2>1, FS_Subset
  <2>3. j \in Upto(j) /\ j \notin Upto(i)
    BY <1>1, <1>4
  <2>4. QED
    BY <2>2, <2>3
<1>5. ASSUME NEW i \in K, NEW j \in K, Rank(v, i) = Rank(v, j) PROVE i = j
  <2>1. i \in Nat /\ j \in Nat
    BY <1>1
  <2>2. ~(i < j) /\ ~(j < i)
    BY <1>4, <1>5 DEF Rank
  <2>3. QED
    BY <2>1, <2>2
<1>6. \A i \in K : Rank(v, i) \in 1..Cardinality(K)
  BY Zenon, <1>3 DEF Rank
<1> DEFINE f == [i \in K |-> Rank(v, i)]
<1>7. f \in Injection(K, 1..Cardinality(K))
  BY <1>5, <1>6 DEF Injection, IsInjective
<1>8. f \in Surjection(K, 1..Cardinality(K))
  <2>1. IsFiniteSet(1..Cardinality(K)) /\ Cardinality(1..Cardinality(K)) = Cardinality(K)
    BY <1>2, FS_Interval
  <2>2. QED
    BY <1>7, <2>1, FS_Injection
<1>9. \A n \in 1..Cardinality(K) : \E i \in K : Rank(v, i) = n
  BY Zenon, <1>8 DEF Surjection
<1>10. QED
  BY <1>2, <1>5, <1>6, <1>9

\* Place finds the one place of a rank.
LEMMA Places ==
    ASSUME NEW v \in Seq(Nat)
    PROVE  /\ \A n \in 1..Cardinality(Kept(v)) : Place(v, n) \in Kept(v)
           /\ \A i \in Kept(v) : Place(v, Rank(v, i)) = i
<1>1. ASSUME NEW n \in 1..Cardinality(Kept(v))
      PROVE  Place(v, n) \in Kept(v) /\ Rank(v, Place(v, n)) = n
  BY ZenonT(60), Ranks DEF Place, Rank
<1>2. ASSUME NEW i \in Kept(v) PROVE Place(v, Rank(v, i)) = i
  BY <1>1, Ranks
<1>3. QED
  BY <1>1, <1>2

\* The numbers up to n.
LEMMA Count ==
    ASSUME NEW n \in Nat
    PROVE  IsFiniteSet(1..n) /\ Cardinality(1..n) = n
<1>1. 1 \in Int /\ n \in Int
  OBVIOUS
<1>2. IsFiniteSet(1..n) /\ Cardinality(1..n) = IF 1 > n THEN 0 ELSE n - 1 + 1
  BY Zenon, <1>1, FS_Interval
<1>3. QED
  BY <1>2

\* A path that ParsePath leaves as it is.
Ordinary(p) ==
    p \in Seq(Nat) /\ \A i \in 1..Len(p) : p[i] # 0 /\ p[i] \notin DOMAIN Backslashed

\* The two pieces of a segment are next to each other.
LEMMA Halves ==
    ASSUME NEW v \in Seq(Nat)
    PROVE  /\ Slashed(v) \in Seq(Nat) /\ Len(Slashed(v)) = 2 * Len(v)
           /\ \A i \in 1..Len(v) : /\ Slashed(v)[2 * i - 1] = Pieces(v[i])[1]
                                   /\ Slashed(v)[2 * i] = Pieces(v[i])[2]
           /\ \A n \in 1..(2 * Len(v)) : \E i \in 1..Len(v) : n = 2 * i - 1 \/ n = 2 * i
<1> DEFINE m == 2 * Len(v)
<1>1. Len(v) \in Nat /\ m \in Nat
  OBVIOUS
<1>2. ASSUME NEW n \in 1..m
      PROVE  /\ (n + 1) \div 2 \in 1..Len(v) /\ 2 - (n % 2) \in 1..2
             /\ n = 2 * ((n + 1) \div 2) - 1 \/ n = 2 * ((n + 1) \div 2)
  BY <1>1
<1>3. ASSUME NEW s \in Nat, NEW j \in 1..2 PROVE Pieces(s)[j] \in Nat
  <2>1. CASE s \in DOMAIN Backslashed
    <3>1. Backslashed[s] \in Nat \X Nat
      BY Zenon, <2>1, ListingAssumption
    <3>2. QED
      BY <2>1, <3>1 DEF Pieces
  <2>2. CASE s \notin DOMAIN Backslashed
    BY <2>2 DEF Pieces
  <2>3. QED
    BY Zenon, <2>1, <2>2
<1>4. ASSUME NEW n \in 1..m PROVE Pieces(v[(n + 1) \div 2])[2 - (n % 2)] \in Nat
  <2>1. PICK i \in 1..Len(v), j \in 1..2 : i = (n + 1) \div 2 /\ j = 2 - (n % 2)
    BY Zenon, <1>2
  <2>2. v[i] \in Nat
    OBVIOUS
  <2>3. QED
    BY Zenon, <1>3, <2>1, <2>2
<1>5. Slashed(v) = [n \in 1..m |-> Pieces(v[(n + 1) \div 2])[2 - (n % 2)]]
  BY Zenon DEF Slashed
<1> DEFINE f == [n \in 1..m |-> Pieces(v[(n + 1) \div 2])[2 - (n % 2)]]
<1>6. f \in Seq(Nat) /\ Len(f) = m
  <2>1. f \in [1..m -> Nat]
    BY Zenon, <1>4
  <2> HIDE DEF f, m
  <2>2. QED
    BY <1>1, <2>1
<1>7. ASSUME NEW i \in 1..Len(v)
      PROVE  f[2 * i - 1] = Pieces(v[i])[1] /\ f[2 * i] = Pieces(v[i])[2]
  <2>1. /\ 2 * i - 1 \in 1..m /\ ((2 * i - 1) + 1) \div 2 = i /\ 2 - ((2 * i - 1) % 2) = 1
        /\ 2 * i \in 1..m /\ (2 * i + 1) \div 2 = i /\ 2 - ((2 * i) % 2) = 2
    BY <1>1
  <2>2. QED
    BY Zenon, <2>1
<1>8. QED
  BY Zenon, <1>2, <1>5, <1>6, <1>7

\* The first n odd numbers.
LEMMA Odds ==
    ASSUME NEW n \in Nat
    PROVE  /\ IsFiniteSet({2 * k - 1 : k \in 1..n})
           /\ Cardinality({2 * k - 1 : k \in 1..n}) = n
<1> DEFINE T == 1..n
           U == {2 * k - 1 : k \in T}
           f == [k \in T |-> 2 * k - 1]
<1>1. IsFiniteSet(T) /\ Cardinality(T) = n
  BY Zenon, Count
<1>2. f \in Injection(T, U)
  <2>1. f \in [T -> U] /\ \A k \in T : f[k] = 2 * k - 1
    BY Zenon
  <2>2. \A i, j \in T : 2 * i - 1 = 2 * j - 1 => i = j
    OBVIOUS
  <2>3. QED
    BY Zenon, <2>1, <2>2 DEF Injection, IsInjective
<1>3. f \in Surjection(T, U)
  BY Zenon DEF Surjection
<1>4. ExistsBijection(T, U)
  BY Zenon, <1>2, <1>3 DEF ExistsBijection, Bijection
<1> HIDE DEF T, U
<1>5. IsFiniteSet(U) /\ Cardinality(U) = n
  BY Zenon, <1>1, <1>4, FS_Bijection
<1>6. QED
  BY Zenon, <1>5 DEF T, U

\* Moving a set of numbers up does not change their count.
LEMMA Shifted ==
    ASSUME NEW m \in Nat, NEW T \in SUBSET Nat, IsFiniteSet(T)
    PROVE  /\ IsFiniteSet({m + j : j \in T})
           /\ Cardinality({m + j : j \in T}) = Cardinality(T)
<1> DEFINE U == {m + j : j \in T}
           f == [j \in T |-> m + j]
<1>1. f \in Injection(T, U)
  <2>1. f \in [T -> U]
    OBVIOUS
  <2>2. \A i, j \in T : f[i] = f[j] => i = j
    OBVIOUS
  <2>3. QED
    BY Zenon, <2>1, <2>2 DEF Injection, IsInjective
<1>2. f \in Surjection(T, U)
  BY DEF Surjection
<1>3. ExistsBijection(T, U)
  BY Zenon, <1>1, <1>2 DEF ExistsBijection, Bijection
<1> HIDE DEF U
<1>4. IsFiniteSet(U) /\ Cardinality(U) = Cardinality(T)
  BY Zenon, <1>3, FS_Bijection
<1>5. QED
  BY <1>4 DEF U

\* The first odd numbers, and others above them.
LEMMA Stacked ==
    ASSUME NEW m \in Nat, NEW T \in SUBSET (Nat \ {0}), IsFiniteSet(T)
    PROVE  Cardinality({2 * k - 1 : k \in 1..m} \cup {2 * m + j : j \in T}) = m + Cardinality(T)
<1> DEFINE O == {2 * k - 1 : k \in 1..m}
           U == {2 * m + j : j \in T}
<1>1. IsFiniteSet(U) /\ Cardinality(U) = Cardinality(T) /\ Cardinality(T) \in Nat
  <2>1. 2 * m \in Nat /\ T \in SUBSET Nat
    OBVIOUS
  <2>2. QED
    BY Zenon, <2>1, Shifted, FS_CardinalityType
<1>2. IsFiniteSet(O) /\ Cardinality(O) = m
  BY Zenon, Odds
<1>3. O \cap U = {}
  <2>1. \A k \in 1..m, j \in T : 2 * k - 1 # 2 * m + j
    OBVIOUS
  <2>2. QED
    BY Zenon, <2>1
<1> HIDE DEF O, U
<1>4. Cardinality(O \cap U) = 0
  BY Zenon, <1>3, FS_EmptySet
<1>5. Cardinality(O \cup U) = Cardinality(O) + Cardinality(U) - Cardinality(O \cap U)
  BY Zenon, <1>1, <1>2, FS_Union
<1>6. Cardinality(O \cup U) = m + Cardinality(T)
  BY <1>1, <1>2, <1>4, <1>5
<1>7. QED
  BY Zenon, <1>6 DEF O, U

\* w holds the segments of u, an empty piece after each, and then the pieces s.
Trails(w, u, s) ==
    /\ Len(u) \in Nat /\ w \in Seq(Nat) /\ s \in Seq(Nat)
    /\ Len(w) = 2 * Len(u) + Len(s)
    /\ \A i \in 1..Len(u) : w[2 * i - 1] = u[i] /\ u[i] # 0 /\ w[2 * i] = 0
    /\ \A i \in 1..Len(s) : w[2 * Len(u) + i] = s[i]

\* The pieces of an ordinary path, and of what is put behind it.
LEMMA SlashedBehind ==
    ASSUME NEW u, Ordinary(u), NEW v \in Seq(Nat)
    PROVE  Trails(Slashed(u \o v), u, Slashed(v))
<1> DEFINE a == u \o v
           m == Len(u)
<1>1. u \in Seq(Nat) /\ \A i \in 1..m : u[i] # 0 /\ u[i] \notin DOMAIN Backslashed
  BY Zenon DEF Ordinary
<1>2. /\ a \in Seq(Nat) /\ m \in Nat /\ Len(v) \in Nat /\ Len(a) = m + Len(v)
      /\ \A i \in 1..m : a[i] = u[i]
      /\ \A i \in 1..Len(v) : a[m + i] = v[i]
  BY <1>1, RangeConcat
<1> HIDE DEF a, m
<1> DEFINE w == Slashed(a)
           s == Slashed(v)
<1>3. /\ w \in Seq(Nat) /\ Len(w) = 2 * Len(a)
      /\ \A i \in 1..Len(a) : w[2 * i - 1] = Pieces(a[i])[1] /\ w[2 * i] = Pieces(a[i])[2]
  BY Zenon, <1>2, Halves
<1>4. /\ s \in Seq(Nat) /\ Len(s) = 2 * Len(v)
      /\ \A i \in 1..Len(v) : s[2 * i - 1] = Pieces(v[i])[1] /\ s[2 * i] = Pieces(v[i])[2]
      /\ \A n \in 1..(2 * Len(v)) : \E i \in 1..Len(v) : n = 2 * i - 1 \/ n = 2 * i
  BY Zenon, Halves
<1> HIDE DEF w, s
<1>5. ASSUME NEW i \in 1..m PROVE w[2 * i - 1] = u[i] /\ w[2 * i] = 0
  <2>1. i \in 1..Len(a)
    BY <1>2
  <2>2. Pieces(a[i]) = <<u[i], 0>>
    BY Zenon, <1>1, <1>2 DEF Pieces
  <2>3. Pieces(a[i])[1] = u[i] /\ Pieces(a[i])[2] = 0
    BY <2>2
  <2>4. QED
    BY Zenon, <1>3, <2>1, <2>3
<1>6. ASSUME NEW n \in 1..Len(s) PROVE w[2 * m + n] = s[n]
  <2>1. PICK i \in 1..Len(v) : n = 2 * i - 1 \/ n = 2 * i
    BY Zenon, <1>4
  <2>2. /\ m + i \in 1..Len(a) /\ a[m + i] = v[i]
        /\ 2 * (m + i) - 1 = 2 * m + (2 * i - 1) /\ 2 * (m + i) = 2 * m + 2 * i
    BY <1>2
  <2>3. CASE n = 2 * i - 1
    BY Zenon, <1>3, <1>4, <2>2, <2>3
  <2>4. CASE n = 2 * i
    BY Zenon, <1>3, <1>4, <2>2, <2>4
  <2>5. QED
    BY Zenon, <2>1, <2>3, <2>4
<1>7. Len(w) = 2 * m + Len(s)
  BY <1>2, <1>3, <1>4
<1>8. QED
  <2>1. Trails(w, u, s)
    BY Zenon, <1>1, <1>2, <1>3, <1>4, <1>5, <1>6, <1>7 DEF Trails, m
  <2>2. QED
    BY Zenon, <2>1 DEF a, w, s

\* An ordinary path before a value stays as it is.
LEMMA NormalizedBehind ==
    ASSUME NEW u, Ordinary(u), NEW v \in Seq(Nat)
    PROVE  Normalized(Slashed(u \o v)) = u \o Normalized(Slashed(v))
<1> DEFINE w == Slashed(u \o v)
           s == Slashed(v)
           m == Len(u)
           K == Kept(s)
<1>1. /\ w \in Seq(Nat) /\ s \in Seq(Nat) /\ m \in Nat /\ Len(s) \in Nat /\ u \in Seq(Nat)
      /\ Len(w) = 2 * m + Len(s)
      /\ \A i \in 1..m : w[2 * i - 1] = u[i] /\ u[i] # 0 /\ w[2 * i] = 0
      /\ \A i \in 1..Len(s) : w[2 * m + i] = s[i]
  <2>1. \A x \in Seq(Nat) : Len(x) \in Nat
    OBVIOUS
  <2>2. Trails(w, u, s)
    BY Zenon, SlashedBehind
  <2>3. u \in Seq(Nat)
    BY Zenon DEF Ordinary
  <2> HIDE DEF w, s
  <2>4. QED
    BY Zenon, <2>1, <2>2, <2>3 DEF Trails
<1> HIDE DEF w, s, m
<1>2. K \subseteq 1..Len(s) /\ K \in SUBSET (Nat \ {0})
  <2>1. K \subseteq 1..Len(s)
    BY Zenon DEF Kept
  <2>2. Len(s) \in Nat
    BY Zenon, <1>1
  <2>3. \A n \in Nat : \A k \in 1..n : k \in Nat \ {0}
    OBVIOUS
  <2>4. QED
    BY Zenon, <2>1, <2>2, <2>3
<1>3. Kept(w) = {2 * k - 1 : k \in 1..m} \cup {2 * m + i : i \in K}
  <2>1. ASSUME NEW i \in 1..m PROVE 2 * i - 1 \in Kept(w)
    <3>1. 2 * i - 1 \in 1..Len(w)
      BY <1>1
    <3>2. w[2 * i - 1] # 0
      BY Zenon, <1>1
    <3>3. QED
      BY Zenon, <3>1, <3>2 DEF Kept
  <2>2. ASSUME NEW i \in K PROVE 2 * m + i \in Kept(w)
    <3>1. i \in 1..Len(s) /\ s[i] # 0
      BY Zenon DEF Kept
    <3>2. 2 * m + i \in 1..Len(w)
      BY <1>1, <3>1
    <3>3. QED
      BY Zenon, <1>1, <3>1, <3>2 DEF Kept
  <2>3. ASSUME NEW k \in Kept(w)
        PROVE  (\E i \in 1..m : k = 2 * i - 1) \/ \E i \in K : k = 2 * m + i
    <3>1. k \in 1..Len(w) /\ w[k] # 0
      BY Zenon DEF Kept
    <3>2. CASE k <= 2 * m
      <4>1. (k + 1) \div 2 \in 1..m
            /\ (k = 2 * ((k + 1) \div 2) - 1 \/ k = 2 * ((k + 1) \div 2))
        BY <1>1, <3>1, <3>2
      <4>2. QED
        BY Zenon, <1>1, <3>1, <4>1
    <3>3. CASE ~(k <= 2 * m)
      <4>1. k - 2 * m \in 1..Len(s) /\ k = 2 * m + (k - 2 * m)
        BY <1>1, <3>1, <3>3
      <4>2. s[k - 2 * m] # 0
        BY Zenon, <1>1, <3>1, <4>1
      <4>3. QED
        BY Zenon, <4>1, <4>2 DEF Kept
    <3>4. QED
      BY Zenon, <3>2, <3>3
  <2>4. QED
    BY Zenon, <2>1, <2>2, <2>3
<1>4. IsFiniteSet(K) /\ Cardinality(K) \in Nat
  BY Zenon, <1>1, Ranks
<1>5. Cardinality(Kept(w)) = m + Cardinality(K)
  BY Zenon, <1>1, <1>2, <1>3, <1>4, Stacked
<1>6. ASSUME NEW n \in 1..m PROVE Place(w, n) = 2 * n - 1
  <2>1. {j \in Kept(w) : j <= 2 * n - 1} = {2 * k - 1 : k \in 1..n}
    <3>1. \A j \in 1..n : j \in 1..m /\ 2 * j - 1 <= 2 * n - 1
      BY <1>1
    <3>2. \A j \in 1..m : 2 * j - 1 <= 2 * n - 1 => j \in 1..n
      BY <1>1
    <3>3. \A j \in K : ~(2 * m + j <= 2 * n - 1)
      BY <1>1, <1>2
    <3>4. QED
      BY Zenon, <1>3, <3>1, <3>2, <3>3
  <2>2. Rank(w, 2 * n - 1) = n
    <3>1. n \in Nat
      BY <1>1
    <3>2. QED
      BY Zenon, <2>1, <3>1, Odds DEF Rank
  <2>3. 2 * n - 1 \in Kept(w)
    BY Zenon, <1>3
  <2>4. QED
    BY Zenon, <1>1, <2>2, <2>3, Places
<1>7. ASSUME NEW n \in 1..Cardinality(K) PROVE Place(w, m + n) = 2 * m + Place(s, n)
  <2>1. PICK i \in K : Rank(s, i) = n
    BY Zenon, <1>1, Ranks
  <2>2. Place(s, n) = i
    BY Zenon, <1>1, <2>1, Places
  <2> DEFINE T == {j \in K : j <= i}
  <2>3. {j \in Kept(w) : j <= 2 * m + i} = {2 * k - 1 : k \in 1..m} \cup {2 * m + j : j \in T}
    <3>1. i \in Nat /\ m \in Nat /\ \A j \in K : j \in Nat
      BY Zenon, <1>1, <1>2
    <3>2. \A j \in 1..m : 2 * j - 1 <= 2 * m + i
      BY <3>1
    <3>3. \A j \in Nat : 2 * m + j <= 2 * m + i <=> j <= i
      BY <3>1
    <3>4. QED
      BY Zenon, <1>3, <3>1, <3>2, <3>3
  <2>4. T \in SUBSET (Nat \ {0}) /\ T \in SUBSET K
    BY Zenon, <1>2
  <2>5. IsFiniteSet(T)
    BY Zenon, <1>4, <2>4, FS_Subset
  <2> HIDE DEF T
  <2>6. Cardinality({2 * k - 1 : k \in 1..m} \cup {2 * m + j : j \in T}) = m + Cardinality(T)
    BY Zenon, <1>1, <2>4, <2>5, Stacked
  <2>7. Rank(w, 2 * m + i) = m + n
    BY Zenon, <2>1, <2>3, <2>6 DEF Rank, T
  <2>8. 2 * m + i \in Kept(w)
    BY Zenon, <1>3
  <2>9. QED
    BY Zenon, <1>1, <2>2, <2>7, <2>8, Places
<1> DEFINE x == Normalized(s)
<1>8. x \in Seq(Nat) /\ Len(x) = Cardinality(K) /\ \A n \in 1..Cardinality(K) : x[n] = s[Place(s, n)]
  <2>1. \A n \in 1..Cardinality(K) : s[Place(s, n)] \in Nat
    <3>1. \A q \in Seq(Nat) : \A i \in 1..Len(q) : q[i] \in Nat
      OBVIOUS
    <3>2. QED
      BY Zenon, <1>1, <1>2, <3>1, Places
  <2>2. QED
    BY SMTT(60), <1>4, <2>1 DEF Normalized
<1> HIDE DEF x, K
<1> DEFINE y == Normalized(w)
<1>9. y = [n \in 1..(m + Cardinality(K)) |-> w[Place(w, n)]]
  BY Zenon, <1>5 DEF Normalized
<1>10. ASSUME NEW n \in 1..m PROVE y[n] = u[n]
  <2>1. n \in 1..(m + Cardinality(K))
    BY <1>1, <1>4
  <2>2. y[n] = w[2 * n - 1]
    BY Zenon, <1>6, <1>9, <2>1
  <2>3. QED
    BY Zenon, <1>1, <2>2
<1>11. ASSUME NEW n \in 1..Cardinality(K) PROVE y[m + n] = x[n]
  <2>1. m + n \in 1..(m + Cardinality(K))
    BY <1>1, <1>4
  <2>2. y[m + n] = w[2 * m + Place(s, n)]
    BY Zenon, <1>7, <1>9, <2>1
  <2>3. Place(s, n) \in 1..Len(s)
    BY Zenon, <1>1, <1>2, Places DEF K
  <2>4. QED
    BY Zenon, <1>1, <1>8, <2>2, <2>3
<1>12. y = u \o x
  <2> DEFINE z == u \o x
  <2>1. /\ z \in Seq(Nat) /\ Len(z) = m + Cardinality(K)
        /\ \A i \in 1..m : z[i] = u[i]
        /\ \A i \in 1..Cardinality(K) : z[m + i] = x[i]
    <3>1. u \in Seq(Nat) /\ x \in Seq(Nat)
      BY Zenon, <1>1, <1>8
    <3>2. /\ u \o x \in Seq(Nat) /\ Len(u \o x) = Len(u) + Len(x)
          /\ \A i \in 1..Len(u) : (u \o x)[i] = u[i]
          /\ \A i \in 1..Len(x) : (u \o x)[Len(u) + i] = x[i]
      BY <3>1, RangeConcat
    <3>3. QED
      BY Zenon, <1>8, <3>2 DEF m
  <2> HIDE DEF y, z
  <2>2. ASSUME NEW n \in 1..(m + Cardinality(K))
        PROVE  y[n] = z[n]
    <3>1. CASE n <= m
      <4>1. n \in 1..m
        BY <1>1, <1>4, <3>1
      <4>2. QED
        BY Zenon, <1>10, <2>1, <4>1
    <3>2. CASE n > m
      <4>1. n - m \in 1..Cardinality(K) /\ m + (n - m) = n
        BY <1>1, <1>4, <3>2
      <4>2. QED
        BY ZenonT(60), <1>11, <2>1, <4>1
    <3>3. QED
      BY <1>1, <1>4, <3>1, <3>2
  <2>3. z = [n \in 1..(m + Cardinality(K)) |-> z[n]]
    BY <2>1
  <2>4. y = [n \in 1..(m + Cardinality(K)) |-> y[n]]
    BY Zenon, <1>9
  <2>5. QED
    BY Zenon, <2>2, <2>3, <2>4 DEF z
<1>13. QED
  BY Zenon, <1>12 DEF w, s, x

\* An ordinary path stays as it is.
LEMMA NormalizedSame ==
    ASSUME NEW u, Ordinary(u)
    PROVE  Normalized(Slashed(u)) = u
<1>1. u \in Seq(Nat) /\ <<>> \in Seq(Nat) /\ u \o <<>> = u
  BY DEF Ordinary
<1>2. Slashed(<<>>) \in Seq(Nat) /\ Len(Slashed(<<>>)) = 0
  <2>1. Len(Slashed(<<>>)) = 2 * Len(<<>>) /\ Slashed(<<>>) \in Seq(Nat)
    BY Zenon, <1>1, Halves
  <2>2. QED
    BY <2>1
<1>3. Kept(Slashed(<<>>)) = {}
  BY <1>2 DEF Kept
<1>4. Cardinality(Kept(Slashed(<<>>))) = 0
  BY Zenon, <1>3, FS_EmptySet
<1>5. Normalized(Slashed(<<>>)) = <<>>
  BY <1>4 DEF Normalized
<1>6. QED
  BY Zenon, <1>1, <1>5, NormalizedBehind

-----------------------------------------------------------------------------
(* The inductive invariant.                                                *)

\* Under the phases: nothing is shown before a listing and after a failed one,
\* and nothing given out while it is collected; the books of what stayed and
\* what was are about the bucket.
Sound ==
    /\ entries \in Seq(Items) /\ current \in Seq(Items)
    /\ phase \in {"idle", "failed"} => entries = <<>>
    /\ phase \in {"idle", "page", "failed"} => current = <<>>
    /\ phase = "page" => Len(entries) < options.limit
    /\ phase # "idle" => steady \subseteq bucket /\ bucket \subseteq seen

HasPath(k) == logicalPath(Item(k).path) # None

\* Every entry shown is that of a key that was there; while pages are still
\* asked for, of one that is not after the continuation token.
Came ==
    \A e \in Range(Result) : \E k \in Listed(seen) :
        /\ HasPath(k) /\ e = Entry(Item(k))
        /\ phase = "page" => token \in Items \ {None} /\ ~ItemBefore(token, Item(k))

\* Every key that stayed and is not after the continuation token is shown.
Complete ==
    phase = "page" /\ token # None =>
        \A k \in Listed(steady) :
            HasPath(k) /\ ~ItemBefore(token, Item(k)) => Entry(Item(k)) \in Range(entries)

\* The inductive invariant.
Inv == ListShape /\ Sound /\ Came /\ Complete /\ ShowsWhatStayed

-----------------------------------------------------------------------------
(* Keys, items and entries.                                                *)

\* Normalized is a path again.
LEMMA NormalizedType ==
    ASSUME NEW v \in Seq(Nat)
    PROVE  Normalized(v) \in Seq(Nat)
<1>1. Kept(v) \subseteq 1..Len(v) /\ Cardinality(Kept(v)) \in Nat
  BY Zenon, Ranks DEF Kept
<1>2. \A n \in 1..Cardinality(Kept(v)) : v[Place(v, n)] \in Nat
  BY <1>1, Places
<1>3. QED
  BY <1>1, <1>2 DEF Normalized

\* A key after its prefix.
LEMMA Split ==
    ASSUME NEW u \in Seq(Nat), NEW v \in Seq(Nat), HasPrefix(v, u)
    PROVE  /\ SubSeq(v, Len(u) + 1, Len(v)) \in Seq(Nat)
           /\ v = u \o SubSeq(v, Len(u) + 1, Len(v))
<1> DEFINE w == SubSeq(v, Len(u) + 1, Len(v))
<1>1. Len(u) \in Nat /\ Len(v) \in Nat /\ Len(u) <= Len(v) /\ \A i \in 1..Len(u) : u[i] = v[i]
  BY DEF HasPrefix
<1>2. /\ w \in Seq(Nat) /\ Len(w) = Len(v) - Len(u)
      /\ \A i \in 1..(Len(v) - Len(u)) : w[i] = v[Len(u) + i]
  BY <1>1
<1> HIDE DEF w
<1> DEFINE x == u \o w
<1>3. /\ x \in Seq(Nat) /\ Len(x) = Len(v)
      /\ \A i \in 1..Len(u) : x[i] = u[i]
      /\ \A i \in 1..Len(w) : x[Len(u) + i] = w[i]
  BY SMTT(60), <1>1, <1>2, RangeConcat
<1> HIDE DEF x
<1>4. ASSUME NEW i \in 1..Len(v) PROVE v[i] = x[i]
  <2>1. CASE i \in 1..Len(u)
    BY Zenon, <1>1, <1>3, <2>1
  <2>2. CASE i \notin 1..Len(u)
    <3>1. i - Len(u) \in 1..(Len(v) - Len(u)) /\ Len(u) + (i - Len(u)) = i
      BY <1>1, <2>2
    <3>2. QED
      BY ZenonT(60), <1>2, <1>3, <3>1
  <2>3. QED
    BY Zenon, <2>1, <2>2
<1>5. v = [i \in 1..Len(v) |-> v[i]] /\ x = [i \in 1..Len(v) |-> x[i]]
  BY <1>3
<1>6. v = x
  BY Zenon, <1>4, <1>5
<1>7. QED
  BY Zenon, <1>2, <1>6 DEF w, x

\* The adapter's prefix and the prefix of a listing are ordinary paths.
LEMMA Prefixes ==
    ASSUME TypeOK
    PROVE  Ordinary(Prefix) /\ Ordinary(ListPrefix)
<1> DEFINE N == Nat \ ({0, 1} \cup DOMAIN Backslashed)
<1>1. \A p \in Seq(N) : Ordinary(p)
  <2>1. \A p \in Seq(N) : p \in Seq(Nat) /\ \A i \in 1..Len(p) : p[i] \in N
    OBVIOUS
  <2>2. QED
    BY Zenon, <2>1 DEF Ordinary
<1>2. Prefix \in Seq(N) /\ options.directory \in Seq(N)
  BY Zenon, ListingAssumption DEF TypeOK
<1>3. Prefix \o options.directory \in Seq(N)
  BY <1>2
<1>4. QED
  BY Zenon, <1>1, <1>2, <1>3 DEF ListPrefix, key

\* The logical path of a key is the key without its prefix and its empty
\* segments, and with slashes for backslashes.
LEMMA LogicalPath ==
    ASSUME NEW k \in Seq(Nat)
    PROVE  /\ logicalPath(k) \in Seq(Nat)
           /\ logicalPath(k) # None => key(logicalPath(k)) = Normalized(Slashed(k))
<1>1. Ordinary(Prefix)
  BY ListingAssumption DEF Ordinary
<1> DEFINE rest == SubSeq(k, Len(Prefix) + 1, Len(k))
<1>2. CASE ~HasPrefix(k, Prefix)
  BY <1>2 DEF logicalPath, None
<1>3. CASE HasPrefix(k, Prefix) /\ 1 \in Range(Slashed(rest))
  BY <1>3 DEF logicalPath, ParsePath, None
<1>4. CASE HasPrefix(k, Prefix) /\ 1 \notin Range(Slashed(rest))
  <2>1. rest \in Seq(Nat) /\ k = Prefix \o rest
    BY Zenon, <1>1, <1>4, Split DEF Ordinary
  <2>2. logicalPath(k) = Normalized(Slashed(rest))
    BY Zenon, <1>4 DEF logicalPath, ParsePath
  <2> HIDE DEF rest
  <2>3. Normalized(Slashed(Prefix \o rest)) = Prefix \o Normalized(Slashed(rest))
    BY Zenon, <1>1, <2>1, NormalizedBehind
  <2>4. QED
    BY Zenon, <2>1, <2>2, <2>3, NormalizedType, Halves DEF key
<1>5. QED
  BY Zenon, <1>2, <1>3, <1>4

\* What the service serves for a key.
LEMMA ItemType ==
    ASSUME TypeOK, NEW k \in Listed(Keys)
    PROVE  /\ Item(k) \in Items
           /\ Normal(k) => Ordinary(Item(k).path)
           /\ HasPrefix(Item(k).path, ListPrefix)
<1> DEFINE depth == Len(ListPrefix) + 1
<1>1. k \in Seq(Nat) /\ Beneath(k, ListPrefix)
  BY ListingAssumption DEF Listed
<1>2. ListPrefix \in Seq(Nat)
  BY Zenon, Prefixes DEF Ordinary
<1>3. depth \in Nat /\ 1 <= depth /\ depth <= Len(k)
  BY SMTT(60), <1>1, <1>2 DEF Beneath, HasPrefix
<1> HIDE DEF depth
<1>4. Normal(k) => \A n \in 1..Len(k) : k[n] # 0 /\ k[n] \notin DOMAIN Backslashed
  <2>1. DOMAIN k = 1..Len(k)
    BY <1>1
  <2>2. QED
    BY Zenon, <2>1 DEF Normal, Range
<1>5. CASE options.recursive \/ Len(k) = depth
  <2>1. Item(k) = [path |-> k, kind |-> "file"]
    BY Zenon, <1>5 DEF Item, depth
  <2>2. Item(k).path = k /\ Item(k) \in Items
    BY <1>1, <2>1 DEF Items, Kinds
  <2>3. QED
    BY Zenon, <1>1, <1>4, <2>2 DEF Ordinary, Beneath
<1>6. CASE ~(options.recursive \/ Len(k) = depth)
  <2>1. Item(k) = [path |-> SubSeq(k, 1, depth), kind |-> "directory"]
    BY Zenon, <1>6 DEF Item, depth
  <2>2. /\ SubSeq(k, 1, depth) \in Seq(Nat) /\ Len(SubSeq(k, 1, depth)) = depth
        /\ \A n \in 1..depth : SubSeq(k, 1, depth)[n] = k[n] /\ n \in 1..Len(k)
    BY <1>1, <1>3
  <2>3. Item(k).path = SubSeq(k, 1, depth) /\ Item(k) \in Items
    BY <2>1, <2>2 DEF Items, Kinds
  <2>4. Normal(k) => Ordinary(Item(k).path)
    BY Zenon, <1>4, <2>2, <2>3 DEF Ordinary
  <2>5. HasPrefix(SubSeq(k, 1, depth), ListPrefix)
    <3>1. Len(ListPrefix) <= depth /\ SubSeq(k, 1, Len(ListPrefix)) = ListPrefix
      BY <1>1, <1>2 DEF Beneath, HasPrefix, depth
    <3>2. SubSeq(SubSeq(k, 1, depth), 1, Len(ListPrefix)) = SubSeq(k, 1, Len(ListPrefix))
      BY SMTT(60), <1>1, <1>2, <1>3, <3>1
    <3>3. QED
      BY Zenon, <2>2, <3>1, <3>2 DEF HasPrefix
  <2>6. QED
    BY Zenon, <2>3, <2>4, <2>5
<1>7. QED
  BY <1>5, <1>6

\* The entry of an item; ordinary keys have entries of their own.
LEMMA EntryType ==
    /\ \A i \in Items : Entry(i) \in Items
    /\ \A i, j \in Items :
          /\ Entry(i) = Entry(j)
          /\ logicalPath(i.path) # None
          /\ Ordinary(i.path) /\ Ordinary(j.path)
          => i = j
<1>1. \A i \in Items : i.path \in Seq(Nat) /\ i.kind \in Kinds
  BY DEF Items
<1>2. ASSUME NEW i \in Items PROVE Entry(i) \in Items
  BY <1>1, LogicalPath DEF Entry, Items
<1>3. ASSUME NEW i \in Items, NEW j \in Items, Entry(i) = Entry(j),
             logicalPath(i.path) # None, Ordinary(i.path), Ordinary(j.path)
      PROVE  i = j
  <2>1. logicalPath(i.path) = logicalPath(j.path) /\ i.kind = j.kind
    BY <1>3 DEF Entry
  <2>2. Normalized(Slashed(i.path)) = i.path /\ Normalized(Slashed(j.path)) = j.path
    BY Zenon, <1>3, NormalizedSame
  <2>3. i.path = j.path
    BY Zenon, <1>1, <1>3, <2>1, <2>2, LogicalPath
  <2>4. QED
    BY <2>1, <2>3 DEF Items
<1>4. QED
  BY Zenon, <1>2, <1>3
-----------------------------------------------------------------------------
(* Pages.                                                                  *)

\* Sequences without repetition that have nothing in common.
LEMMA DistinctConcat ==
    ASSUME NEW S, NEW s \in Seq(S), NEW t \in Seq(S), Distinct(s), Distinct(t),
           Range(s) \cap Range(t) = {}
    PROVE  Distinct(s \o t)
<1> DEFINE w == s \o t
<1>1. /\ Len(s) \in Nat /\ Len(t) \in Nat /\ Len(w) = Len(s) + Len(t)
      /\ \A i \in 1..Len(s) : w[i] = s[i]
      /\ \A i \in 1..Len(t) : w[Len(s) + i] = t[i]
  BY RangeConcat
<1>2. \A i \in 1..Len(s), j \in 1..Len(t) : s[i] # t[j]
  <2>1. DOMAIN s = 1..Len(s) /\ DOMAIN t = 1..Len(t)
    OBVIOUS
  <2>2. QED
    BY Zenon, <2>1 DEF Range
<1> HIDE DEF w
<1>3. ASSUME NEW i \in 1..Len(w), i \notin 1..Len(s)
      PROVE  i - Len(s) \in 1..Len(t) /\ w[i] = t[i - Len(s)]
  <2>1. i - Len(s) \in 1..Len(t) /\ Len(s) + (i - Len(s)) = i
    BY <1>1, <1>3
  <2>2. QED
    BY Zenon, <1>1, <2>1
<1>4. ASSUME NEW i \in 1..Len(w), NEW j \in 1..Len(w), w[i] = w[j]
      PROVE  i = j
  <2>1. CASE i \in 1..Len(s) /\ j \in 1..Len(s)
    BY Zenon, <1>1, <1>4, <2>1 DEF Distinct
  <2>2. CASE i \in 1..Len(s) /\ j \notin 1..Len(s)
    <3>1. w[i] = s[i] /\ j - Len(s) \in 1..Len(t) /\ w[j] = t[j - Len(s)]
      BY Zenon, <1>1, <1>3, <2>2
    <3>2. QED
      BY Zenon, <1>2, <1>4, <2>2, <3>1
  <2>3. CASE i \notin 1..Len(s) /\ j \in 1..Len(s)
    <3>1. w[j] = s[j] /\ i - Len(s) \in 1..Len(t) /\ w[i] = t[i - Len(s)]
      BY Zenon, <1>1, <1>3, <2>3
    <3>2. QED
      BY Zenon, <1>2, <1>4, <2>3, <3>1
  <2>4. CASE i \notin 1..Len(s) /\ j \notin 1..Len(s)
    <3>1. i - Len(s) = j - Len(s)
      BY Zenon, <1>3, <1>4, <2>4 DEF Distinct
    <3>2. QED
      BY <1>1, <3>1
  <2>5. QED
    BY Zenon, <2>1, <2>2, <2>3, <2>4
<1>5. QED
  BY Zenon, <1>4 DEF Distinct, w

\* The entries of a page: those of its items that have a path.
LEMMA Added ==
    ASSUME NEW page \in SUBSET Items, IsFiniteSet(page), NEW added \in PageEntries(page)
    PROVE  /\ added \in Seq(Items)
           /\ Range(added) = {Entry(i) : i \in {j \in page : logicalPath(j.path) # None}}
           /\ (\A i, j \in {h \in page : logicalPath(h.path) # None} :
                   Entry(i) = Entry(j) => i = j) => Distinct(added)
<1> DEFINE S == {j \in page : logicalPath(j.path) # None}
<1>1. PICK items \in Bijection(1..Cardinality(S), S) :
         added = [n \in DOMAIN items |-> Entry(items[n])]
  BY DEF PageEntries, Arrangements
<1>2. S \in SUBSET page /\ \A i \in S : i \in Items
  OBVIOUS
<1>3. IsFiniteSet(S)
  BY Zenon, <1>2, FS_Subset
<1> HIDE DEF S
<1>4. items \in Seq(S) /\ Range(items) = S /\ Distinct(items)
  BY Zenon, <1>3, Enumeration
<1>5. \A n \in 1..Len(items) : items[n] \in S
  BY <1>4
<1>6. added \in Seq(Items) /\ Len(added) = Len(items) /\ Len(items) \in Nat
  BY <1>1, <1>2, <1>4, <1>5, EntryType
<1>7. \A n \in 1..Len(items) : added[n] = Entry(items[n])
  BY <1>1, <1>4
<1>8. DOMAIN added = 1..Len(items) /\ DOMAIN items = 1..Len(items)
  BY <1>4, <1>6
<1>9. Range(added) = {Entry(i) : i \in S}
  <2>1. ASSUME NEW e \in Range(added) PROVE \E i \in S : e = Entry(i)
    BY Zenon, <1>5, <1>7, <1>8 DEF Range
  <2>2. ASSUME NEW i \in S PROVE Entry(i) \in Range(added)
    <3>1. PICK n \in 1..Len(items) : items[n] = i
      BY Zenon, <1>4, <1>8 DEF Range
    <3>2. QED
      BY Zenon, <1>7, <1>8, <3>1 DEF Range
  <2>3. QED
    BY Zenon, <2>1, <2>2
<1>10. (\A i, j \in S : Entry(i) = Entry(j) => i = j) => Distinct(added)
  <2> SUFFICES ASSUME \A i, j \in S : Entry(i) = Entry(j) => i = j,
                      NEW m \in 1..Len(added), NEW n \in 1..Len(added), added[m] = added[n]
               PROVE  m = n
    BY Zenon DEF Distinct
  <2>1. m \in 1..Len(items) /\ n \in 1..Len(items)
    BY Zenon, <1>6
  <2>2. items[m] = items[n]
    BY Zenon, <1>5, <1>7, <2>1
  <2>3. QED
    BY Zenon, <1>4, <2>1, <2>2 DEF Distinct
<1>11. QED
  BY Zenon, <1>6, <1>9, <1>10 DEF S

\* The items that are left to serve.
LEMMA RemainingItems ==
    ASSUME Inv, phase = "page"
    PROVE  /\ Remaining \in SUBSET Items
           /\ \A i \in Remaining : \E k \in Listed(bucket) : i = Item(k)
           /\ \A k \in Listed(bucket) :
                 Item(k) \notin Remaining => token # None /\ ~ItemBefore(token, Item(k))
           /\ \A i \in Remaining : token # None => ItemBefore(token, i)
           /\ Listed(steady) \subseteq Listed(bucket) /\ Listed(bucket) \subseteq Listed(seen)
           /\ Listed(seen) \subseteq Listed(Keys)
<1>1. /\ Listed(steady) \subseteq Listed(bucket) /\ Listed(bucket) \subseteq Listed(seen)
      /\ Listed(seen) \subseteq Listed(Keys)
  BY DEF Inv, Sound, ListShape, TypeOK, Listed
<1>2. \A k \in Listed(bucket) : Item(k) \in Items
  BY Zenon, <1>1, ItemType DEF Inv, ListShape
<1>3. Remaining \in SUBSET Items
  BY Zenon, <1>2 DEF Remaining
<1>4. \A i \in Remaining : \E k \in Listed(bucket) : i = Item(k)
  BY Zenon DEF Remaining
<1>5. ASSUME NEW k \in Listed(bucket), Item(k) \notin Remaining
      PROVE  token # None /\ ~ItemBefore(token, Item(k))
  <2>1. Item(k) \in {Item(h) : h \in Listed(bucket)}
    OBVIOUS
  <2>2. QED
    BY <1>5, <2>1 DEF Remaining
<1>6. \A i \in Remaining : token # None => ItemBefore(token, i)
  BY Zenon DEF Remaining
<1>7. QED
  BY Zenon, <1>1, <1>3, <1>4, <1>5, <1>6

\* What is collected when a page has been added: entries of keys that were
\* there, each from the pages before or from this one; none twice when the keys
\* have no empty segments; and all that stayed up to the end of the page.
LEMMA Collects ==
    ASSUME Inv, phase = "page", NEW page \in SUBSET Remaining, IsPage(page),
           NEW added \in PageEntries(page), NEW all, all = entries \o added
    PROVE  /\ all \in Seq(Items)
           /\ \A e \in Range(all) : \E k \in Listed(seen) :
                 /\ HasPath(k) /\ e = Entry(Item(k))
                 /\ Item(k) \in page \/ (token \in Items \ {None} /\ ~ItemBefore(token, Item(k)))
           /\ (\A k \in seen : Normal(k)) => Distinct(all)
           /\ \A k \in Listed(steady) :
                 HasPath(k) /\ (Item(k) \in page \/ Item(k) \notin Remaining) =>
                    Entry(Item(k)) \in Range(all)
<1>1. page \in SUBSET Items /\ IsFiniteSet(page)
  BY Zenon, RemainingItems DEF IsPage
<1> DEFINE S == {j \in page : logicalPath(j.path) # None}
<1>2. /\ added \in Seq(Items) /\ Range(added) = {Entry(i) : i \in S}
      /\ (\A i, j \in S : Entry(i) = Entry(j) => i = j) => Distinct(added)
  BY Zenon, <1>1, Added
<1>3. entries \in Seq(Items) /\ Result = entries
  BY DEF Inv, Sound, Result
<1>4. all \in Seq(Items) /\ Range(all) = Range(entries) \cup Range(added)
  <2> HIDE DEF S
  <2>1. added \in Seq(Items)
    BY Zenon, <1>2
  <2>2. /\ entries \o added \in Seq(Items)
        /\ Range(entries \o added) = Range(entries) \cup Range(added)
    BY <1>3, <2>1, RangeConcat
  <2>3. QED
    BY Zenon, <2>2
<1>5. ASSUME NEW e \in Range(entries)
      PROVE  \E k \in Listed(seen) : /\ HasPath(k) /\ e = Entry(Item(k))
                                     /\ token \in Items \ {None} /\ ~ItemBefore(token, Item(k))
  BY Zenon, <1>3 DEF Inv, Came
<1>6. ASSUME NEW i \in S
      PROVE  \E k \in Listed(seen) : HasPath(k) /\ i = Item(k)
  <2>1. i \in Remaining /\ logicalPath(i.path) # None
    OBVIOUS
  <2>2. PICK k \in Listed(bucket) : i = Item(k)
    BY Zenon, <2>1, RemainingItems
  <2>3. QED
    BY Zenon, <2>1, <2>2, RemainingItems DEF HasPath
<1>7. ASSUME NEW e \in Range(all)
      PROVE  \E k \in Listed(seen) :
                /\ HasPath(k) /\ e = Entry(Item(k))
                /\ Item(k) \in page \/ (token \in Items \ {None} /\ ~ItemBefore(token, Item(k)))
  <2>1. CASE e \in Range(entries)
    BY Zenon, <1>5, <2>1
  <2>2. CASE e \in Range(added)
    <3>1. PICK i \in S : e = Entry(i)
      BY Zenon, <1>2, <2>2
    <3>2. QED
      BY Zenon, <1>6, <3>1
  <2>3. QED
    BY Zenon, <1>4, <2>1, <2>2
<1>8. ASSUME \A k \in seen : Normal(k)
      PROVE  Distinct(all)
  <2>1. \A k \in Listed(seen) : Item(k) \in Items /\ Ordinary(Item(k).path)
    <3>1. \A k \in Listed(seen) : k \in Listed(Keys) /\ Normal(k)
      BY Zenon, <1>8, RemainingItems DEF Listed
    <3>2. TypeOK
      BY DEF Inv, ListShape
    <3>3. QED
      BY Zenon, <3>1, <3>2, ItemType
  <2>2. \A k, l \in Listed(seen) :
           HasPath(k) /\ Entry(Item(k)) = Entry(Item(l)) => Item(k) = Item(l)
    BY Zenon, <2>1, EntryType DEF HasPath
  <2>3. \A i, j \in S : Entry(i) = Entry(j) => i = j
    <3> SUFFICES ASSUME NEW i \in S, NEW j \in S, Entry(i) = Entry(j) PROVE i = j
      OBVIOUS
    <3> HIDE DEF S
    <3>1. PICK k \in Listed(seen) : HasPath(k) /\ i = Item(k)
      BY Zenon, <1>6
    <3>2. PICK l \in Listed(seen) : HasPath(l) /\ j = Item(l)
      BY Zenon, <1>6
    <3>3. QED
      BY Zenon, <2>2, <3>1, <3>2
  <2>4. Range(entries) \cap Range(added) = {}
    <3> SUFFICES ASSUME NEW e \in Range(entries), e \in Range(added)
                 PROVE  FALSE
      BY Zenon
    <3>1. PICK k \in Listed(seen) : /\ HasPath(k) /\ e = Entry(Item(k))
                                   /\ token \in Items \ {None} /\ ~ItemBefore(token, Item(k))
      BY Zenon, <1>5
    <3>2. PICK i \in S : e = Entry(i)
      BY Zenon, <1>2
    <3>3. i \in Remaining
      OBVIOUS
    <3> HIDE DEF S
    <3>4. PICK l \in Listed(seen) : HasPath(l) /\ i = Item(l)
      BY Zenon, <1>6
    <3>5. i = Item(k)
      BY Zenon, <2>2, <3>1, <3>2, <3>4
    <3>6. ItemBefore(token, i)
      BY Zenon, <3>1, <3>3, RemainingItems
    <3>7. QED
      BY Zenon, <3>1, <3>5, <3>6
  <2>5. Distinct(entries)
    BY Zenon, <1>3, <1>8 DEF Inv, ListShape, ListedOnce, Distinct
  <2>6. QED
    BY Zenon, <1>2, <1>3, <2>3, <2>4, <2>5, DistinctConcat
<1>9. ASSUME NEW k \in Listed(steady), HasPath(k), Item(k) \in page \/ Item(k) \notin Remaining
      PROVE  Entry(Item(k)) \in Range(all)
  <2>1. CASE Item(k) \in page
    <3>1. Item(k) \in S
      BY Zenon, <1>9, <2>1 DEF HasPath
    <3>2. QED
      BY Zenon, <1>2, <1>4, <3>1
  <2>2. CASE Item(k) \notin Remaining
    <3>1. token # None /\ ~ItemBefore(token, Item(k))
      BY Zenon, <2>2, RemainingItems
    <3>2. QED
      BY Zenon, <1>4, <1>9, <3>1 DEF Inv, Complete
  <2>3. QED
    BY Zenon, <1>9, <2>1, <2>2
<1>10. QED
  BY Zenon, <1>4, <1>7, <1>8, <1>9
-----------------------------------------------------------------------------
(* The steps.                                                              *)

\* The options alone say what is listed, and as what.
LEMMA SameItems ==
    ASSUME options' = options
    PROVE  /\ ListPrefix' = ListPrefix
           /\ \A k : Item(k)' = Item(k)
           /\ \A k : HasPath(k)' <=> HasPath(k)
<1>1. ListPrefix' = ListPrefix
  BY DEF ListPrefix
<1>2. \A k : Item(k)' = Item(k)
  BY Zenon, <1>1 DEF Item
<1>3. QED
  BY Zenon, <1>1, <1>2 DEF HasPath

\* The kinds of entries.
LEMMA KindsOf ==
    ASSUME NEW s \in Seq(Items)
    PROVE  \A i \in 1..Len(s) : s[i].kind \in Kinds
<1>1. \A i \in 1..Len(s) : s[i] \in Items
  OBVIOUS
<1>2. \A e \in Items : e.kind \in Kinds
  BY DEF Items
<1>3. QED
  BY Zenon, <1>1, <1>2

\* Nothing shown breaks no promise about what is shown.
LEMMA NothingShown ==
    ASSUME TypeOK', Sound', Result' = <<>>, phase' \in {"idle", "page", "failed"},
           token' = None \/ phase' # "page",
           phase' = "page" => maxKeys' \in 1..options'.limit
    PROVE  Inv'
<1>1. Len(<<>>) = 0 /\ Range(<<>>) = {}
  BY DEF Range
<1>2. WithinLimit'
  BY <1>1 DEF WithinLimit, TypeOK
<1>3. AsksForTheRest'
  <2>1. phase' = "page" => entries' = <<>>
    BY DEF Result
  <2>2. phase' = "page" => options'.limit \in 1..MaxList
    BY DEF TypeOK
  <2>3. QED
    BY <1>1, <2>1, <2>2, ListingAssumption DEF AsksForTheRest
<1>4. Ordered' /\ ListedOnce' /\ ShowsWhatStayed'
  BY <1>1 DEF Ordered, ListedOnce, ShowsWhatStayed
<1>5. Came' /\ Complete'
  BY Zenon, <1>1 DEF Came, Complete
<1>6. QED
  BY Zenon, <1>2, <1>3, <1>4, <1>5 DEF Inv, ListShape

\* The call begins.
LEMMA ListKeeps ==
    ASSUME Inv, List
    PROVE  Inv'
<1>1. PICK directory \in Directories, recursive \in BOOLEAN, limit \in Limits :
         LET bound == effectiveListLimit(limit, MaxList) IN
         /\ options' = [directory |-> directory, recursive |-> recursive, limit |-> bound]
         /\ IF limit < 0
            THEN phase' = "failed" /\ maxKeys' = 0
            ELSE phase' = "page" /\ maxKeys' = pageSize(bound, 0)
  BY Zenon DEF List
<1> DEFINE bound == effectiveListLimit(limit, MaxList)
<1>2. /\ token' = None /\ entries' = <<>> /\ current' = <<>> /\ broken' = FALSE
      /\ steady' = bucket /\ seen' = bucket /\ bucket' = bucket
  BY DEF List
<1>3. bound \in Int /\ (~(limit < 0) => bound \in 1..MaxList)
  BY ListingAssumption DEF effectiveListLimit, Low
<1>4. pageSize(bound, 0) \in Int
      /\ (~(limit < 0) => pageSize(bound, 0) \in 1..PageMax /\ pageSize(bound, 0) <= bound)
  BY <1>3, ListingAssumption DEF pageSize, Low
<1> HIDE DEF bound
<1>5. /\ options'.limit = bound
      /\ options' \in [directory : Directories, recursive : BOOLEAN, limit : Int]
  BY <1>1, <1>3 DEF bound
<1>6. \/ phase' = "failed" /\ maxKeys' = 0
      \/ phase' = "page" /\ bound \in 1..MaxList /\ maxKeys' \in 1..PageMax /\ maxKeys' <= bound
  BY <1>1, <1>3, <1>4 DEF bound
<1>7. Len(entries') = 0 /\ entries' \in Seq(Items) /\ current' \in Seq(Items)
  BY <1>2
<1>8. TypeOK'
  <2>1. bucket \subseteq Keys
    BY Zenon DEF Inv, ListShape, TypeOK
  <2>2. maxKeys' \in 0..PageMax
    BY <1>6, ListingAssumption
  <2>3. phase' \in Phases /\ (phase' \in {"page", "listed"} => options'.limit \in 1..MaxList)
    BY <1>5, <1>6 DEF Phases
  <2>4. \A i \in 1..Len(entries') : entries'[i].kind \in Kinds
    BY Zenon, <1>7, KindsOf
  <2>5. broken' \in BOOLEAN /\ bucket' \subseteq Keys /\ steady' \subseteq seen' /\ seen' \subseteq Keys
    BY Zenon, <1>2, <2>1
  <2>6. QED
    BY Zenon, <1>2, <1>5, <2>2, <2>3, <2>4, <2>5 DEF TypeOK
<1>9. Sound'
  BY <1>2, <1>5, <1>6, <1>7 DEF Sound
<1>10. Result' = <<>>
  BY <1>2 DEF Result
<1>11. phase' = "page" => maxKeys' \in 1..options'.limit
  BY <1>3, <1>5, <1>6
<1>12. QED
  BY <1>2, <1>6, <1>8, <1>9, <1>10, <1>11, NothingShown

\* A failed request leaves nothing.
LEMMA FailureKeeps ==
    ASSUME Inv, PageFails
    PROVE  Inv'
<1>1. /\ phase = "page" /\ phase' = "failed" /\ entries' = <<>> /\ current = <<>>
      /\ UNCHANGED <<bucket, options, maxKeys, token, current, broken, steady, seen>>
  BY DEF PageFails, Inv, Sound
<1>2. entries' \in Seq(Items) /\ Len(entries') = 0
  BY <1>1
<1>3. TypeOK'
  BY <1>1, <1>2 DEF Inv, ListShape, TypeOK, Phases
<1>4. Sound'
  BY <1>1, <1>2 DEF Inv, Sound
<1>5. Result' = <<>>
  BY <1>1 DEF Result
<1>6. QED
  BY <1>1, <1>3, <1>4, <1>5, NothingShown

\* The iterator only moves what is shown from one hand to the other.
LEMMA IteratorKeeps ==
    ASSUME Inv, IterNext \/ IterClose
    PROVE  Inv'
<1>1. /\ phase = "listed" /\ phase' \in {"listed", "closed"}
      /\ UNCHANGED <<bucket, options, maxKeys, token, broken, steady, seen>>
  BY DEF IterNext, IterClose
<1>2. entries \in Seq(Items) /\ current \in Seq(Items) /\ Result = current \o entries
  BY <1>1 DEF Inv, Sound, Result
<1>3. /\ entries' \in Seq(Items) /\ current' \in Seq(Items)
      /\ current' \o entries' = current \o entries
  <2>1. CASE IterNext
    <3>1. entries # <<>> /\ current' = Append(current, Head(entries)) /\ entries' = Tail(entries)
      BY <2>1 DEF IterNext
    <3>2. QED
      BY SMTT(60), <1>2, <3>1, HandOver
  <2>2. CASE IterClose
    BY <1>2, <2>2 DEF IterClose
  <2>3. QED
    BY Zenon, <2>1, <2>2
<1>4. Result' = Result
  BY SMTT(60), <1>1, <1>2, <1>3 DEF Result
<1>5. TypeOK'
  <2>1. \A i \in 1..Len(entries') : entries'[i].kind \in Kinds
    BY Zenon, <1>3, KindsOf
  <2>2. QED
    BY <1>1, <2>1 DEF Inv, ListShape, TypeOK, Phases
<1>6. Sound'
  BY <1>1, <1>3 DEF Inv, Sound
<1>7. WithinLimit' /\ AsksForTheRest'
  BY <1>1, <1>4 DEF Inv, ListShape, WithinLimit, AsksForTheRest
<1>8. Ordered'
  BY Zenon, <1>1, <1>4 DEF Inv, ListShape, Ordered
<1>9. ListedOnce'
  BY Zenon, <1>1, <1>4 DEF Inv, ListShape, ListedOnce
<1>10. ListPrefix' = ListPrefix /\ \A k : Item(k)' = Item(k) /\ (HasPath(k)' <=> HasPath(k))
  BY Zenon, <1>1, SameItems
<1>11. Listed(seen)' = Listed(seen) /\ Listed(steady)' = Listed(steady)
  BY ZenonT(60), <1>1, <1>10 DEF Listed
<1>12. Came'
  BY <1>1, <1>4, <1>10, <1>11 DEF Inv, Came
<1>13. Complete'
  BY <1>1 DEF Complete
<1>14. ShowsWhatStayed'
  BY <1>1, <1>4, <1>10, <1>11 DEF Inv, ShowsWhatStayed
<1>15. QED
  BY Zenon, <1>5, <1>6, <1>7, <1>8, <1>9, <1>12, <1>13, <1>14 DEF Inv, ListShape

\* A change of the bucket takes from what stayed and adds to what was.
LEMMA ChangeKeeps ==
    ASSUME Inv, Change
    PROVE  Inv'
<1>1. /\ phase = "page"
      /\ UNCHANGED <<phase, options, maxKeys, token, entries, current, broken>>
      /\ steady' = steady \cap bucket' /\ seen' = seen \cup bucket'
  BY SMTT(60) DEF Change
<1>2. bucket' \subseteq Keys
  BY DEF Change, Inv, ListShape, TypeOK
<1>3. TypeOK'
  BY SMTT(60), <1>1, <1>2 DEF Inv, ListShape, TypeOK
<1>4. Sound'
  BY <1>1 DEF Inv, Sound
<1>5. Result' = Result
  BY SMTT(60), <1>1 DEF Result
<1>6. WithinLimit' /\ AsksForTheRest' /\ Ordered' /\ ShowsWhatStayed'
  BY <1>1, <1>5 DEF Inv, ListShape, WithinLimit, AsksForTheRest, Ordered, ShowsWhatStayed
<1>7. ListedOnce'
  BY Zenon, <1>1, <1>5 DEF Inv, ListShape, ListedOnce
<1>8. ListPrefix' = ListPrefix /\ \A k : Item(k)' = Item(k) /\ (HasPath(k)' <=> HasPath(k))
  BY Zenon, <1>1, SameItems
<1>9. Listed(seen) \subseteq Listed(seen)' /\ Listed(steady)' \subseteq Listed(steady)
  BY <1>1, <1>8 DEF Listed
<1>10. Came'
  BY Zenon, <1>1, <1>5, <1>8, <1>9 DEF Inv, Came
<1>11. Complete'
  BY Zenon, <1>1, <1>8, <1>9 DEF Inv, Complete
<1>12. QED
  BY Zenon, <1>3, <1>4, <1>6, <1>7, <1>10, <1>11 DEF Inv, ListShape

\* The last page: enough is collected, or there is no more.
LEMMA LastPageKeeps ==
    ASSUME Inv, phase = "page", UNCHANGED <<bucket, options, current, steady, seen>>,
           NEW page \in SUBSET Remaining, IsPage(page), NEW next,
           broken' = (page # Remaining /\ next = None),
           NEW added \in PageEntries(page), NEW all, all = entries \o added,
           Len(all) >= options.limit \/ paginationComplete(page # Remaining, next),
           Collected(all)
    PROVE  Inv'
<1> DEFINE n == Low(Len(all), options.limit)
           cut == SubSeq(all, 1, n)
<1>1. /\ all \in Seq(Items)
      /\ \A e \in Range(all) : \E k \in Listed(seen) : HasPath(k) /\ e = Entry(Item(k))
      /\ (\A k \in seen : Normal(k)) => Distinct(all)
      /\ \A k \in Listed(steady) :
            HasPath(k) /\ (Item(k) \in page \/ Item(k) \notin Remaining) =>
               Entry(Item(k)) \in Range(all)
  <2>1. \A e \in Range(all) : \E k \in Listed(seen) :
           /\ HasPath(k) /\ e = Entry(Item(k))
           /\ Item(k) \in page \/ (token \in Items \ {None} /\ ~ItemBefore(token, Item(k)))
    BY Zenon, Collects
  <2>2. \A e \in Range(all) : \E k \in Listed(seen) : HasPath(k) /\ e = Entry(Item(k))
    BY Zenon, <2>1
  <2>3. QED
    BY Zenon, <2>2, Collects
<1>2. phase' = "listed" /\ entries' \in newIterator(cut) /\ UNCHANGED <<token, maxKeys>>
  BY DEF Collected
<1>3. Len(all) \in Nat /\ options.limit \in 1..MaxList /\ MaxList \in Nat
  BY SMTT(60), <1>1, ListingAssumption DEF Inv, ListShape, TypeOK
<1>4. n \in 0..Len(all) /\ n <= options.limit /\ (n < options.limit => n = Len(all))
  BY <1>3 DEF Low
<1> HIDE DEF n
<1>5. /\ cut \in Seq(Items) /\ Len(cut) = n /\ Range(cut) \subseteq Range(all)
      /\ Distinct(all) => Distinct(cut)
      /\ n = Len(all) => cut = all
  BY ZenonT(60), <1>1, <1>4, Cut
<1> HIDE DEF cut
<1>6. /\ entries' \in Seq(Items) /\ Len(entries') = n /\ Range(entries') = Range(cut)
      /\ Distinct(cut) => Distinct(entries')
      /\ \A i \in 1..Len(entries') : \A j \in 1..(i - 1) :
            ~Before(entries'[i].path, entries'[j].path)
  <2>1. PICK s \in newIterator(cut) : entries' = s
    BY Zenon, <1>2
  <2>2. QED
    BY Zenon, <1>5, <2>1, Rearranged
<1>7. current' = <<>> /\ current' \in Seq(Items)
  BY DEF Inv, Sound
<1>8. Result' = entries'
  BY SMTT(60), <1>2, <1>6, <1>7 DEF Result
<1>9. TypeOK'
  <2>1. \A i \in 1..Len(entries') : entries'[i].kind \in Kinds
    BY Zenon, <1>6, KindsOf
  <2>2. QED
    BY Zenon, <1>2, <2>1 DEF Inv, ListShape, TypeOK, Phases
<1>10. Sound'
  BY <1>2, <1>6, <1>7 DEF Inv, Sound
<1>11. WithinLimit' /\ AsksForTheRest'
  BY <1>2, <1>4, <1>6, <1>8 DEF WithinLimit, AsksForTheRest
<1>12. Ordered'
  BY Zenon, <1>6, <1>8 DEF Ordered
<1>13. ListedOnce'
  <2>1. seen' = seen
    OBVIOUS
  <2>2. (\A k \in seen : Normal(k)) => Distinct(entries')
    BY Zenon, <1>1, <1>5, <1>6
  <2>3. QED
    BY ZenonT(60), <1>8, <2>1, <2>2 DEF ListedOnce, Distinct
<1>14. ListPrefix' = ListPrefix /\ \A k : Item(k)' = Item(k) /\ (HasPath(k)' <=> HasPath(k))
  BY Zenon, SameItems
<1>15. Listed(seen)' = Listed(seen) /\ Listed(steady)' = Listed(steady)
  BY Zenon, <1>14 DEF Listed
<1>16. Came'
  <2>1. \A e \in Range(Result') : \E k \in Listed(seen)' : HasPath(k)' /\ e = Entry(Item(k)')
    BY Zenon, <1>1, <1>5, <1>6, <1>8, <1>14, <1>15
  <2>2. QED
    BY Zenon, <1>2, <2>1 DEF Came
<1>17. Complete'
  BY Zenon, <1>2 DEF Complete
<1>18. ShowsWhatStayed'
  <2>1. ASSUME ~broken', Len(Result') < options.limit, NEW k \in Listed(steady), HasPath(k)
        PROVE  Entry(Item(k)) \in Range(Result')
    <3>1. n = Len(all) /\ ~(Len(all) >= options.limit)
      BY <1>3, <1>4, <1>6, <1>8, <2>1
    <3>2. page = Remaining
      BY Zenon, <2>1, <3>1 DEF paginationComplete
    <3>3. Entry(Item(k)) \in Range(all)
      BY Zenon, <1>1, <2>1, <3>2
    <3>4. QED
      BY Zenon, <1>5, <1>6, <1>8, <3>1, <3>3
  <2>2. QED
    BY Zenon, <1>14, <1>15, <2>1 DEF ShowsWhatStayed, HasPath
<1>19. QED
  BY Zenon, <1>9, <1>10, <1>11, <1>12, <1>13, <1>16, <1>17, <1>18 DEF Inv, ListShape

\* A page after which another is asked for.
LEMMA NextPageKeeps ==
    ASSUME Inv, phase = "page", UNCHANGED <<bucket, options, current, steady, seen>>,
           NEW page \in SUBSET Remaining, IsPage(page), NEW next \in Remaining, next # None,
           IsLast(next, page), broken' \in BOOLEAN,
           NEW added \in PageEntries(page), NEW all, all = entries \o added,
           Len(all) < options.limit, AskMore(all, next)
    PROVE  Inv'
<1>1. /\ all \in Seq(Items)
      /\ \A e \in Range(all) : \E k \in Listed(seen) :
            /\ HasPath(k) /\ e = Entry(Item(k))
            /\ Item(k) \in page \/ (token \in Items \ {None} /\ ~ItemBefore(token, Item(k)))
      /\ (\A k \in seen : Normal(k)) => Distinct(all)
      /\ \A k \in Listed(steady) :
            HasPath(k) /\ (Item(k) \in page \/ Item(k) \notin Remaining) =>
               Entry(Item(k)) \in Range(all)
  BY Zenon, Collects
<1>2. /\ phase' = "page" /\ entries' = all /\ token' = next
      /\ maxKeys' = pageSize(options.limit, Len(all))
  BY DEF AskMore
<1>3. /\ next \in Items /\ next \in page /\ \A i \in page : i \in Items
      /\ \A i \in page : i = next \/ ItemBefore(i, next)
      /\ token # None => ItemBefore(token, next)
      /\ \A k \in Listed(seen) : Item(k) \in Items
  <2>1. Remaining \in SUBSET Items /\ (token # None => ItemBefore(token, next))
    BY Zenon, RemainingItems
  <2>2. \A k \in Listed(seen) : Item(k) \in Items
    BY Zenon, RemainingItems, ItemType DEF Inv, ListShape
  <2>3. QED
    BY Zenon, <2>1, <2>2 DEF IsLast
<1>4. /\ Len(all) \in Nat /\ options.limit \in 1..MaxList
      /\ MaxList \in Nat /\ PageMax \in Nat \ {0}
  <2>1. options.limit \in 1..MaxList
    BY Zenon DEF Inv, ListShape, TypeOK
  <2>2. MaxList \in Nat /\ PageMax \in Nat \ {0}
    BY ListingAssumption
  <2>3. Len(all) \in Nat
    BY <1>1
  <2>4. QED
    BY Zenon, <2>1, <2>2, <2>3
<1>5. maxKeys' \in 1..PageMax /\ maxKeys' \in 1..(options.limit - Len(all))
  BY <1>2, <1>4 DEF pageSize, Low
<1>6. Result' = all
  BY SMTT(60), <1>2 DEF Result
<1>7. TypeOK'
  <2>1. \A i \in 1..Len(entries') : entries'[i].kind \in Kinds
    BY Zenon, <1>1, <1>2, KindsOf
  <2>2. token' = None \/ token'.kind \in Kinds
    BY Zenon, <1>2, <1>3 DEF Items
  <2>3. maxKeys' \in 0..PageMax
    BY SMTT(60), <1>4, <1>5
  <2>4. QED
    BY Zenon, <1>2, <2>1, <2>2, <2>3 DEF Inv, ListShape, TypeOK
<1>8. Sound'
  BY Zenon, <1>1, <1>2 DEF Inv, Sound
<1>9. WithinLimit' /\ AsksForTheRest' /\ Ordered' /\ ShowsWhatStayed'
  BY <1>2, <1>4, <1>5, <1>6 DEF WithinLimit, AsksForTheRest, Ordered, ShowsWhatStayed
<1>10. ListedOnce'
  <2>1. seen' = seen
    OBVIOUS
  <2>2. (\A k \in seen : Normal(k)) => \A i, j \in 1..Len(all) : all[i] = all[j] => i = j
    BY Zenon, <1>1 DEF Distinct
  <2>3. QED
    BY ZenonT(60), <1>6, <2>1, <2>2 DEF ListedOnce
<1>11. ListPrefix' = ListPrefix /\ \A k : Item(k)' = Item(k) /\ (HasPath(k)' <=> HasPath(k))
  BY Zenon, SameItems
<1>12. Listed(seen)' = Listed(seen) /\ Listed(steady)' = Listed(steady)
  BY Zenon, <1>11 DEF Listed
<1>13. Came'
  <2>1. ASSUME NEW e \in Range(all)
        PROVE  \E k \in Listed(seen) : /\ HasPath(k) /\ e = Entry(Item(k))
                                       /\ ~ItemBefore(next, Item(k))
    <3>1. PICK k \in Listed(seen) :
             /\ HasPath(k) /\ e = Entry(Item(k))
             /\ Item(k) \in page \/ (token \in Items \ {None} /\ ~ItemBefore(token, Item(k)))
      BY Zenon, <1>1
    <3>2. Item(k) \in Items
      BY Zenon, <1>3
    <3>3. CASE Item(k) \in page
      <4>1. ~ItemBefore(next, next)
        BY Zenon, <1>3, ItemBeforeStrict
      <4>2. ItemBefore(Item(k), next) /\ ItemBefore(next, Item(k)) => ItemBefore(next, next)
        BY Zenon, <1>3, <3>2, ItemBeforeStrict
      <4>3. QED
        BY Zenon, <1>3, <3>1, <3>3, <4>1, <4>2
    <3>4. CASE token \in Items \ {None} /\ ~ItemBefore(token, Item(k))
      <4>1. ItemBefore(token, next)
        BY Zenon, <1>3, <3>4
      <4>2. ItemBefore(token, next) /\ ItemBefore(next, Item(k)) => ItemBefore(token, Item(k))
        BY Zenon, <1>3, <3>2, <3>4, ItemBeforeStrict
      <4>3. QED
        BY Zenon, <3>1, <3>4, <4>1, <4>2
    <3>5. QED
      BY Zenon, <3>1, <3>3, <3>4
  <2>2. \A e \in Range(Result') : \E k \in Listed(seen)' :
           /\ HasPath(k)' /\ e = Entry(Item(k)')
           /\ token' \in Items \ {None} /\ ~ItemBefore(token', Item(k)')
    BY Zenon, <1>2, <1>3, <1>6, <1>11, <1>12, <2>1
  <2>3. QED
    BY Zenon, <2>2 DEF Came
<1>14. Complete'
  <2>1. ASSUME NEW k \in Listed(steady), HasPath(k), ~ItemBefore(next, Item(k))
        PROVE  Entry(Item(k)) \in Range(all)
    <3>1. Item(k) \in page \/ Item(k) \notin Remaining
      BY Zenon, <1>3, <2>1 DEF IsPage
    <3>2. QED
      BY Zenon, <1>1, <2>1, <3>1
  <2>2. QED
    BY Zenon, <1>2, <1>11, <1>12, <2>1 DEF Complete
<1>15. QED
  BY Zenon, <1>7, <1>8, <1>9, <1>10, <1>13, <1>14 DEF Inv, ListShape

\* One round of the loop.
LEMMA PageKeeps ==
    ASSUME Inv, Page
    PROVE  Inv'
<1>1. phase = "page" /\ UNCHANGED <<bucket, options, current, steady, seen>>
  BY DEF Page
<1>2. PICK page \in SUBSET Remaining, next \in Remaining \cup {None} :
         /\ IsPage(page)
         /\ next # None => page # Remaining /\ IsLast(next, page)
         /\ broken' = (page # Remaining /\ next = None)
         /\ \E added \in PageEntries(page) :
               IF \/ Len(entries \o added) >= options.limit
                  \/ paginationComplete(page # Remaining, next)
               THEN Collected(entries \o added)
               ELSE AskMore(entries \o added, next)
  BY Zenon DEF Page
<1>3. PICK added \in PageEntries(page) :
         IF \/ Len(entries \o added) >= options.limit
            \/ paginationComplete(page # Remaining, next)
         THEN Collected(entries \o added)
         ELSE AskMore(entries \o added, next)
  BY Zenon, <1>2
<1> DEFINE all == entries \o added
<1>4. CASE Len(all) >= options.limit \/ paginationComplete(page # Remaining, next)
  <2>1. Collected(all)
    BY Zenon, <1>3, <1>4
  <2>2. QED
    BY Zenon, <1>1, <1>2, <1>4, <2>1, LastPageKeeps
<1>5. CASE ~(Len(all) >= options.limit \/ paginationComplete(page # Remaining, next))
  <2>1. AskMore(all, next)
    BY Zenon, <1>3, <1>5
  <2>2. next # None
    BY Zenon, <1>5 DEF paginationComplete
  <2>3. Len(all) < options.limit
    <3>1. all \in Seq(Items)
      BY Zenon, <1>1, <1>2, Collects
    <3>2. Len(all) \in Nat /\ options.limit \in 1..MaxList /\ MaxList \in Nat
      BY <1>1, <3>1, ListingAssumption DEF Inv, ListShape, TypeOK
    <3>3. QED
      BY <1>5, <3>2
  <2>4. broken' \in BOOLEAN
    BY <1>2
  <2>5. QED
    BY Zenon, <1>1, <1>2, <2>1, <2>2, <2>3, <2>4, NextPageKeeps
<1>6. QED
  BY Zenon, <1>4, <1>5

-----------------------------------------------------------------------------
(* The theorems.                                                           *)

\* Inv is inductive.
LEMMA InvHolds == Spec => []Inv
<1>1. Init => Inv
  <2> SUFFICES ASSUME Init PROVE Inv
    OBVIOUS
  <2>1. /\ phase = "idle" /\ maxKeys = 0 /\ token = None /\ entries = <<>> /\ current = <<>>
        /\ broken = FALSE /\ steady = {} /\ seen = {} /\ bucket \subseteq Keys
        /\ options \in [directory : Directories, recursive : BOOLEAN, limit : Int]
    <3>1. options \in [directory : Directories, recursive : {FALSE}, limit : {0}]
      BY Zenon DEF Init
    <3>2. options \in [directory : Directories, recursive : BOOLEAN, limit : Int]
      <4>1. {FALSE} \subseteq BOOLEAN /\ {0} \subseteq Int
        OBVIOUS
      <4>2. QED
        BY Zenon, <3>1, <4>1
    <3>3. QED
      BY Zenon, <3>2 DEF Init
  <2>2. Result = <<>> /\ Len(Result) = 0 /\ Range(Result) = {} /\ <<>> \in Seq(Items)
    <3>1. <<>> \in Seq(Items) /\ Len(<<>>) = 0
      OBVIOUS
    <3>2. Range(<<>>) = {}
      BY DEF Range
    <3>3. <<>> \o <<>> = <<>>
      OBVIOUS
    <3>4. QED
      BY Zenon, <2>1, <3>1, <3>2, <3>3 DEF Result
  <2>3. TypeOK
    <3>1. 0 \in 0..PageMax
      BY ListingAssumption
    <3>2. \A i \in 1..Len(entries) : entries[i].kind \in Kinds
      BY Zenon, <2>1, <2>2, KindsOf
    <3>3. QED
      BY Zenon, <2>1, <3>1, <3>2 DEF TypeOK, Phases
  <2>4. WithinLimit /\ AsksForTheRest /\ Ordered /\ Complete /\ ShowsWhatStayed
    BY <2>1 DEF WithinLimit, AsksForTheRest, Ordered, Complete, ShowsWhatStayed
  <2>5. ListedOnce /\ Sound
    BY <2>1, <2>2 DEF ListedOnce, Sound
  <2>6. Came
    BY Zenon, <2>2 DEF Came
  <2>7. QED
    BY Zenon, <2>3, <2>4, <2>5, <2>6 DEF Inv, ListShape
<1>2. Inv /\ [Next]_vars => Inv'
  <2> SUFFICES ASSUME Inv, [Next]_vars PROVE Inv'
    OBVIOUS
  <2>1. CASE Next
    BY Zenon, <2>1, ListKeeps, PageKeeps, FailureKeeps, IteratorKeeps, ChangeKeeps DEF Next
  <2>2. CASE UNCHANGED vars
    <3>1. /\ bucket' = bucket /\ phase' = phase /\ options' = options /\ maxKeys' = maxKeys
          /\ token' = token /\ entries' = entries /\ current' = current /\ broken' = broken
          /\ steady' = steady /\ seen' = seen
      BY Zenon, <2>2 DEF vars
    <3>2. /\ ListPrefix' = ListPrefix /\ \A k : Item(k)' = Item(k) /\ (HasPath(k)' <=> HasPath(k))
          /\ Result' = Result
      BY Zenon, <3>1, SameItems DEF Result
    <3>3. Listed(seen)' = Listed(seen) /\ Listed(steady)' = Listed(steady)
      BY ZenonT(60), <3>1, <3>2 DEF Listed
    <3>4. TypeOK'
      BY <3>1 DEF Inv, ListShape, TypeOK
    <3>5. WithinLimit' /\ AsksForTheRest' /\ Ordered'
      BY <3>1, <3>2 DEF Inv, ListShape, WithinLimit, AsksForTheRest, Ordered
    <3>6. ListedOnce' /\ Sound'
      BY <3>1, <3>2 DEF Inv, ListShape, ListedOnce, Sound
    <3>7. Came'
      BY Zenon, <3>1, <3>2, <3>3 DEF Inv, Came
    <3>8. Complete'
      BY Zenon, <3>1, <3>2, <3>3 DEF Inv, Complete
    <3>9. ShowsWhatStayed'
      BY Zenon, <3>1, <3>2, <3>3 DEF Inv, ShowsWhatStayed
    <3>10. QED
      BY Zenon, <3>4, <3>5, <3>6, <3>7, <3>8, <3>9 DEF Inv, ListShape
  <2>3. QED
    BY <2>1, <2>2
<1>3. QED
  BY <1>1, <1>2, PTL DEF Spec

\* ListShape: a listing has no more entries than its limit, in the order of
\* their paths, none of them twice when the keys were written through this
\* library, and every request asks for what is missing and at least for one key
\* (s3.go: List, pageSize and newIterator).
THEOREM ListingsAreWellFormed == Spec => []ListShape
<1>1. Inv => ListShape
  BY DEF Inv
<1>2. QED
  BY <1>1, InvHolds, PTL

\* ShowsWhatStayed: a listing that ends below its limit has every object that
\* was there throughout, whatever was put and deleted between its pages (s3.go:
\* List and paginationComplete).
THEOREM ListingsAreComplete == Spec => []ShowsWhatStayed
<1>1. Inv => ShowsWhatStayed
  BY DEF Inv
<1>2. QED
  BY <1>1, InvHolds, PTL

\* ShowsWhatWas: a listing shows nothing that was not there, and each object
\* under its key without the adapter's prefix and the empty segments, and with
\* slashes for backslashes, which is within the directory asked for (s3.go: List
\* and logicalPath; path.go: ParsePath).
THEOREM ListingsAreTruthful == Spec => []ShowsWhatWas
<1>1. Inv => ShowsWhatWas
  <2> SUFFICES ASSUME Inv, NEW e \in Range(Result)
               PROVE  /\ HasPrefix(key(e.path), ListPrefix)
                      /\ \E k \in Listed(seen) :
                            /\ e.kind = Item(k).kind
                            /\ key(e.path) = Normalized(Slashed(Item(k).path))
    BY Zenon DEF ShowsWhatWas
  <2>1. PICK k \in Listed(seen) : HasPath(k) /\ e = Entry(Item(k))
    BY Zenon DEF Inv, Came
  <2>2. k \in Listed(Keys) /\ TypeOK
    BY DEF Inv, ListShape, TypeOK, Listed
  <2>3. Item(k).path \in Seq(Nat)
    BY <2>2, ItemType DEF Items
  <2>4. e.path = logicalPath(Item(k).path) /\ e.kind = Item(k).kind
    BY <2>1 DEF Entry
  <2>5. key(e.path) = Normalized(Slashed(Item(k).path))
    BY Zenon, <2>1, <2>3, <2>4, LogicalPath DEF HasPath
  <2>6. HasPrefix(key(e.path), ListPrefix)
    <3>1. Ordinary(ListPrefix) /\ ListPrefix \in Seq(Nat) /\ HasPrefix(Item(k).path, ListPrefix)
      BY Zenon, <2>2, ItemType, Prefixes DEF Ordinary
    <3>2. PICK rest \in Seq(Nat) : Item(k).path = ListPrefix \o rest
      BY Zenon, <2>3, <3>1, Split
    <3>3. PICK path \in Seq(Nat) : key(e.path) = ListPrefix \o path
      <4>1. Normalized(Slashed(rest)) \in Seq(Nat)
        BY Zenon, Halves, NormalizedType
      <4>2. Normalized(Slashed(ListPrefix \o rest)) = ListPrefix \o Normalized(Slashed(rest))
        BY Zenon, <3>1, NormalizedBehind
      <4>3. QED
        BY Zenon, <2>5, <3>2, <4>1, <4>2
    <3>4. HasPrefix(ListPrefix \o path, ListPrefix)
      BY <3>1 DEF HasPrefix
    <3>5. QED
      BY Zenon, <3>3, <3>4
  <2>7. QED
    BY Zenon, <2>4, <2>5, <2>6
<1>2. QED
  BY <1>1, InvHolds, PTL

\* PagesAdvance: the loop moves past every page it has asked for, whatever is
\* put into the bucket meanwhile (s3.go: List and paginationComplete).
THEOREM LoopAdvances == Spec => PagesAdvance
<1>1. ASSUME [Next]_vars, phase = "page", phase' = "page", UNCHANGED bucket, ~UNCHANGED vars
      PROVE  token' # None /\ (token = None \/ ItemBefore(token, token'))
  <2>1. Page
    BY Zenon, <1>1 DEF Next, List, PageFails, IterNext, IterClose, Change
  <2>2. PICK page \in SUBSET Remaining, next \in Remaining \cup {None} :
           \E added \in PageEntries(page) :
              IF \/ Len(entries \o added) >= options.limit
                 \/ paginationComplete(page # Remaining, next)
              THEN Collected(entries \o added)
              ELSE AskMore(entries \o added, next)
    BY Zenon, <2>1 DEF Page
  <2>3. PICK added \in PageEntries(page) :
           IF \/ Len(entries \o added) >= options.limit
              \/ paginationComplete(page # Remaining, next)
           THEN Collected(entries \o added)
           ELSE AskMore(entries \o added, next)
    BY Zenon, <2>2
  <2>4. ~Collected(entries \o added)
    BY <1>1 DEF Collected
  <2>5. next # None /\ token' = next
    BY Zenon, <2>3, <2>4 DEF paginationComplete, AskMore
  <2>6. next \in Remaining
    BY Zenon, <2>5
  <2>7. QED
    BY ZenonT(60), <2>5, <2>6 DEF Remaining
<1>2. QED
  BY <1>1, PTL DEF Spec, PagesAdvance
=============================================================================
