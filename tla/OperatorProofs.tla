--------------------------- MODULE OperatorProofs ---------------------------
(***************************************************************************)
(* Lemmas about the operators of VMSpec, CloudConfig and Documents: what   *)
(* the merge of two lists, the merge of a hierarchy of cloud-configs and   *)
(* the splitting of a file give, whatever their lengths.                   *)
(***************************************************************************)
EXTENDS VMSpec, CloudConfig, Documents, FiniteSetTheorems,
        NaturalsInduction, WellFoundedInduction, TLAPS

-----------------------------------------------------------------------------
\* Numbers.

\* A set of naturals that is not empty has a least element: Min and Max are
\* there.
LEMMA LeastNat ==
  ASSUME NEW S, S \subseteq Nat, S # {}
  PROVE  \E m \in S : \A k \in S : m <= k
<1>1. IsWellFoundedOn(OpToRel(<, Nat), Nat)
  BY NatLessThanWellFounded
<1>2. PICK m \in S : \A k \in S : ~ (<<k, m>> \in OpToRel(<, Nat))
  BY <1>1, WFMin
<1>3. \A k \in S : ~ (k < m)
  BY <1>2 DEF OpToRel
<1> QED BY <1>3

\* Min of such a set is this least element.
LEMMA LeastIs ==
  ASSUME NEW S, S \subseteq Nat, S # {}
  PROVE  Min(S) \in S /\ \A k \in S : Min(S) <= k
BY LeastNat DEF Min

\* Max of a set of naturals that has a bound is its greatest element.
LEMMA GreatestIs ==
  ASSUME NEW N \in Nat, NEW S, S \subseteq 0 .. N, S # {}
  PROVE  Max(S) \in S /\ \A k \in S : k <= Max(S)
<1> DEFINE R == {r \in Nat : N - r \in S}
<1>1. R \subseteq Nat
  OBVIOUS
<1>2. \A k \in S : N - k \in R
  OBVIOUS
<1>3. PICK r \in R : \A k \in R : r <= k
  <2>1. R # {}
    BY <1>2
  <2> HIDE DEF R
  <2> QED BY <1>1, <2>1, LeastNat
<1>4. N - r \in S /\ \A k \in S : k <= N - r
  BY <1>2, <1>3
<1> QED BY <1>4 DEF Max

\* Induction up to N, over a set.
LEMMA UpToAll ==
  ASSUME NEW N \in Nat, NEW S, 0 \in S, \A n \in 0 .. N : n \in S /\ n < N => n + 1 \in S
  PROVE  \A n \in 0 .. N : n \in S
<1> DEFINE Bad == {n \in 0 .. N : n \notin S}
<1> SUFFICES ASSUME Bad # {} PROVE FALSE
  OBVIOUS
<1>1. PICK m \in Bad : \A k \in Bad : m <= k
  <2>1. Bad \subseteq Nat
    OBVIOUS
  <2> HIDE DEF Bad
  <2> QED BY <2>1, LeastNat
<1>2. m \in 1 .. N
  OBVIOUS
<1>3. m - 1 \in S
  BY <1>1, <1>2
<1>4. m - 1 \in 0 .. N /\ m - 1 < N /\ (m - 1) + 1 = m
  BY <1>2
<1> QED BY <1>3, <1>4

-----------------------------------------------------------------------------
\* Places.

\* The keys of a list are those of its entries.
LEMMA KeyIs ==
  ASSUME NEW s \in Seq(Entries), NEW key
  PROVE  key \in KeysOf(s) <=> \E i \in 1 .. Len(s) : s[i].key = key
<1>1. DOMAIN s = 1 .. Len(s)
  OBVIOUS
<1> QED BY <1>1 DEF KeysOf

\* Place is the first index of a key, if there is one.
LEMMA PlaceIs ==
  ASSUME NEW s \in Seq(Entries), NEW key
  PROVE  /\ Place(s, key) \in 0 .. Len(s)
         /\ Place(s, key) = 0 <=> key \notin KeysOf(s)
         /\ Place(s, key) # 0 => /\ s[Place(s, key)].key = key
                                 /\ \A i \in 1 .. Len(s) : s[i].key = key => Place(s, key) <= i
<1> DEFINE I == {i \in 1 .. Len(s) : s[i].key = key}
<1>1. Place(s, key) = IF I # {} THEN Min(I) ELSE 0
  BY DEF Place, SelectInSeq
<1>2. I # {} => Min(I) \in I /\ \A i \in I : Min(I) <= i
  BY LeastIs
<1>3. I = {} <=> key \notin KeysOf(s)
  BY DEF KeysOf
<1> QED BY <1>1, <1>2, <1>3

\* An index is the place of its key if no earlier entry has that key.
LEMMA PlaceUnique ==
  ASSUME NEW s \in Seq(Entries), NEW i \in 1 .. Len(s),
         \A j \in 1 .. i - 1 : s[j].key # s[i].key
  PROVE  Place(s, s[i].key) = i
<1>1. s[i].key \in KeysOf(s)
  BY DEF KeysOf
<1> QED BY <1>1, PlaceIs

-----------------------------------------------------------------------------
\* Merging of lists.  The merge is a sequence of steps, one per entry of m:
\* merged is what the function of MergeList is.

StepsTo(in, m, n, f) ==
  f = [i \in 0 .. n |-> IF i = 0 THEN in ELSE Put(in, f[i - 1], m[i])]

\* There is such a function for any number of steps.
LEMMA StepsExist ==
  ASSUME NEW in, NEW m, NEW N \in Nat
  PROVE  \E f : StepsTo(in, m, N, f)
<1> DEFINE S == {n \in 0 .. N : \E f : StepsTo(in, m, n, f)}
<1>1. 0 \in S
  <2>1. StepsTo(in, m, 0, [i \in 0 .. 0 |-> in])
    BY DEF StepsTo
  <2>2. 0 \in 0 .. N
    OBVIOUS
  <2> QED BY <2>1, <2>2
<1>2. ASSUME NEW n \in 0 .. N, n \in S, n < N
      PROVE  n + 1 \in S
  <2>1. PICK g : StepsTo(in, m, n, g)
    BY <1>2
  <2> DEFINE h == [i \in 0 .. n + 1 |-> IF i <= n THEN g[i] ELSE Put(in, g[n], m[n + 1])]
  <2>2. ASSUME NEW i \in 0 .. n + 1
        PROVE  h[i] = IF i = 0 THEN in ELSE Put(in, h[i - 1], m[i])
    <3>1. CASE i <= n
      BY <2>1, <3>1 DEF StepsTo
    <3>2. CASE i = n + 1
      BY <2>1, <3>2 DEF StepsTo
    <3> QED BY <3>1, <3>2
  <2>3. StepsTo(in, m, n + 1, h)
    BY <2>2 DEF StepsTo
  <2>4. n + 1 \in 0 .. N
    BY <1>2
  <2> HIDE DEF h
  <2> QED BY <2>3, <2>4
<1>3. N \in 0 .. N
  OBVIOUS
<1> HIDE DEF S
<1>4. N \in S
  BY <1>1, <1>2, <1>3, UpToAll
<1> QED BY <1>4 DEF S

\* What MergeList computes is the last of its steps.
LEMMA MergeListSteps ==
  ASSUME NEW in, NEW m, Len(m) \in Nat
  PROVE  \E f : /\ MergeList(in, m) = f[Len(m)] /\ f[0] = in
                /\ \A n \in 1 .. Len(m) : f[n] = Put(in, f[n - 1], m[n])
<1> DEFINE F == CHOOSE f : StepsTo(in, m, Len(m), f)
<1>1. StepsTo(in, m, Len(m), F)
  BY StepsExist
<1>2. MergeList(in, m) = F[Len(m)]
  BY DEF MergeList, StepsTo
<1>3. F[0] = in /\ \A n \in 1 .. Len(m) : F[n] = Put(in, F[n - 1], m[n])
  <2> HIDE DEF F
  <2> QED BY <1>1 DEF StepsTo
<1> HIDE DEF F
<1> QED BY <1>2, <1>3

\* A list that begins with the keys of another has them at the same places.
LEMMA PlacePrefix ==
  ASSUME NEW s \in Seq(Entries), NEW t \in Seq(Entries), Len(s) <= Len(t),
         \A i \in 1 .. Len(s) : t[i].key = s[i].key,
         NEW key \in KeysOf(s)
  PROVE  Place(t, key) = Place(s, key)
<1> DEFINE p == Place(s, key)
<1>1. /\ p \in 1 .. Len(s) /\ s[p].key = key
      /\ \A i \in 1 .. Len(s) : s[i].key = key => p <= i
  BY PlaceIs
<1>2. /\ p \in 1 .. Len(t) /\ t[p].key = key
      /\ \A i \in 1 .. Len(t) : t[i].key = key => p <= i
  BY <1>1
<1>3. \A j \in 1 .. p - 1 : t[j].key # t[p].key
  BY <1>2
<1> HIDE DEF p
<1>4. Place(t, t[p].key) = p
  BY <1>2, <1>3, PlaceUnique
<1> QED BY <1>2, <1>4 DEF p

-----------------------------------------------------------------------------
\* What the list is after n steps of merging m into in.  It begins with the
\* keys of in; what follows is of m, with keys that in does not have.
MergedTo(in, m, n, list) ==
  /\ list \in Seq(Entries) /\ Len(in) <= Len(list)
  /\ \A i \in 1 .. Len(in) : list[i].key = in[i].key
  /\ \A i \in 1 .. Len(in) : list[i] = in[i] \/ \E j \in 1 .. n : list[i] = m[j]
  /\ \A i \in Len(in) + 1 .. Len(list) :
       list[i].key \notin KeysOf(in) /\ \E j \in 1 .. n : list[i] = m[j]
  /\ \A j \in 1 .. n : m[j].key \in KeysOf(list)
  /\ DistinctKeys(m) => \A j \in 1 .. n : Entry(list, m[j].key) = m[j]
  /\ DistinctKeys(m) => \A i, j \in Len(in) + 1 .. Len(list) : list[i].key = list[j].key => i = j

\* The next entry of m is put where it belongs.
LEMMA MergedToStep ==
  ASSUME NEW in \in Seq(Entries), NEW m \in Seq(Entries), NEW n \in 0 .. Len(m), n < Len(m),
         NEW list, MergedTo(in, m, n, list)
  PROVE  MergedTo(in, m, n + 1, Put(in, list, m[n + 1]))
<1> DEFINE e == m[n + 1]
           new == Put(in, list, e)
           p == Place(in, e.key)
<1>1. /\ list \in Seq(Entries) /\ Len(in) <= Len(list)
      /\ \A i \in 1 .. Len(in) : list[i].key = in[i].key
  BY DEF MergedTo
<1>2. e \in Entries /\ n + 1 \in 1 .. Len(m)
  OBVIOUS
<1>3. \A j \in 1 .. n : DistinctKeys(m) => m[j].key # e.key
  BY DEF DistinctKeys
<1>4. ASSUME NEW key \in KeysOf(list), new \in Seq(Entries), Len(list) <= Len(new),
             \A i \in 1 .. Len(list) : new[i].key = list[i].key
      PROVE  Place(new, key) = Place(list, key)
  BY <1>1, <1>4, PlacePrefix
<1>5. CASE e.key \notin KeysOf(in)
  <2>1. new = Append(list, e)
    BY <1>5, <1>2, PlaceIs DEF Put
  <2>2. /\ new \in Seq(Entries) /\ Len(new) = Len(list) + 1 /\ new[Len(list) + 1] = e
        /\ \A i \in 1 .. Len(list) : new[i] = list[i]
    BY <1>1, <1>2, <2>1
  <2> HIDE DEF new, e, p
  <2>3. \A i \in Len(in) + 1 .. Len(new) :
          new[i].key \notin KeysOf(in) /\ \E j \in 1 .. n + 1 : new[i] = m[j]
    <3> SUFFICES ASSUME NEW i \in Len(in) + 1 .. Len(new)
                 PROVE  new[i].key \notin KeysOf(in) /\ \E j \in 1 .. n + 1 : new[i] = m[j]
      OBVIOUS
    <3>1. CASE i = Len(list) + 1
      BY <1>2, <1>5, <2>2, <3>1 DEF e
    <3>2. CASE i \in Len(in) + 1 .. Len(list)
      BY <2>2, <3>2 DEF MergedTo
    <3> QED BY <1>1, <2>2, <3>1, <3>2
  <2>4. \A i \in 1 .. Len(in) : new[i] = in[i] \/ \E j \in 1 .. n + 1 : new[i] = m[j]
    BY <1>1, <2>2 DEF MergedTo
  <2>5. KeysOf(list) \subseteq KeysOf(new) /\ e.key \in KeysOf(new)
    BY <1>1, <2>2 DEF KeysOf
  <2>6. \A j \in 1 .. n + 1 : m[j].key \in KeysOf(new)
    BY <2>5 DEF MergedTo, e
  <2>7. ASSUME DistinctKeys(m)
        PROVE  e.key \notin KeysOf(list)
    <3> SUFFICES ASSUME NEW i \in 1 .. Len(list), list[i].key = e.key PROVE FALSE
      BY <1>1, KeyIs
    <3>1. i \notin 1 .. Len(in)
      BY <1>1, <1>5, KeyIs
    <3>2. PICK j \in 1 .. n : list[i] = m[j]
      BY <1>1, <3>1 DEF MergedTo
    <3> QED BY <1>3, <2>7, <3>2
  <2>8. ASSUME DistinctKeys(m), NEW j \in 1 .. n + 1
        PROVE  Entry(new, m[j].key) = m[j]
    <3>1. CASE j = n + 1
      <4> DEFINE i == Len(list) + 1
      <4>1. i \in 1 .. Len(new) /\ \A k \in 1 .. i - 1 : new[k].key # new[i].key
        <5>1. \A k \in 1 .. Len(list) : list[k].key # e.key
          BY <1>1, <2>7, <2>8, KeyIs
        <5>2. \A k \in 1 .. Len(list) : new[k].key # e.key
          BY <2>2, <5>1
        <5> QED BY <1>1, <2>2, <5>2
      <4>2. Place(new, e.key) = Len(list) + 1
        <5> HIDE DEF i
        <5>1. Place(new, new[i].key) = i
          BY <2>2, <4>1, PlaceUnique
        <5> QED BY <2>2, <5>1 DEF i
      <4> QED BY <2>2, <3>1, <4>2 DEF Entry, e
    <3>2. CASE j \in 1 .. n
      <4>1. Place(new, m[j].key) = Place(list, m[j].key) /\ Place(list, m[j].key) \in 1 .. Len(list)
        <5>1. m[j].key \in KeysOf(list)
          BY <3>2 DEF MergedTo
        <5>2. Place(new, m[j].key) = Place(list, m[j].key)
          BY <1>1, <1>4, <2>2, <5>1
        <5>3. Place(list, m[j].key) \in 0 .. Len(list) /\ Place(list, m[j].key) # 0
          BY <1>1, <5>1, PlaceIs
        <5>4. Len(list) \in Nat
          BY <1>1
        <5> QED BY <5>2, <5>3, <5>4
      <4>2. Entry(list, m[j].key) = m[j]
        BY <2>8, <3>2 DEF MergedTo
      <4>3. Entry(new, m[j].key) = Entry(list, m[j].key)
        BY <2>2, <4>1 DEF Entry
      <4> QED BY <4>2, <4>3
    <3> QED BY <3>1, <3>2
  <2>9. ASSUME DistinctKeys(m), NEW i \in Len(in) + 1 .. Len(new), NEW j \in Len(in) + 1 .. Len(new),
               new[i].key = new[j].key
        PROVE  i = j
    <3>1. \A k \in 1 .. Len(list) : new[k].key # e.key
      BY <1>1, <2>2, <2>7, <2>9, KeyIs
    <3>2. CASE i \in Len(in) + 1 .. Len(list) /\ j \in Len(in) + 1 .. Len(list)
      <4>1. list[i].key = list[j].key
        BY <1>1, <2>2, <2>9, <3>2
      <4> QED BY <2>9, <3>2, <4>1 DEF MergedTo
    <3> QED BY <1>1, <2>2, <2>9, <3>1, <3>2
  <2> QED BY <1>1, <2>2, <2>3, <2>4, <2>6, <2>8, <2>9 DEF MergedTo, new, e
<1>6. CASE e.key \in KeysOf(in)
  <2>1. p \in 1 .. Len(in) /\ in[p].key = e.key
    BY <1>6, PlaceIs
  <2>2. new = [list EXCEPT ![p] = e]
    BY <2>1 DEF Put
  <2>3. /\ new \in Seq(Entries) /\ Len(new) = Len(list) /\ new[p] = e
        /\ \A i \in 1 .. Len(list) : i # p => new[i] = list[i]
        /\ \A i \in 1 .. Len(list) : new[i].key = list[i].key
    BY <1>1, <1>2, <2>1, <2>2
  <2> HIDE DEF new, e, p
  <2>4. \A i \in 1 .. Len(in) : new[i] = in[i] \/ \E j \in 1 .. n + 1 : new[i] = m[j]
    BY <1>1, <1>2, <2>3 DEF MergedTo, e
  <2>5. \A key : key \in KeysOf(new) <=> key \in KeysOf(list)
    <3> TAKE key
    <3>1. key \in KeysOf(new) <=> \E i \in 1 .. Len(new) : new[i].key = key
      BY <2>3, KeyIs
    <3>2. key \in KeysOf(list) <=> \E i \in 1 .. Len(list) : list[i].key = key
      BY <1>1, KeyIs
    <3>3. Len(new) = Len(list) /\ \A i \in 1 .. Len(list) : new[i].key = list[i].key
      BY <2>3
    <3> QED BY <3>1, <3>2, <3>3
  <2>6. e.key \in KeysOf(list)
    <3>1. p \in 1 .. Len(list) /\ list[p].key = e.key
      BY <1>1, <2>1
    <3> QED BY <1>1, <3>1, KeyIs
  <2>7. \A j \in 1 .. n + 1 : m[j].key \in KeysOf(new)
    <3>1. \A j \in 1 .. n : m[j].key \in KeysOf(list)
      BY DEF MergedTo
    <3>2. \A j \in 1 .. n + 1 : j \in 1 .. n \/ j = n + 1
      OBVIOUS
    <3>3. m[n + 1].key \in KeysOf(list)
      BY <2>6 DEF e
    <3> QED BY <2>5, <3>1, <3>2, <3>3
  <2>8. ASSUME DistinctKeys(m), NEW j \in 1 .. n + 1
        PROVE  Entry(new, m[j].key) = m[j]
    <3>1. CASE j = n + 1
      <4>1. Place(list, e.key) = p
        BY <1>1, <1>6, PlacePrefix DEF p
      <4>2. Place(new, e.key) = p
        BY <1>4, <2>3, <2>6, <4>1
      <4> QED BY <2>3, <3>1, <4>2 DEF Entry, e
    <3>2. CASE j \in 1 .. n
      <4>1. Place(new, m[j].key) = Place(list, m[j].key) /\ Place(list, m[j].key) \in 1 .. Len(list)
            /\ list[Place(list, m[j].key)].key = m[j].key
        BY <1>1, <1>4, <2>3, <3>2, PlaceIs DEF MergedTo
      <4>2. Place(list, m[j].key) # p
        BY <1>1, <1>3, <2>1, <2>8, <3>2, <4>1
      <4> QED BY <2>3, <2>8, <3>2, <4>1, <4>2 DEF Entry, MergedTo
    <3> QED BY <3>1, <3>2
  <2>9. \A i \in Len(in) + 1 .. Len(new) :
          /\ new[i] = list[i]
          /\ new[i].key \notin KeysOf(in) /\ \E j \in 1 .. n + 1 : new[i] = m[j]
    BY <1>1, <2>1, <2>3 DEF MergedTo
  <2> QED BY <1>1, <2>3, <2>4, <2>7, <2>8, <2>9 DEF MergedTo, new, e
<1> QED BY <1>5, <1>6

\* The merge of two lists.  It has the keys of both, and no entries but theirs;
\* it has each key once if both have, and then the entries of m.
LEMMA MergeListIs ==
  ASSUME NEW in \in Seq(Entries), NEW m \in Seq(Entries)
  PROVE  /\ MergeList(in, m) \in Seq(Entries)
         /\ \A key : key \in KeysOf(MergeList(in, m)) <=> key \in KeysOf(in) \/ key \in KeysOf(m)
         /\ \A i \in 1 .. Len(MergeList(in, m)) :
              \/ \E j \in 1 .. Len(in) : MergeList(in, m)[i] = in[j]
              \/ \E j \in 1 .. Len(m) : MergeList(in, m)[i] = m[j]
         /\ DistinctKeys(in) /\ DistinctKeys(m) => DistinctKeys(MergeList(in, m))
         /\ DistinctKeys(m) => \A j \in 1 .. Len(m) : Entry(MergeList(in, m), m[j].key) = m[j]
<1> DEFINE N == Len(m)
<1>1. N \in Nat
  OBVIOUS
<1>2. PICK f : /\ MergeList(in, m) = f[N] /\ f[0] = in
               /\ \A n \in 1 .. N : f[n] = Put(in, f[n - 1], m[n])
  BY <1>1, MergeListSteps
<1>3. MergedTo(in, m, N, f[N])
  <2> DEFINE S == {n \in 0 .. N : MergedTo(in, m, n, f[n])}
  <2>1. 0 \in S
    <3>1. MergedTo(in, m, 0, in)
      BY DEF MergedTo
    <3> QED BY <1>1, <1>2, <3>1
  <2>2. ASSUME NEW n \in 0 .. N, n \in S, n < N
        PROVE  n + 1 \in S
    <3>1. MergedTo(in, m, n + 1, Put(in, f[n], m[n + 1]))
      BY <2>2, MergedToStep
    <3>2. n + 1 \in 1 .. N /\ (n + 1) - 1 = n
      BY <1>1, <2>2
    <3>3. f[n + 1] = Put(in, f[n], m[n + 1])
      BY <1>2, <3>2
    <3> QED BY <3>1, <3>2, <3>3
  <2>3. N \in 0 .. N
    BY <1>1
  <2> HIDE DEF S, N
  <2>4. N \in S
    BY <1>1, <2>1, <2>2, <2>3, UpToAll
  <2> QED BY <2>4 DEF S
<1> DEFINE list == f[N]
<1> HIDE DEF list
<1>4. MergedTo(in, m, N, list)
  BY <1>3 DEF list
<1>5. list \in Seq(Entries) /\ Len(in) <= Len(list) /\ \A i \in 1 .. Len(in) : list[i].key = in[i].key
  BY <1>4 DEF MergedTo
<1>6. \A i \in 1 .. Len(list) : \/ \E j \in 1 .. Len(in) : list[i] = in[j]
                                \/ \E j \in 1 .. N : list[i] = m[j]
  <2> TAKE i \in 1 .. Len(list)
  <2>1. CASE i \in 1 .. Len(in)
    BY <1>4, <2>1 DEF MergedTo
  <2>2. CASE i \in Len(in) + 1 .. Len(list)
    BY <1>4, <2>2 DEF MergedTo
  <2> QED BY <1>5, <2>1, <2>2
<1>7. ASSUME NEW key
      PROVE  key \in KeysOf(list) <=> key \in KeysOf(in) \/ key \in KeysOf(m)
  <2>1. ASSUME key \in KeysOf(list) PROVE key \in KeysOf(in) \/ key \in KeysOf(m)
    <3>1. PICK i \in 1 .. Len(list) : list[i].key = key
      BY <1>5, <2>1, KeyIs
    <3> QED BY <1>6, <3>1, KeyIs
  <2>2. ASSUME key \in KeysOf(in) PROVE key \in KeysOf(list)
    <3>1. PICK i \in 1 .. Len(in) : in[i].key = key
      BY <2>2, KeyIs
    <3>2. i \in 1 .. Len(list) /\ list[i].key = key
      BY <1>5, <3>1
    <3> QED BY <1>5, <3>2, KeyIs
  <2>3. ASSUME key \in KeysOf(m) PROVE key \in KeysOf(list)
    <3>1. PICK j \in 1 .. Len(m) : m[j].key = key
      BY <2>3, KeyIs
    <3>2. \A k \in 1 .. Len(m) : m[k].key \in KeysOf(list)
      BY <1>4 DEF MergedTo
    <3> QED BY <3>1, <3>2
  <2> QED BY <2>1, <2>2, <2>3
<1>8. ASSUME DistinctKeys(in), DistinctKeys(m)
      PROVE  DistinctKeys(list)
  <2> SUFFICES ASSUME NEW i \in 1 .. Len(list), NEW j \in 1 .. Len(list), list[i].key = list[j].key
               PROVE  i = j
    BY <1>5 DEF DistinctKeys
  <2>1. CASE i \in 1 .. Len(in) /\ j \in 1 .. Len(in)
    BY <1>5, <1>8, <2>1 DEF DistinctKeys
  <2>2. CASE i \in Len(in) + 1 .. Len(list) /\ j \in Len(in) + 1 .. Len(list)
    BY <1>4, <1>8, <2>2 DEF MergedTo
  <2>3. ASSUME NEW g \in 1 .. Len(in), NEW h \in Len(in) + 1 .. Len(list), list[g].key = list[h].key
        PROVE  FALSE
    <3>1. list[g].key \in KeysOf(in)
      BY <1>5, KeyIs
    <3> QED BY <1>4, <2>3, <3>1 DEF MergedTo
  <2> QED BY <1>5, <2>1, <2>2, <2>3
<1>9. DistinctKeys(m) => \A j \in 1 .. N : Entry(list, m[j].key) = m[j]
  BY <1>4 DEF MergedTo
<1>10. MergeList(in, m) = list
  BY <1>2 DEF list
<1> QED BY <1>5, <1>6, <1>7, <1>8, <1>9, <1>10

-----------------------------------------------------------------------------
\* Hierarchies of cloud-configs.

ParsedTo(chain, n, f) ==
  f = [i \in 0 .. n |-> IF i = 0 THEN <<>> ELSE MergeConfig(RemoveEmpty(chain[i]), f[i - 1])]

\* There is a function of the first documents, parsed, for any number of them.
LEMMA ParsedExist ==
  ASSUME NEW chain, NEW N \in Nat
  PROVE  \E f : ParsedTo(chain, N, f)
<1> DEFINE S == {n \in 0 .. N : \E f : ParsedTo(chain, n, f)}
<1>1. 0 \in S
  <2>1. ParsedTo(chain, 0, [i \in 0 .. 0 |-> <<>>])
    BY DEF ParsedTo
  <2>2. 0 \in 0 .. N
    OBVIOUS
  <2> QED BY <2>1, <2>2
<1>2. ASSUME NEW n \in 0 .. N, n \in S, n < N
      PROVE  n + 1 \in S
  <2>1. PICK g : ParsedTo(chain, n, g)
    BY <1>2
  <2> DEFINE new == MergeConfig(RemoveEmpty(chain[n + 1]), g[n])
             h == [i \in 0 .. n + 1 |-> IF i <= n THEN g[i] ELSE new]
  <2>2. ASSUME NEW i \in 0 .. n + 1
        PROVE  h[i] = IF i = 0 THEN <<>> ELSE MergeConfig(RemoveEmpty(chain[i]), h[i - 1])
    <3>1. CASE i <= n
      BY <2>1, <3>1 DEF ParsedTo
    <3>2. CASE i = n + 1
      BY <2>1, <3>2 DEF ParsedTo
    <3> QED BY <3>1, <3>2
  <2>3. ParsedTo(chain, n + 1, h)
    BY <2>2 DEF ParsedTo
  <2>4. n + 1 \in 0 .. N
    BY <1>2
  <2> HIDE DEF h
  <2> QED BY <2>3, <2>4
<1>3. N \in 0 .. N
  OBVIOUS
<1> HIDE DEF S
<1>4. N \in S
  BY <1>1, <1>2, <1>3, UpToAll
<1> QED BY <1>4 DEF S

\* What is parsed of n documents is what is parsed of n - 1, merged into the
\* n-th.
LEMMA ParsedSteps ==
  ASSUME NEW chain, Len(chain) \in Nat
  PROVE  /\ ParsedUpTo(chain)[0] = <<>>
         /\ \A n \in 1 .. Len(chain) :
              ParsedUpTo(chain)[n] = MergeConfig(RemoveEmpty(chain[n]), ParsedUpTo(chain)[n - 1])
<1>1. ParsedTo(chain, Len(chain), CHOOSE f : ParsedTo(chain, Len(chain), f))
  BY ParsedExist
<1>2. ParsedUpTo(chain) = CHOOSE f : ParsedTo(chain, Len(chain), f)
  BY DEF ParsedUpTo, ParsedTo
<1>3. ParsedTo(chain, Len(chain), ParsedUpTo(chain))
  BY <1>1, <1>2
<1> QED BY <1>3 DEF ParsedTo

\* Merging keeps the items of lists sequences.  The commands of the parent come
\* before those of the workload, unless their merge fails.
LEMMA MergeCommands ==
  ASSUME NEW cc, NEW p, ConfigOK(cc), ConfigOK(p), ~Conflict(RemoveEmpty(cc), p)
  PROVE  LET r == MergeConfig(RemoveEmpty(cc), p) IN
         ConfigOK(r) /\ Commands(r) = Commands(p) \o Commands(cc)
<1> DEFINE e == RemoveEmpty(cc)
           r == MergeConfig(e, p)
<1>1. DOMAIN e = {j \in DOMAIN cc : cc[j].t # "nil"} /\ \A k \in DOMAIN e : e[k] = cc[k]
  BY DEF RemoveEmpty
<1>2. /\ DOMAIN r = DOMAIN e \cup DOMAIN p
      /\ \A k \in DOMAIN r :
           /\ k \notin DOMAIN e => r[k] = p[k]
           /\ k \in DOMAIN e /\ k \notin DOMAIN p => r[k] = e[k]
           /\ k \in DOMAIN e /\ k \in DOMAIN p => r[k] = MergeValue(e[k], p[k])
  BY DEF MergeConfig
<1>3. \A k \in DOMAIN e \cap DOMAIN p : p[k].t \in {"list", "map"} => cc[k].t = p[k].t
  BY <1>1 DEF Conflict
<1> HIDE DEF e, r
<1>4. ASSUME NEW k \in DOMAIN e, k \in DOMAIN p
      PROVE  /\ k \in DOMAIN cc /\ k \in DOMAIN r
             /\ p[k].t = "list" => r[k].t = "list" /\ r[k].v = p[k].v \o cc[k].v
             /\ p[k].t = "map" => r[k].t = "map"
             /\ p[k].t \notin {"list", "map"} => r[k] = cc[k]
  <2>1. k \in DOMAIN cc /\ k \in DOMAIN r /\ r[k] = MergeValue(cc[k], p[k])
    BY <1>1, <1>2, <1>4
  <2>2. CASE p[k].t = "list"
    <3> DEFINE both == p[k].v \o cc[k].v
    <3>1. MergeValue(cc[k], p[k]) = [t |-> "list", v |-> both]
      BY <2>2 DEF MergeValue
    <3>2. r[k].t = "list" /\ r[k].v = both
      <4> HIDE DEF both
      <4> QED BY <2>1, <3>1
    <3> QED BY <2>1, <2>2, <3>2
  <2>3. CASE p[k].t = "map"
    <3>1. MergeValue(cc[k], p[k]) = [t |-> "map", v |-> cc[k].v @@ p[k].v]
      BY <2>3 DEF MergeValue
    <3> QED BY <2>1, <2>3, <3>1
  <2>4. CASE p[k].t \notin {"list", "map"}
    <3>1. MergeValue(cc[k], p[k]) = cc[k]
      BY <2>4 DEF MergeValue
    <3> QED BY <2>1, <2>4, <3>1
  <2> QED BY <2>2, <2>3, <2>4
<1>5. ASSUME NEW k \in DOMAIN r, r[k].t = "list"
      PROVE  r[k].v \in Seq(Int)
  <2>1. CASE k \notin DOMAIN e
    BY <1>2, <1>5, <2>1 DEF ConfigOK
  <2>2. CASE k \in DOMAIN e /\ k \notin DOMAIN p
    BY <1>1, <1>2, <1>5, <2>2 DEF ConfigOK
  <2>3. CASE k \in DOMAIN e /\ k \in DOMAIN p
    <3>1. k \in DOMAIN cc
      BY <1>4, <2>3
    <3>2. CASE p[k].t = "list"
      <4>1. cc[k].t = "list"
        BY <1>3, <2>3, <3>2
      <4>2. cc[k].v \in Seq(Int) /\ p[k].v \in Seq(Int)
        BY <2>3, <3>1, <3>2, <4>1 DEF ConfigOK
      <4>3. p[k].v \o cc[k].v \in Seq(Int)
        BY <4>2
      <4>4. r[k].v = p[k].v \o cc[k].v
        BY <1>4, <2>3, <3>2
      <4> QED BY <4>3, <4>4
    <3>3. CASE p[k].t = "map"
      BY <1>4, <1>5, <2>3, <3>3
    <3>4. CASE p[k].t \notin {"list", "map"}
      BY <1>4, <1>5, <2>3, <3>1, <3>4 DEF ConfigOK
    <3> QED BY <3>2, <3>3, <3>4
  <2> QED BY <2>1, <2>2, <2>3
<1> DEFINE key == "runcmd"
<1>6. Commands(cc) \in Seq(Int) /\ Commands(p) \in Seq(Int)
  BY DEF Commands, ConfigOK
<1>7. CASE key \notin DOMAIN e
  <2>1. Commands(cc) = <<>>
    BY <1>1, <1>7 DEF Commands
  <2>2. Commands(r) = Commands(p)
    BY <1>2, <1>7 DEF Commands
  <2> QED BY <1>5, <1>6, <2>1, <2>2 DEF ConfigOK, r, e
<1>8. CASE key \in DOMAIN e /\ key \notin DOMAIN p
  <2>1. Commands(p) = <<>>
    BY <1>8 DEF Commands
  <2>2. Commands(r) = Commands(cc)
    BY <1>1, <1>2, <1>8 DEF Commands
  <2> QED BY <1>5, <1>6, <2>1, <2>2 DEF ConfigOK, r, e
<1>9. CASE key \in DOMAIN e /\ key \in DOMAIN p
  <2>1. key \in DOMAIN cc /\ key \in DOMAIN r
    BY <1>4, <1>9
  <2>2. CASE p[key].t = "list"
    <3>1. cc[key].t = "list"
      BY <1>3, <1>9, <2>2
    <3>2. Commands(cc) = cc[key].v /\ Commands(p) = p[key].v
      BY <1>9, <2>1, <2>2, <3>1 DEF Commands
    <3>3. Commands(r) = p[key].v \o cc[key].v
      BY <1>4, <1>9, <2>1, <2>2 DEF Commands
    <3> QED BY <1>5, <3>2, <3>3 DEF ConfigOK, r, e
  <2>3. CASE p[key].t = "map"
    <3>1. Commands(cc) = <<>> /\ Commands(p) = <<>>
      BY <1>3, <1>9, <2>3 DEF Commands
    <3>2. Commands(r) = <<>>
      BY <1>4, <1>9, <2>1, <2>3 DEF Commands
    <3> QED BY <1>5, <3>1, <3>2 DEF ConfigOK, r, e
  <2>4. CASE p[key].t \notin {"list", "map"}
    <3>1. Commands(p) = <<>> /\ Commands(r) = Commands(cc)
      BY <1>4, <1>9, <2>1, <2>4 DEF Commands
    <3> QED BY <1>5, <1>6, <3>1 DEF ConfigOK, r, e
  <2> QED BY <2>2, <2>3, <2>4
<1> QED BY <1>7, <1>8, <1>9

\* What a whole hierarchy runs: the commands of its documents, the base's
\* first, if no merge fails.
LEMMA ParsedCommands ==
  ASSUME NEW chain, Len(chain) \in Nat \ {0}, DOMAIN chain = 1 .. Len(chain),
         \A i \in 1 .. Len(chain) : ConfigOK(chain[i]), ~ParseFails(chain)
  PROVE  Commands(Parsed(chain)) = FlattenSeq([i \in DOMAIN chain |-> Commands(chain[i])])
<1> DEFINE N == Len(chain)
           P == ParsedUpTo(chain)
           cmds == [i \in DOMAIN chain |-> Commands(chain[i])]
           g == [n \in 1 .. N |-> Commands(P[n])]
           Flat(f) == f = [i \in 1 .. Len(cmds) |-> IF i = 1 THEN cmds[i] ELSE f[i - 1] \o cmds[i]]
<1>1. /\ P[0] = <<>>
      /\ \A n \in 1 .. N : P[n] = MergeConfig(RemoveEmpty(chain[n]), P[n - 1])
  BY ParsedSteps
<1>2. ConfigOK(P[0]) /\ Commands(P[0]) = <<>>
  BY <1>1 DEF ConfigOK, Commands
<1>3. ASSUME NEW n \in 1 .. N PROVE ~Conflict(RemoveEmpty(chain[n]), P[n - 1])
  <2>1. CASE n = 1
    BY <1>1, <2>1 DEF Conflict
  <2>2. CASE n \in 2 .. N
    BY <2>2 DEF ParseFails
  <2> QED BY <2>1, <2>2
<1>4. ASSUME NEW n \in 1 .. N, ConfigOK(P[n - 1])
      PROVE  ConfigOK(P[n]) /\ Commands(P[n]) = Commands(P[n - 1]) \o Commands(chain[n])
  <2>1. ConfigOK(chain[n])
    OBVIOUS
  <2>2. P[n] = MergeConfig(RemoveEmpty(chain[n]), P[n - 1])
    BY <1>1
  <2> HIDE DEF P
  <2> QED BY <1>3, <1>4, <2>1, <2>2, MergeCommands
<1>5. \A n \in 0 .. N : ConfigOK(P[n])
  <2> DEFINE S == {n \in 0 .. N : ConfigOK(P[n])}
  <2>1. 0 \in S
    BY <1>2
  <2>2. ASSUME NEW n \in 0 .. N, n \in S, n < N PROVE n + 1 \in S
    <3>1. n + 1 \in 1 .. N /\ (n + 1) - 1 = n
      BY <2>2
    <3> HIDE DEF P
    <3>2. ConfigOK(P[n + 1])
      BY <1>4, <2>2, <3>1
    <3> QED BY <3>1, <3>2
  <2>3. N \in Nat
    OBVIOUS
  <2> HIDE DEF S, N, P
  <2>4. \A n \in 0 .. N : n \in S
    BY <2>1, <2>2, <2>3, UpToAll
  <2> QED BY <2>4 DEF S
<1>6. Len(cmds) = N /\ \A n \in 1 .. N : cmds[n] = Commands(chain[n]) /\ cmds[n] \in Seq(Int)
  <2>1. DOMAIN cmds = 1 .. N
    OBVIOUS
  <2>2. \A n \in 1 .. N : cmds[n] = Commands(chain[n])
    OBVIOUS
  <2>3. \A n \in 1 .. N : Commands(chain[n]) \in Seq(Int)
    BY DEF Commands, ConfigOK
  <2> QED BY <2>1, <2>2, <2>3
<1> HIDE DEF P, cmds
<1>7. \A n \in 1 .. N : g[n] = IF n = 1 THEN cmds[n] ELSE g[n - 1] \o cmds[n]
  <2> TAKE n \in 1 .. N
  <2>1. g[n] = Commands(P[n - 1]) \o cmds[n]
    <3>1. n - 1 \in 0 .. N
      OBVIOUS
    <3>2. Commands(P[n]) = Commands(P[n - 1]) \o Commands(chain[n])
      BY <1>4, <1>5, <3>1
    <3>3. g[n] = Commands(P[n])
      OBVIOUS
    <3> HIDE DEF g, N
    <3> QED BY <1>6, <3>2, <3>3
  <2>2. CASE n = 1
    <3>1. n - 1 = 0
      BY <2>2
    <3>2. cmds[n] \in Seq(Int) /\ <<>> \o cmds[n] = cmds[n]
      BY <1>6
    <3> HIDE DEF g
    <3> QED BY <1>2, <2>1, <2>2, <3>1, <3>2
  <2>3. CASE n # 1
    <3>1. n - 1 \in 1 .. N
      BY <2>3
    <3>2. g[n - 1] = Commands(P[n - 1])
      BY <3>1
    <3> HIDE DEF g
    <3> QED BY <2>1, <2>3, <3>2
  <2> QED BY <2>2, <2>3
<1>8. Flat(g)
  BY <1>6, <1>7
<1>9. ASSUME NEW f, Flat(f) PROVE f[N] = g[N]
  <2> DEFINE S == {n \in 0 .. N : n # 0 => f[n] = g[n]}
  <2>1. \A n \in 1 .. N : f[n] = IF n = 1 THEN cmds[n] ELSE f[n - 1] \o cmds[n]
    BY <1>6, <1>9
  <2>2. 0 \in S
    OBVIOUS
  <2>3. ASSUME NEW n \in 0 .. N, n \in S, n < N PROVE n + 1 \in S
    <3>1. n + 1 \in 1 .. N /\ (n + 1) - 1 = n /\ (n + 1 = 1 <=> n = 0)
      BY <2>3
    <3>2. n # 0 => f[n] = g[n]
      BY <2>3
    <3> HIDE DEF g
    <3>3. f[n + 1] = g[n + 1]
      BY <1>7, <2>1, <3>1, <3>2
    <3> QED BY <3>1, <3>3
  <2>4. N \in Nat /\ N # 0 /\ N \in 0 .. N
    OBVIOUS
  <2> HIDE DEF S, N, g
  <2>5. N \in S
    BY <2>2, <2>3, <2>4, UpToAll
  <2> QED BY <2>4, <2>5 DEF S
<1>10. FlattenSeq(cmds) = (CHOOSE f : Flat(f))[N]
  BY <1>6 DEF FlattenSeq
<1>11. Flat(CHOOSE f : Flat(f))
  <2> HIDE DEF Flat
  <2> QED BY <1>8
<1>12. FlattenSeq(cmds) = g[N]
  <2> HIDE DEF Flat, g
  <2> QED BY <1>9, <1>10, <1>11
<1>13. g[N] = Commands(Parsed(chain))
  BY DEF Parsed, P
<1> QED BY <1>12, <1>13 DEF cmds

\* A hierarchy in which nothing but lists is to be run does not make the
\* process panic.
LEMMA ParsedHarmless ==
  ASSUME NEW chain, Len(chain) \in Nat,
         \A i \in 1 .. Len(chain) :
           "runcmd" \in DOMAIN chain[i] => chain[i]["runcmd"].t \in {"list", "nil"}
  PROVE  ~Panics(Parsed(chain))
<1> DEFINE N == Len(chain)
           P == ParsedUpTo(chain)
           S == {n \in 0 .. N : ~Panics(P[n])}
<1>1. /\ P[0] = <<>>
      /\ \A n \in 1 .. N : P[n] = MergeConfig(RemoveEmpty(chain[n]), P[n - 1])
  BY ParsedSteps
<1>2. 0 \in S
  BY <1>1 DEF Panics
<1>3. ASSUME NEW n \in 0 .. N, n \in S, n < N PROVE n + 1 \in S
  <2> DEFINE cc == chain[n + 1]
             e == RemoveEmpty(cc)
             p == P[n]
             r == MergeConfig(e, p)
  <2>1. n + 1 \in 1 .. N /\ (n + 1) - 1 = n
    BY <1>3
  <2>2. P[n + 1] = r
    <3> HIDE DEF P
    <3> QED BY <1>1, <2>1
  <2>3. "runcmd" \in DOMAIN p => p["runcmd"].t = "list"
    BY <1>3 DEF Panics
  <2>4. "runcmd" \in DOMAIN e => e["runcmd"].t = "list"
    BY <2>1 DEF RemoveEmpty
  <2> HIDE DEF p, e
  <2>5. "runcmd" \in DOMAIN r => r["runcmd"].t = "list"
    <3>1. CASE "runcmd" \in DOMAIN e /\ "runcmd" \in DOMAIN p
      <4>1. r["runcmd"] = MergeValue(e["runcmd"], p["runcmd"])
        BY <3>1 DEF MergeConfig
      <4> DEFINE both == p["runcmd"].v \o e["runcmd"].v
      <4>2. MergeValue(e["runcmd"], p["runcmd"]) = [t |-> "list", v |-> both]
        BY <2>3, <3>1 DEF MergeValue
      <4> HIDE DEF both
      <4> QED BY <4>1, <4>2
    <3>2. CASE "runcmd" \notin DOMAIN e \/ "runcmd" \notin DOMAIN p
      BY <2>3, <2>4, <3>2 DEF MergeConfig
    <3> QED BY <3>1, <3>2
  <2> HIDE DEF r
  <2>6. ~Panics(P[n + 1])
    BY <2>2, <2>5 DEF Panics
  <2> QED BY <2>1, <2>6
<1>4. N \in 0 .. N
  OBVIOUS
<1> HIDE DEF S
<1>5. N \in S
  BY <1>2, <1>3, <1>4, UpToAll
<1> QED BY <1>5 DEF S, Parsed

-----------------------------------------------------------------------------
\* Documents.

\* The greatest of the indices of a sequence that are in I, or 0.
LEMMA LastIs ==
  ASSUME NEW n \in Nat, NEW I, I = {i \in 1 .. n : i \in I}
  PROVE  LET m == IF I # {} THEN Max(I) ELSE 0
         IN m \in 0 .. n /\ (m # 0 => m \in I) /\ \A i \in m + 1 .. n : i \notin I
<1>1. CASE I = {}
  BY <1>1
<1>2. CASE I # {}
  <2>1. I \subseteq 0 .. n
    OBVIOUS
  <2>2. Max(I) \in I /\ \A k \in I : k <= Max(I)
    BY <1>2, <2>1, GreatestIs
  <2>3. Max(I) \in 1 .. n
    BY <2>2
  <2> QED BY <1>2, <2>2, <2>3
<1> QED BY <1>1, <1>2

\* LastOf is the last line of one of the kinds, or 0.
LEMMA LastOfIs ==
  ASSUME NEW lines, NEW n \in Nat, NEW kinds
  PROVE  /\ LastOf(lines, n, kinds) \in 0 .. n
         /\ LastOf(lines, n, kinds) # 0 => lines[LastOf(lines, n, kinds)].k \in kinds
         /\ \A i \in LastOf(lines, n, kinds) + 1 .. n : lines[i].k \notin kinds
<1> DEFINE I == {i \in 1 .. n : lines[i].k \in kinds}
<1>1. LastOf(lines, n, kinds) = IF I # {} THEN Max(I) ELSE 0
  BY DEF LastOf, SelectLastInSubSeq
<1>2. I = {i \in 1 .. n : i \in I}
  OBVIOUS
<1>3. /\ LastOf(lines, n, kinds) \in 0 .. n
      /\ LastOf(lines, n, kinds) # 0 => LastOf(lines, n, kinds) \in I
      /\ \A i \in LastOf(lines, n, kinds) + 1 .. n : i \notin I
  <2> HIDE DEF I
  <2> QED BY <1>1, <1>2, LastIs
<1>4. \A i \in LastOf(lines, n, kinds) + 1 .. n : i \in 1 .. n
  BY <1>3
<1> QED BY <1>3, <1>4

\* Only directives are between the first directive and the start line at bar.
LEMMA FirstDirectiveIs ==
  ASSUME NEW lines, NEW bar \in Nat \ {0}
  PROVE  /\ FirstDirective(lines, bar) \in 1 .. bar
         /\ FirstDirective(lines, bar) # 1 => lines[FirstDirective(lines, bar) - 1].k # "directive"
         /\ \A i \in FirstDirective(lines, bar) .. bar - 1 : lines[i].k = "directive"
<1> DEFINE I == {i \in 1 .. bar - 1 : lines[i].k # "directive"}
           m == IF I # {} THEN Max(I) ELSE 0
<1>1. FirstDirective(lines, bar) = 1 + m
  BY DEF FirstDirective, SelectLastInSubSeq
<1>2. I = {i \in 1 .. bar - 1 : i \in I} /\ bar - 1 \in Nat
  OBVIOUS
<1>3. m \in 0 .. bar - 1 /\ (m # 0 => m \in I) /\ \A i \in m + 1 .. bar - 1 : i \notin I
  <2> HIDE DEF I
  <2> QED BY <1>2, LastIs
<1>4. \A i \in m + 1 .. bar - 1 : i \in 1 .. bar - 1
  BY <1>3
<1> HIDE DEF m
<1> QED BY <1>1, <1>3, <1>4

\* A document has lines of the file, and begins where an earlier one ends.
LEMMA FindDocumentType ==
  ASSUME NEW L, NEW lines \in Seq(L), NEW n \in 1 .. Len(lines)
  PROVE  FindDocument(lines, n).text \in Seq(L) /\ FindDocument(lines, n).first \in 1 .. n
<1> DEFINE last == IF lines[n].k = "end" THEN n - 1 ELSE n
           bar  == LastOf(lines, last, {"start", "end"})
           first == IF bar # 0 /\ lines[bar].k = "start" THEN FirstDirective(lines, bar) ELSE bar + 1
<1>1. FindDocument(lines, n) = [text |-> SubSeq(lines, bar + 1, last), first |-> first]
  BY DEF FindDocument
<1>2. last \in Nat /\ last <= n /\ (last = n => lines[n].k # "end")
  OBVIOUS
<1>3. bar \in 0 .. last /\ (bar # 0 => lines[bar].k \in {"start", "end"})
  <2> HIDE DEF last
  <2> QED BY <1>2, LastOfIs
<1> HIDE DEF last, bar
<1>4. SubSeq(lines, bar + 1, last) \in Seq(L)
  BY <1>2, <1>3
<1>5. first \in 1 .. n
  <2>1. CASE bar # 0 /\ lines[bar].k = "start"
    <3>1. FirstDirective(lines, bar) \in 1 .. bar
      BY <1>3, <2>1, FirstDirectiveIs
    <3> QED BY <1>2, <1>3, <2>1, <3>1
  <2>2. CASE ~(bar # 0 /\ lines[bar].k = "start")
    <3>1. bar # n
      BY <1>2, <1>3, <2>2
    <3> QED BY <1>2, <1>3, <2>2, <3>1
  <2> QED BY <2>1, <2>2
<1> HIDE DEF first
<1> QED BY <1>1, <1>4, <1>5

\* The scanner reads lines of the file, all if none is too long for it.
LEMMA ScannedType ==
  ASSUME NEW L, NEW data \in Seq(L)
  PROVE  /\ Scanned(data) \in Seq(L)
         /\ (\A i \in 1 .. Len(data) : data[i].k # "long") => Scanned(data) = data
<1> DEFINE I == {i \in 1 .. Len(data) : data[i].k = "long"}
           i == SelectInSeq(data, LAMBDA line : line.k = "long")
<1>1. i = IF I # {} THEN Min(I) ELSE 0
  BY DEF SelectInSeq
<1>2. I # {} => Min(I) \in I
  <2>1. I \subseteq Nat
    OBVIOUS
  <2> HIDE DEF I
  <2> QED BY <2>1, LeastIs
<1>3. i \in 0 .. Len(data)
  BY <1>1, <1>2
<1>4. Scanned(data) = IF i = 0 THEN data ELSE SubSeq(data, 1, i - 1)
  BY DEF Scanned
<1>5. (\A j \in 1 .. Len(data) : data[j].k # "long") => i = 0
  BY <1>1
<1> HIDE DEF i
<1>6. i # 0 => SubSeq(data, 1, i - 1) \in Seq(L)
  BY <1>3
<1> QED BY <1>3, <1>4, <1>5, <1>6

\* The documents of the first n lines.
OneMore(docs, d) == Append(docs, d.text)

DocumentsTo(lines, n, f) ==
  f = [i \in 0 .. n |-> IF i = 0 THEN <<>>
                        ELSE OneMore(f[FindDocument(lines, i).first - 1], FindDocument(lines, i))]

\* The documents of the first i lines.
LEMMA DocumentsAt ==
  ASSUME NEW lines, NEW n \in Nat, NEW f, DocumentsTo(lines, n, f), NEW i \in 0 .. n
  PROVE  f[i] = IF i = 0 THEN <<>>
                ELSE OneMore(f[FindDocument(lines, i).first - 1], FindDocument(lines, i))
<1> DEFINE doc(j) == FindDocument(lines, j)
           g == [j \in 0 .. n |-> IF j = 0 THEN <<>> ELSE OneMore(f[doc(j).first - 1], doc(j))]
<1>1. g[i] = IF i = 0 THEN <<>> ELSE OneMore(f[doc(i).first - 1], doc(i))
  OBVIOUS
<1>2. f = g
  BY DEF DocumentsTo
<1> HIDE DEF g
<1>3. f[i] = g[i]
  BY <1>2
<1> QED BY <1>1, <1>3

\* There is such a function for every file.
LEMMA DocumentsExist ==
  ASSUME NEW L, NEW lines \in Seq(L)
  PROVE  \E f : DocumentsTo(lines, Len(lines), f)
<1> DEFINE N == Len(lines)
           S == {n \in 0 .. N : \E f : DocumentsTo(lines, n, f)}
           first(n) == FindDocument(lines, n).first
<1>0. N \in Nat
  OBVIOUS
<1>1. 0 \in S
  <2>1. DocumentsTo(lines, 0, [i \in 0 .. 0 |-> <<>>])
    BY DEF DocumentsTo
  <2>2. 0 \in 0 .. N
    BY <1>0
  <2> QED BY <2>1, <2>2
<1>2. ASSUME NEW n \in 0 .. N, n \in S, n < N
      PROVE  n + 1 \in S
  <2>1. PICK g : DocumentsTo(lines, n, g)
    BY <1>2
  <2> DEFINE new == OneMore(g[first(n + 1) - 1], FindDocument(lines, n + 1))
             h == [i \in 0 .. n + 1 |-> IF i <= n THEN g[i] ELSE new]
  <2>2. ASSUME NEW i \in 0 .. n + 1
        PROVE  h[i] = IF i = 0 THEN <<>> ELSE OneMore(h[first(i) - 1], FindDocument(lines, i))
    <3>0. i # 0 => first(i) \in 1 .. i
      BY <1>0, <1>2, FindDocumentType
    <3>1. CASE i <= n
      <4>1. g[i] = IF i = 0 THEN <<>> ELSE OneMore(g[first(i) - 1], FindDocument(lines, i))
        <5>1. n \in Nat /\ i \in 0 .. n
          BY <1>0, <3>1
        <5> HIDE DEF h
        <5> QED BY <2>1, <5>1, DocumentsAt
      <4>2. i # 0 => h[first(i) - 1] = g[first(i) - 1]
        BY <3>0, <3>1
      <4> QED BY <3>1, <4>1, <4>2
    <3>2. CASE i = n + 1
      <4>1. h[first(i) - 1] = g[first(i) - 1] /\ i # 0
        BY <3>0, <3>2
      <4>2. h[i] = new
        BY <3>2
      <4> QED BY <3>2, <4>1, <4>2
    <3> QED BY <3>1, <3>2
  <2>3. DocumentsTo(lines, n + 1, h)
    BY <2>2 DEF DocumentsTo
  <2>4. n + 1 \in 0 .. N
    BY <1>2
  <2> HIDE DEF h
  <2> QED BY <2>3, <2>4
<1>3. N \in 0 .. N
  BY <1>0
<1> HIDE DEF S, N
<1>4. N \in S
  BY <1>0, <1>1, <1>2, <1>3, UpToAll
<1> QED BY <1>4 DEF S, N

\* The documents of n lines are those before the last document, and this one.
LEMMA SplitSteps ==
  ASSUME NEW L, NEW data \in Seq(L)
  PROVE  LET lines == Scanned(data) IN
         \E f : /\ SplitYaml(data) = f[Len(lines)] /\ f[0] = <<>>
                /\ \A n \in 1 .. Len(lines) :
                     f[n] = OneMore(f[FindDocument(lines, n).first - 1], FindDocument(lines, n))
<1> DEFINE lines == Scanned(data)
           F == CHOOSE f : DocumentsTo(lines, Len(lines), f)
<1>1. lines \in Seq(L)
  BY ScannedType
<1>2. DocumentsTo(lines, Len(lines), F)
  BY <1>1, DocumentsExist
<1>3. SplitYaml(data) = F[Len(lines)]
  BY DEF SplitYaml, DocumentsTo, OneMore
<1> HIDE DEF lines, F
<1>4. /\ F[0] = <<>>
      /\ \A n \in 1 .. Len(lines) :
           F[n] = OneMore(F[FindDocument(lines, n).first - 1], FindDocument(lines, n))
  <2>1. Len(lines) \in Nat
    BY <1>1
  <2>2. F[0] = <<>>
    BY <1>2, <2>1, 0 \in 0 .. Len(lines), DocumentsAt
  <2>3. ASSUME NEW n \in 1 .. Len(lines)
        PROVE  F[n] = OneMore(F[FindDocument(lines, n).first - 1], FindDocument(lines, n))
    <3>1. n \in 0 .. Len(lines) /\ n # 0
      BY <2>1
    <3> QED BY <1>2, <2>1, <3>1, DocumentsAt
  <2> QED BY <2>2, <2>3
<1> QED BY <1>3, <1>4 DEF lines

\* Documents consist of lines of the file.
LEMMA SplitType ==
  ASSUME NEW L, NEW data \in Seq(L)
  PROVE  SplitYaml(data) \in Seq(Seq(L))
<1> DEFINE lines == Scanned(data)
           N == Len(lines)
<1>1. lines \in Seq(L) /\ N \in Nat
  BY ScannedType
<1>2. PICK f : /\ SplitYaml(data) = f[N] /\ f[0] = <<>>
               /\ \A n \in 1 .. N :
                    f[n] = OneMore(f[FindDocument(lines, n).first - 1], FindDocument(lines, n))
  BY SplitSteps
<1> DEFINE S == {n \in 0 .. N : \A m \in 0 .. n : f[m] \in Seq(Seq(L))}
<1>3. 0 \in S
  <2>1. f[0] \in Seq(Seq(L))
    <3>1. <<>> \in Seq(Seq(L))
      OBVIOUS
    <3> QED BY <1>2, <3>1
  <2> QED BY <1>1, <2>1
<1>4. ASSUME NEW n \in 0 .. N, n \in S, n < N
      PROVE  n + 1 \in S
  <2>1. n + 1 \in 1 .. N
    BY <1>1, <1>4
  <2> HIDE DEF N, lines
  <2>2. /\ FindDocument(lines, n + 1).text \in Seq(L)
        /\ FindDocument(lines, n + 1).first - 1 \in 0 .. n
    <3>1. n + 1 \in 1 .. Len(lines)
      BY <2>1 DEF N
    <3> QED BY <1>1, <3>1, FindDocumentType
  <2>3. f[n + 1] \in Seq(Seq(L))
    <3> DEFINE d == FindDocument(lines, n + 1)
    <3>1. f[n + 1] = OneMore(f[d.first - 1], d)
      BY <1>2, <2>1
    <3>2. f[d.first - 1] \in Seq(Seq(L))
      BY <1>4, <2>2
    <3> HIDE DEF d
    <3>3. d.text \in Seq(L)
      BY <2>2 DEF d
    <3> QED BY <3>1, <3>2, <3>3 DEF OneMore
  <2> QED BY <1>1, <1>4, <2>1, <2>3
<1>5. N \in 0 .. N
  BY <1>1
<1> HIDE DEF S, N
<1>6. N \in S
  BY <1>1, <1>3, <1>4, <1>5, UpToAll
<1> QED BY <1>1, <1>2, <1>6 DEF S
-----------------------------------------------------------------------------
\* Nothing leads to a start line from line h if the lines from h to last are
\* no start lines and no document begins after n, with line n the last of its
\* document and any line after last an end line.
LEMMA NoLeadIn ==
  ASSUME NEW L, NEW lines \in Seq(L), NEW n \in 1 .. Len(lines),
         n = Len(lines) \/ Begins(lines, n + 1),
         NEW last \in {n - 1, n}, last = n - 1 => lines[n].k = "end",
         NEW h \in 1 .. n, \A i \in h .. last : lines[i].k # "start"
  PROVE  ~LeadsIn(lines, h)
<1> SUFFICES ASSUME NEW j \in h .. Len(lines), lines[j].k = "start",
                    \A i \in h .. j - 1 : lines[i].k = "directive"
             PROVE  FALSE
  BY DEF LeadsIn
<1>1. j > n
  OBVIOUS
<1>2. n \in h .. j - 1 /\ n + 1 \in 1 .. Len(lines) /\ j \in n + 1 .. Len(lines)
  BY <1>1
<1>3. lines[n].k = "directive"
  BY <1>2
<1>4. LeadsIn(lines, n + 1)
  BY <1>2 DEF LeadsIn
<1>5. Begins(lines, n + 1) /\ (n + 1) - 1 = n /\ n + 1 # 1
  BY <1>2
<1> QED BY <1>3, <1>4, <1>5 DEF Begins

\* The last document of the first n lines, if it ends there, is the one that
\* begins last.
LEMMA FindDocumentIs ==
  ASSUME NEW L, NEW lines \in Seq(L), NEW n \in 1 .. Len(lines),
         n = Len(lines) \/ Begins(lines, n + 1),
         NEW b, b = FindDocument(lines, n).first
  PROVE  /\ b \in 1 .. n /\ Begins(lines, b) /\ \A h \in b + 1 .. n : ~Begins(lines, h)
         /\ FindDocument(lines, n).text =
              SubSeq(lines, (IF LeadsIn(lines, b)
                             THEN SelectInSubSeq(lines, b, n, LAMBDA line : line.k = "start")
                             ELSE b - 1) + 1,
                     IF lines[n].k = "end" THEN n - 1 ELSE n)
<1> DEFINE last == IF lines[n].k = "end" THEN n - 1 ELSE n
           bar  == LastOf(lines, last, {"start", "end"})
           start(line) == line.k = "start"
<1>1. /\ FindDocument(lines, n).text = SubSeq(lines, bar + 1, last)
      /\ b = IF bar # 0 /\ lines[bar].k = "start" THEN FirstDirective(lines, bar) ELSE bar + 1
  BY DEF FindDocument
<1>2. /\ last \in Nat /\ last \in {n - 1, n} /\ (last = n - 1 <=> lines[n].k = "end")
      /\ last = (IF lines[n].k = "end" THEN n - 1 ELSE n)
  OBVIOUS
<1>3. /\ bar \in 0 .. last
      /\ bar # 0 => lines[bar].k \in {"start", "end"}
      /\ \A i \in bar + 1 .. last : lines[i].k \notin {"start", "end"}
  <2> HIDE DEF last
  <2> QED BY <1>2, LastOfIs
<1>4. b \in 1 .. n
  BY FindDocumentType
<1> HIDE DEF last, bar
<1>5. ASSUME NEW h \in bar + 1 .. n PROVE ~LeadsIn(lines, h)
  <2>1. h \in 1 .. n /\ \A i \in h .. last : lines[i].k # "start"
    BY <1>2, <1>3
  <2> QED BY <1>2, <2>1, NoLeadIn
<1>6. ASSUME NEW h \in bar + 2 .. n PROVE ~Begins(lines, h)
  <2>1. h - 1 \in bar + 1 .. last /\ h \in bar + 1 .. n /\ h # 1
    BY <1>2, <1>3
  <2> QED BY <1>3, <1>5, <2>1 DEF Begins
<1>7. CASE bar # 0 /\ lines[bar].k = "start"
  <2>1. /\ b \in 1 .. bar /\ bar \in Nat \ {0}
        /\ b # 1 => lines[b - 1].k # "directive"
        /\ \A i \in b .. bar - 1 : lines[i].k = "directive"
    BY <1>1, <1>3, <1>7, FirstDirectiveIs
  <2>2. LeadsIn(lines, b)
    <3>1. bar \in b .. Len(lines)
      BY <1>2, <1>3, <2>1
    <3> QED BY <1>7, <2>1, <3>1 DEF LeadsIn
  <2>3. Begins(lines, b)
    BY <2>1, <2>2 DEF Begins
  <2>4. ASSUME NEW h \in b + 1 .. n PROVE ~Begins(lines, h)
    <3>1. CASE h \in b + 1 .. bar
      <4>1. h - 1 \in b .. bar - 1 /\ h # 1
        BY <2>1, <3>1
      <4> QED BY <2>1, <4>1 DEF Begins
    <3>2. CASE h = bar + 1
      <4>1. h - 1 = bar /\ h # 1 /\ h \in bar + 1 .. n
        BY <2>1, <3>2
      <4> QED BY <1>5, <1>7, <4>1 DEF Begins
    <3>3. CASE h \in bar + 2 .. n
      BY <1>6, <3>3
    <3> QED BY <1>2, <1>3, <2>1, <3>1, <3>2, <3>3
  <2>5. SelectInSubSeq(lines, b, n, start) = bar
    <3> DEFINE I == {i \in b .. n : lines[i].k = "start"}
    <3>1. bar \in I /\ \A i \in I : bar <= i
      BY <1>2, <1>3, <1>7, <2>1
    <3>2. I \subseteq Nat
      BY <2>1
    <3>3. SelectInSubSeq(lines, b, n, start) = Min(I)
      BY <3>1 DEF SelectInSubSeq
    <3> HIDE DEF I
    <3>4. Min(I) \in I /\ \A i \in I : Min(I) <= i
      BY <3>1, <3>2, LeastIs
    <3> QED BY <3>1, <3>2, <3>3, <3>4
  <2> QED BY <1>1, <1>2, <1>4, <2>2, <2>3, <2>4, <2>5
<1>8. CASE ~(bar # 0 /\ lines[bar].k = "start")
  <2>1. b = bar + 1
    BY <1>1, <1>8
  <2>2. ~LeadsIn(lines, b)
    BY <1>4, <1>5, <2>1
  <2>3. Begins(lines, b)
    <3>1. CASE bar = 0
      BY <2>1, <3>1 DEF Begins
    <3>2. CASE bar # 0
      <4>1. lines[b - 1].k = "end"
        BY <1>3, <1>8, <2>1, <3>2
      <4> QED BY <4>1 DEF Begins
    <3> QED BY <3>1, <3>2
  <2>4. \A h \in b + 1 .. n : ~Begins(lines, h)
    BY <1>3, <1>6, <2>1
  <2>5. bar + 1 = (b - 1) + 1
    BY <1>3, <2>1
  <2>6. FindDocument(lines, n).text = SubSeq(lines, (b - 1) + 1, last)
    BY <1>1, <2>5
  <2> QED BY <1>2, <1>4, <2>2, <2>3, <2>4, <2>6
<1> QED BY <1>7, <1>8

\* A document is the last of the first n lines if line n is the last of all, or
\* another begins after it.
DocumentEnds(lines, n) == n = Len(lines) \/ Begins(lines, n + 1)

\* FindDocument finds its text.
LEMMA FoundText ==
  ASSUME NEW L, NEW lines \in Seq(L), NEW n \in 1 .. Len(lines), DocumentEnds(lines, n),
         NEW b, b = FindDocument(lines, n).first
  PROVE  /\ b \in 1 .. n /\ b \in Beginnings(lines)
         /\ \A h \in Beginnings(lines) : h <= n => h <= b
         /\ b = 1 \/ DocumentEnds(lines, b - 1)
         /\ FindDocument(lines, n).text = TextOf(lines, b)
<1>1. /\ b \in 1 .. n /\ Begins(lines, b) /\ \A h \in b + 1 .. n : ~Begins(lines, h)
      /\ FindDocument(lines, n).text =
           SubSeq(lines, (IF LeadsIn(lines, b)
                          THEN SelectInSubSeq(lines, b, n, LAMBDA line : line.k = "start")
                          ELSE b - 1) + 1,
                  IF lines[n].k = "end" THEN n - 1 ELSE n)
  BY FindDocumentIs DEF DocumentEnds
<1>2. b \in Beginnings(lines)
  BY <1>1 DEF Beginnings
<1>3. \A h \in Beginnings(lines) : h <= n => h <= b
  BY <1>1 DEF Beginnings
<1>4. b = 1 \/ DocumentEnds(lines, b - 1)
  <2>1. (b - 1) + 1 = b
    BY <1>1
  <2> QED BY <1>1, <2>1 DEF DocumentEnds
<1>5. NextBeginning(lines, b) = n + 1
  <2> DEFINE R == {j \in Beginnings(lines) : j > b} \cup {Len(lines) + 1}
  <2>1. n + 1 \in R
    <3>1. CASE n = Len(lines)
      BY <3>1
    <3>2. CASE n # Len(lines)
      <4>1. n + 1 \in 1 .. Len(lines) /\ n + 1 > b
        BY <1>1, <3>2
      <4> QED BY <3>2, <4>1 DEF DocumentEnds, Beginnings
    <3> QED BY <3>1, <3>2
  <2>2. R \subseteq Nat /\ \A j \in R : n + 1 <= j
    BY <1>1, <1>3 DEF Beginnings
  <2>3. NextBeginning(lines, b) = Min(R)
    BY DEF NextBeginning
  <2> HIDE DEF R
  <2>4. Min(R) \in R /\ \A j \in R : Min(R) <= j
    BY <2>1, <2>2, LeastIs
  <2>5. Min(R) \in Nat /\ Min(R) <= n + 1 /\ n + 1 <= Min(R)
    BY <2>1, <2>2, <2>4
  <2>6. n + 1 \in Nat
    OBVIOUS
  <2> QED BY <2>3, <2>5, <2>6
<1>6. NextBeginning(lines, b) - 1 = n
  BY <1>5
<1>7. FindDocument(lines, n).text = TextOf(lines, b)
  BY <1>1, <1>6 DEF TextOf
<1> QED BY <1>1, <1>2, <1>3, <1>4, <1>7

\* The documents that begin in the first n lines.
BegunBy(lines, n) == {j \in Beginnings(lines) : j <= n}

\* They are counted, and one that begins with line n is the last of them.
LEMMA BegunCount ==
  ASSUME NEW L, NEW lines \in Seq(L)
  PROVE  /\ Cardinality(BegunBy(lines, 0)) = 0
         /\ \A n \in Nat : Cardinality(BegunBy(lines, n)) \in Nat
         /\ \A n \in Nat : \A i \in BegunBy(lines, n) :
              Cardinality(BegunBy(lines, i)) \in 1 .. Cardinality(BegunBy(lines, n))
         /\ \A b \in Beginnings(lines) :
              Cardinality(BegunBy(lines, b)) = Cardinality(BegunBy(lines, b - 1)) + 1
<1>1. Beginnings(lines) \subseteq 1 .. Len(lines) /\ Len(lines) \in Nat
  BY DEF Beginnings
<1>2. IsFiniteSet(1 .. Len(lines))
  BY <1>1, FS_Interval
<1>3. ASSUME NEW n \in Nat
      PROVE  IsFiniteSet(BegunBy(lines, n)) /\ Cardinality(BegunBy(lines, n)) \in Nat
  <2>1. BegunBy(lines, n) \in SUBSET (1 .. Len(lines))
    BY <1>1 DEF BegunBy
  <2>2. IsFiniteSet(BegunBy(lines, n))
    BY <1>2, <2>1, FS_Subset
  <2> QED BY <2>2, FS_CardinalityType
<1>4. BegunBy(lines, 0) = {}
  BY <1>1 DEF BegunBy
<1>5. ASSUME NEW n \in Nat, NEW i \in BegunBy(lines, n)
      PROVE  Cardinality(BegunBy(lines, i)) \in 1 .. Cardinality(BegunBy(lines, n))
  <2>1. i \in Nat /\ i \in BegunBy(lines, i) /\ BegunBy(lines, i) \in SUBSET BegunBy(lines, n)
    BY <1>1 DEF BegunBy
  <2>2. Cardinality(BegunBy(lines, i)) <= Cardinality(BegunBy(lines, n))
    BY <1>3, <2>1, FS_Subset
  <2>3. Cardinality(BegunBy(lines, i)) # 0
    BY <1>3, <2>1, FS_EmptySet
  <2> QED BY <1>3, <2>1, <2>2, <2>3
<1>6. ASSUME NEW b \in Beginnings(lines)
      PROVE  Cardinality(BegunBy(lines, b)) = Cardinality(BegunBy(lines, b - 1)) + 1
  <2>1. b - 1 \in Nat
    BY <1>1
  <2>2. BegunBy(lines, b) = BegunBy(lines, b - 1) \cup {b} /\ b \notin BegunBy(lines, b - 1)
    BY <1>1 DEF BegunBy
  <2> QED BY <1>3, <2>1, <2>2, FS_AddElement
<1> QED BY <1>3, <1>4, <1>5, <1>6, FS_EmptySet

\* The first n lines have been split into the documents that begin there.
SplitTo(lines, n, docs) ==
  /\ Len(docs) = Cardinality(BegunBy(lines, n))
  /\ \A i \in BegunBy(lines, n) : docs[Cardinality(BegunBy(lines, i))] = TextOf(lines, i)

LEMMA SplitMore ==
  ASSUME NEW L, NEW lines \in Seq(L), NEW n \in 1 .. Len(lines), DocumentEnds(lines, n),
         NEW b, b = FindDocument(lines, n).first,
         NEW docs \in Seq(Seq(L)), SplitTo(lines, b - 1, docs)
  PROVE  SplitTo(lines, n, OneMore(docs, FindDocument(lines, n)))
<1> DEFINE text == FindDocument(lines, n).text
           new == Append(docs, text)
<1>1. /\ b \in 1 .. n /\ b \in Beginnings(lines) /\ text = TextOf(lines, b)
      /\ \A h \in Beginnings(lines) : h <= n => h <= b
  BY FoundText
<1>2. text \in Seq(L)
  BY FindDocumentType
<1> HIDE DEF text
<1>3. /\ Len(new) = Len(docs) + 1 /\ new[Len(docs) + 1] = text
      /\ \A i \in 1 .. Len(docs) : new[i] = docs[i]
  BY <1>2
<1>4. Len(docs) = Cardinality(BegunBy(lines, b - 1)) /\ b - 1 \in Nat
  BY <1>1 DEF SplitTo
<1> HIDE DEF new
<1>5. /\ Cardinality(BegunBy(lines, b)) = Len(docs) + 1
      /\ \A i \in BegunBy(lines, b - 1) : Cardinality(BegunBy(lines, i)) \in 1 .. Len(docs)
  BY <1>1, <1>4, BegunCount
<1>6. BegunBy(lines, n) = BegunBy(lines, b)
  <2>1. \A j \in Beginnings(lines) : j \in Nat
    BY DEF Beginnings
  <2>2. \A j \in Beginnings(lines) : j <= n <=> j <= b
    BY <1>1, <2>1
  <2> QED BY <2>2 DEF BegunBy
<1>7. ASSUME NEW i \in BegunBy(lines, b) PROVE new[Cardinality(BegunBy(lines, i))] = TextOf(lines, i)
  <2>1. i = b \/ i \in BegunBy(lines, b - 1)
    <3>1. i \in Nat
      BY DEF BegunBy, Beginnings
    <3> QED BY <1>1, <3>1 DEF BegunBy
  <2>2. CASE i = b
    BY <1>1, <1>3, <1>5, <2>2
  <2>3. CASE i \in BegunBy(lines, b - 1)
    <3>1. docs[Cardinality(BegunBy(lines, i))] = TextOf(lines, i)
      BY <2>3 DEF SplitTo
    <3> QED BY <1>3, <1>5, <2>3, <3>1
  <2> QED BY <2>1, <2>2, <2>3
<1> QED BY <1>3, <1>5, <1>6, <1>7 DEF SplitTo, OneMore, new, text

\* A file is split into its documents, whatever it consists of.
LEMMA SplitIs ==
  ASSUME NEW L, NEW data \in Seq(L)
  PROVE  AreDocuments(SplitYaml(data), Scanned(data))
<1> DEFINE lines == Scanned(data)
           N == Len(lines)
           first(n) == FindDocument(lines, n).first
<1>1. lines \in Seq(L) /\ N \in Nat
  BY ScannedType
<1>2. PICK f : /\ SplitYaml(data) = f[N] /\ f[0] = <<>>
               /\ \A n \in 1 .. N : f[n] = OneMore(f[first(n) - 1], FindDocument(lines, n))
  BY SplitSteps
<1> DEFINE Done(n) == f[n] \in Seq(Seq(L)) /\ (n = 0 \/ DocumentEnds(lines, n) => SplitTo(lines, n, f[n]))
           S == {n \in 0 .. N : \A m \in 0 .. n : Done(m)}
<1>3. Done(0)
  <2>1. <<>> \in Seq(Seq(L)) /\ Len(<<>>) = 0
    OBVIOUS
  <2>2. BegunBy(lines, 0) = {}
    BY DEF BegunBy, Beginnings
  <2> HIDE DEF lines
  <2>3. SplitTo(lines, 0, <<>>)
    BY <1>1, <2>1, <2>2, BegunCount DEF SplitTo
  <2> QED BY <1>2, <2>1, <2>3
<1>4. ASSUME NEW n \in 1 .. N, \A m \in 0 .. n - 1 : Done(m)
      PROVE  Done(n)
  <2> HIDE DEF lines, N
  <2>1. n \in 1 .. Len(lines)
    BY DEF N
  <2>2. first(n) \in 1 .. n /\ FindDocument(lines, n).text \in Seq(L)
    BY <1>1, <2>1, FindDocumentType
  <2>3. first(n) - 1 \in 0 .. n - 1
    BY <2>1, <2>2
  <2>4. f[first(n) - 1] \in Seq(Seq(L))
    BY <1>4, <2>3
  <2>5. f[n] = OneMore(f[first(n) - 1], FindDocument(lines, n))
    BY <1>2
  <2>6. f[n] \in Seq(Seq(L))
    BY <2>2, <2>4, <2>5 DEF OneMore
  <2>7. ASSUME DocumentEnds(lines, n) PROVE SplitTo(lines, n, f[n])
    <3>1. first(n) = 1 \/ DocumentEnds(lines, first(n) - 1)
      BY <1>1, <2>1, <2>7, FoundText
    <3>2. SplitTo(lines, first(n) - 1, f[first(n) - 1])
      BY <1>4, <2>3, <3>1
    <3> QED BY <1>1, <2>1, <2>4, <2>5, <2>7, <3>2, SplitMore
  <2>8. n # 0
    BY <2>1
  <2> QED BY <2>6, <2>7, <2>8
<1>5. 0 \in S
  BY <1>1, <1>3
<1>6. ASSUME NEW n \in 0 .. N, n \in S, n < N PROVE n + 1 \in S
  <2> HIDE DEF Done, N
  <2>1. n + 1 \in 1 .. N /\ (n + 1) - 1 = n
    BY <1>1, <1>6
  <2>2. Done(n + 1)
    BY <1>4, <1>6, <2>1
  <2> QED BY <1>1, <1>6, <2>1, <2>2
<1> HIDE DEF S, Done, N
<1>7. N \in S
  <2>1. N \in 0 .. N
    BY <1>1
  <2> QED BY <1>1, <1>5, <1>6, <2>1, UpToAll
<1>8. Done(N)
  BY <1>1, <1>7 DEF S
<1>9. SplitTo(lines, N, SplitYaml(data))
  BY <1>2, <1>8 DEF Done, DocumentEnds, N
<1>10. BegunBy(lines, N) = Beginnings(lines)
  BY <1>1 DEF BegunBy, Beginnings, N
<1> QED BY <1>9, <1>10 DEF SplitTo, BegunBy, AreDocuments
=============================================================================
