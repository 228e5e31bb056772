---------------------------- MODULE MCStore_proofs ----------------------------
(***************************************************************************)
(* What holds of stores, of the numbers that clients go by, of walks over  *)
(* multi worlds and of pendings, for all packages, channels, dependencies  *)
(* and bounds: the tables of a store list what its packages declare, who   *)
(* has seen a sequence number has seen what there is, walks come to all    *)
(* worlds that stay, and pendings are cleaned up when they are forgotten.  *)
(* And of subscriptions: a status that was given and saved is kept.        *)
(* The lemmas come first, about what is kept of a list and how often an    *)
(* element is in one.                                                      *)
(***************************************************************************)
EXTENDS MCStore, FunctionTheorems, FiniteSetTheorems, NaturalsInduction, WellFoundedInduction,
        TLAPS

-----------------------------------------------------------------------------
(* Lists *)

\* A non-empty set of naturals has a smallest element.
LEMMA SmallestExists ==
  ASSUME NEW T \in SUBSET Nat, T # {}
  PROVE  \E i \in T : \A j \in T : i <= j
<1>1. PICK i \in T : \A j \in T : <<j, i>> \notin OpToRel(<, Nat)
  BY NatLessThanWellFounded, WFMin
<1>2. \A j \in T : ~(j < i)
  BY <1>1 DEF OpToRel
<1> QED
  BY <1>2

\* The numbers up to a length.
LEMMA Interval ==
  ASSUME NEW n \in Nat
  PROVE  IsFiniteSet(1..n) /\ Cardinality(1..n) = n
<1>1. 1 \in Int /\ n \in Int
  OBVIOUS
<1>2. /\ IsFiniteSet(1..n)
      /\ Cardinality(1..n) = IF 1 > n THEN 0 ELSE n - 1 + 1
  BY <1>1, FS_Interval
<1> QED
  BY <1>2

\* Some places in a list are finitely many.
LEMMA PlacesAreFinite ==
  ASSUME NEW n \in Nat, NEW places \in SUBSET (1..n)
  PROVE  IsFiniteSet(places) /\ Cardinality(places) \in 0..n
<1> DEFINE all == 1..n
<1>1. IsFiniteSet(all) /\ Cardinality(all) = n
  BY Interval
<1> HIDE DEF all
<1>2. places \in SUBSET all
  BY DEF all
<1>3. IsFiniteSet(places) /\ Cardinality(places) <= n
  BY <1>1, <1>2, FS_Subset
<1> QED
  BY <1>3, FS_CardinalityType

\* What is kept of a list are its elements in the set, each from a place of its own.
LEMMA KeptPlaces ==
  ASSUME NEW S, NEW s \in Seq(S), NEW A
  PROVE  \E f : /\ f \in Bijection(1..Len(Kept(s, A)), {i \in 1..Len(s) : s[i] \in A})
                /\ Kept(s, A) = [k \in 1..Len(Kept(s, A)) |-> s[f[k]]]
                /\ Len(Kept(s, A)) \in 0..Len(s)
<1> DEFINE places == {i \in 1..Len(s) : s[i] \in A}
           n == Cardinality(places)
           UpTo(i) == {j \in places : j <= i}
           rank == [i \in places |-> Cardinality(UpTo(i))]
           f == [k \in 1..n |-> CHOOSE i \in places : Cardinality(UpTo(i)) = k]
<1>1. /\ IsFiniteSet(places) /\ n \in 0..Len(s) /\ Len(s) \in Nat
      /\ places \in SUBSET Int
  BY PlacesAreFinite
<1>2. Kept(s, A) = [k \in 1..n |-> s[f[k]]]
  BY DEF Kept
<1>3. Len(Kept(s, A)) = n
  BY <1>1, <1>2
<1> HIDE DEF places
<1>4. ASSUME NEW i \in places
      PROVE  IsFiniteSet(UpTo(i)) /\ Cardinality(UpTo(i)) \in 1..n
  <2>1. UpTo(i) \in SUBSET places /\ i \in UpTo(i)
    BY <1>1
  <2>2. IsFiniteSet(UpTo(i)) /\ Cardinality(UpTo(i)) <= n /\ Cardinality(UpTo(i)) \in Nat
    BY <1>1, <2>1, FS_Subset, FS_CardinalityType
  <2>3. Cardinality(UpTo(i)) # 0
    BY <2>1, <2>2, FS_EmptySet
  <2> QED
    BY <1>1, <2>2, <2>3
<1>5. ASSUME NEW i \in places, NEW j \in places, i < j
      PROVE  Cardinality(UpTo(i)) # Cardinality(UpTo(j))
  <2>0. \A p \in places : p \in Int
    BY <1>1
  <2>1. UpTo(i) \in SUBSET UpTo(j) /\ j \in UpTo(j) /\ j \notin UpTo(i)
    BY <1>5, <2>0
  <2> QED
    BY <2>1, <1>4, FS_Subset
<1>6. rank \in Injection(places, 1..n)
  <2>1. rank \in [places -> 1..n]
    BY <1>4
  <2>2. ASSUME NEW i \in places, NEW j \in places, rank[i] = rank[j]
        PROVE  i = j
    BY <1>1, <1>5, <2>2
  <2> QED
    BY <2>1, <2>2 DEF Injection, IsInjective
<1>7. rank \in Surjection(places, 1..n)
  <2>1. IsFiniteSet(1..n) /\ Cardinality(1..n) = n
    BY <1>1, Interval
  <2> QED
    BY <1>1, <1>6, <2>1, FS_Injection
<1>8. ASSUME NEW k \in 1..n
      PROVE  f[k] \in places /\ rank[f[k]] = k
  <2>1. PICK i \in places : rank[i] = k
    BY <1>7 DEF Surjection
  <2>2. Cardinality(UpTo(i)) = k
    BY <2>1
  <2> HIDE DEF UpTo
  <2>3. f[k] \in places /\ Cardinality(UpTo(f[k])) = k
    BY <2>2
  <2> HIDE DEF f
  <2> QED
    BY <2>3
<1>9. f \in [1..n -> places]
  BY <1>8
<1> HIDE DEF f
<1>10. \A i \in places : rank[i] \in 1..n /\ f[rank[i]] = i
  BY <1>4, <1>6, <1>8 DEF Injection, IsInjective
<1> HIDE DEF rank
<1>11. f \in Bijection(1..n, places)
  BY <1>8, <1>9, <1>10 DEF Bijection, Injection, Surjection, IsInjective
<1> QED
  BY <1>1, <1>2, <1>3, <1>11 DEF places

LEMMA KeptType ==
  ASSUME NEW S, NEW s \in Seq(S), NEW A
  PROVE  /\ Kept(s, A) \in Seq(S) /\ Len(Kept(s, A)) <= Len(s)
         /\ Range(Kept(s, A)) = Range(s) \cap A
<1> DEFINE places == {i \in 1..Len(s) : s[i] \in A}
           less == Kept(s, A)
<1>1. PICK f : /\ f \in Bijection(1..Len(less), places)
               /\ less = [k \in 1..Len(less) |-> s[f[k]]]
               /\ Len(less) \in 0..Len(s)
  BY KeptPlaces
<1>2. /\ Len(s) \in Nat /\ DOMAIN s = 1..Len(s) /\ \A i \in 1..Len(s) : s[i] \in S
      /\ Len(less) \in Nat /\ Len(less) <= Len(s)
  BY <1>1
<1> HIDE DEF less
<1>3. /\ \A k \in 1..Len(less) : f[k] \in 1..Len(s) /\ s[f[k]] \in A
      /\ \A i \in 1..Len(s) : s[i] \in A => \E k \in 1..Len(less) : f[k] = i
  BY <1>1 DEF Bijection, Surjection, Injection
<1>4. less \in Seq(S)
  BY <1>1, <1>2, <1>3
<1>5. DOMAIN less = 1..Len(less) /\ \A k \in 1..Len(less) : less[k] = s[f[k]]
  BY <1>1
<1>6. Range(less) = Range(s) \cap A
  BY <1>2, <1>3, <1>5 DEF Range
<1> QED
  BY <1>2, <1>4, <1>6 DEF less

\* Sets of which the elements correspond have as many.
LEMMA SameNumber ==
  ASSUME NEW S, IsFiniteSet(S), NEW T, NEW f \in [S -> T],
         \A x, y \in S : f[x] = f[y] => x = y,
         \A t \in T : \E x \in S : f[x] = t
  PROVE  IsFiniteSet(T) /\ Cardinality(T) = Cardinality(S)
<1>1. f \in Bijection(S, T)
  BY DEF Bijection, Injection, Surjection, IsInjective
<1> QED
  BY <1>1, FS_Bijection, Fun_ExistsBij

At(s, e) == {i \in 1..Len(s) : s[i] = e}

LEMMA TimesType ==
  ASSUME NEW S, NEW s \in Seq(S), NEW e
  PROVE  IsFiniteSet(At(s, e)) /\ Times(s, e) = Cardinality(At(s, e)) /\ Times(s, e) \in 0..Len(s)
<1>1. Len(s) \in Nat /\ At(s, e) \in SUBSET (1..Len(s))
  BY DEF At
<1>2. IsFiniteSet(At(s, e)) /\ Cardinality(At(s, e)) \in 0..Len(s)
  BY <1>1, PlacesAreFinite
<1> QED
  BY <1>2 DEF At, Times

\* What is kept is in the list as often as before, and what is not, not at all.
LEMMA KeptTimes ==
  ASSUME NEW S, NEW s \in Seq(S), NEW A, NEW e
  PROVE  Times(Kept(s, A), e) = IF e \in A THEN Times(s, e) ELSE 0
<1> DEFINE places == {i \in 1..Len(s) : s[i] \in A}
           less == Kept(s, A)
<1>1. PICK f : /\ f \in Bijection(1..Len(less), places)
               /\ less = [k \in 1..Len(less) |-> s[f[k]]]
               /\ Len(less) \in 0..Len(s)
  BY KeptPlaces
<1>2. less \in Seq(S)
  BY KeptType
<1> HIDE DEF less
<1>3. /\ \A k \in 1..Len(less) : f[k] \in 1..Len(s) /\ s[f[k]] \in A
      /\ \A j, k \in 1..Len(less) : f[j] = f[k] => j = k
      /\ \A i \in 1..Len(s) : s[i] \in A => \E k \in 1..Len(less) : f[k] = i
      /\ \A k \in 1..Len(less) : less[k] = s[f[k]]
  BY <1>1 DEF Bijection, Surjection, Injection, IsInjective
<1>4. CASE e \in A
  <2> DEFINE g == [k \in At(less, e) |-> f[k]]
  <2>1. g \in [At(less, e) -> At(s, e)]
    BY <1>3 DEF At
  <2>2. \A j, k \in At(less, e) : g[j] = g[k] => j = k
    BY <1>3 DEF At
  <2>3. \A i \in At(s, e) : \E k \in At(less, e) : g[k] = i
    BY <1>3, <1>4 DEF At
  <2>4. IsFiniteSet(At(less, e))
    BY <1>2, TimesType
  <2> HIDE DEF g
  <2>5. Cardinality(At(s, e)) = Cardinality(At(less, e))
    BY <2>1, <2>2, <2>3, <2>4, SameNumber
  <2> QED
    BY <1>2, <1>4, <2>5, TimesType DEF less
<1>5. CASE e \notin A
  <2>1. At(less, e) = {}
    BY <1>3, <1>5 DEF At
  <2>2. Times(less, e) = Cardinality(At(less, e))
    BY <1>2, TimesType
  <2> QED
    BY <1>5, <2>1, <2>2, FS_EmptySet DEF less
<1> QED
  BY <1>4, <1>5

\* In two lists one after the other an element is as often as in both.
LEMMA TimesConcat ==
  ASSUME NEW S, NEW s \in Seq(S), NEW t \in Seq(S), NEW e
  PROVE  Times(s \o t, e) = Times(s, e) + Times(t, e)
<1> DEFINE n == Len(s)
           shifted == {n + i : i \in At(t, e)}
           shift == [i \in At(t, e) |-> n + i]
<1>1. /\ s \o t \in Seq(S) /\ Len(s \o t) = n + Len(t) /\ n \in Nat /\ Len(t) \in Nat
      /\ \A i \in 1..n : (s \o t)[i] = s[i]
      /\ \A i \in 1..Len(t) : (s \o t)[n + i] = t[i]
      /\ \A i \in 1..(n + Len(t)) : i \in 1..n \/ \E j \in 1..Len(t) : i = n + j
  <2>1. n \in Nat /\ Len(t) \in Nat
    OBVIOUS
  <2>2. ASSUME NEW i \in 1..(n + Len(t))
        PROVE  i \in 1..n \/ \E j \in 1..Len(t) : i = n + j
    <3> HIDE DEF n
    <3>1. CASE i > n
      <4>1. i - n \in 1..Len(t) /\ i = n + (i - n)
        BY <2>1, <3>1
      <4> QED
        BY <4>1
    <3> QED
      BY <2>1, <3>1
  <2>3. /\ s \o t \in Seq(S) /\ Len(s \o t) = n + Len(t)
        /\ \A i \in 1..n : (s \o t)[i] = s[i]
        /\ \A i \in 1..Len(t) : (s \o t)[n + i] = t[i]
    OBVIOUS
  <2> QED
    BY <2>1, <2>2, <2>3
<1>2. At(s \o t, e) = At(s, e) \cup shifted /\ At(s, e) \cap shifted = {}
  <2> DEFINE st == s \o t
  <2> HIDE DEF st, n
  <2>1. ASSUME NEW i \in At(st, e) PROVE i \in At(s, e) \cup shifted
    <3>1. i \in 1..(n + Len(t)) /\ st[i] = e
      BY <1>1 DEF At, st
    <3> QED
      BY <1>1, <3>1 DEF At, st, n
  <2>2. ASSUME NEW i \in At(s, e) PROVE i \in At(st, e)
    BY <1>1 DEF At, st, n
  <2>3. ASSUME NEW i \in At(t, e) PROVE n + i \in At(st, e) /\ n + i \notin At(s, e)
    BY <1>1 DEF At, st, n
  <2> QED
    BY <2>1, <2>2, <2>3 DEF st
<1>3. IsFiniteSet(shifted) /\ Cardinality(shifted) = Cardinality(At(t, e))
  <2>1. /\ shift \in [At(t, e) -> shifted]
        /\ \A i, j \in At(t, e) : shift[i] = shift[j] => i = j
        /\ \A k \in shifted : \E i \in At(t, e) : shift[i] = k
    BY <1>1 DEF At
  <2>2. IsFiniteSet(At(t, e))
    BY TimesType
  <2> HIDE DEF shift, shifted
  <2> QED
    BY <2>1, <2>2, SameNumber
<1>4. /\ IsFiniteSet(At(s, e)) /\ Times(s, e) = Cardinality(At(s, e)) /\ Times(s, e) \in Nat
      /\ Times(t, e) = Cardinality(At(t, e)) /\ Times(t, e) \in Nat
      /\ Times(s \o t, e) = Cardinality(At(s \o t, e))
  <2>1. s \o t \in Seq(S)
    BY <1>1
  <2>2. Times(s \o t, e) = Cardinality(At(s \o t, e))
    BY <2>1, TimesType
  <2> QED
    BY <2>2, TimesType
<1> HIDE DEF shifted
<1>5. Cardinality(At(s, e) \cup shifted) = Cardinality(At(s, e)) + Cardinality(shifted) - 0
  BY <1>2, <1>3, <1>4, FS_Union, FS_EmptySet
<1> QED
  BY <1>2, <1>3, <1>4, <1>5

\* Turning a list round changes nothing of that.
LEMMA TimesReverse ==
  ASSUME NEW S, NEW s \in Seq(S), NEW e
  PROVE  Reverse(s) \in Seq(S) /\ Times(Reverse(s), e) = Times(s, e)
<1> DEFINE n == Len(s)
           r == Reverse(s)
           turn == [i \in At(s, e) |-> n - i + 1]
<1>1. n \in Nat /\ r \in Seq(S) /\ Len(r) = n /\ \A i \in 1..n : r[i] = s[n - i + 1]
  BY DEF Reverse
<1> HIDE DEF n, r
<1>2. \A i \in 1..n : n - i + 1 \in 1..n /\ n - (n - i + 1) + 1 = i
  BY <1>1
<1>3. turn \in [At(s, e) -> At(r, e)]
  <2>1. ASSUME NEW i \in At(s, e) PROVE n - i + 1 \in At(r, e)
    BY <1>1, <1>2 DEF At, n
  <2> QED
    BY <2>1
<1>4. \A i, j \in At(s, e) : turn[i] = turn[j] => i = j
  BY <1>1 DEF At, n
<1>5. ASSUME NEW k \in At(r, e) PROVE \E i \in At(s, e) : turn[i] = k
  <2>1. n - k + 1 \in At(s, e) /\ n - (n - k + 1) + 1 = k
    BY <1>1, <1>2 DEF At, n
  <2> QED
    BY <2>1
<1>6. IsFiniteSet(At(s, e)) /\ Times(s, e) = Cardinality(At(s, e)) /\ Times(r, e) = Cardinality(At(r, e))
  BY <1>1, TimesType
<1> HIDE DEF turn
<1>7. Cardinality(At(r, e)) = Cardinality(At(s, e))
  BY <1>3, <1>4, <1>5, <1>6, SameNumber
<1> QED
  BY <1>1, <1>6, <1>7 DEF r

\* What is put into the front of a list.
LEMMA TimesFirst ==
  ASSUME NEW S, NEW s \in Seq(S), NEW p \in S, NEW e
  PROVE  /\ <<p>> \o s \in Seq(S) /\ Range(<<p>> \o s) = {p} \cup Range(s)
         /\ Times(<<p>> \o s, e) = (IF e = p THEN 1 ELSE 0) + Times(s, e)
<1>1. <<p>> \in Seq(S) /\ Len(<<p>>) = 1 /\ <<p>>[1] = p
  OBVIOUS
<1>2. At(<<p>>, e) = IF e = p THEN {1} ELSE {}
  BY <1>1 DEF At
<1>3. Times(<<p>>, e) = IF e = p THEN 1 ELSE 0
  <2>1. Times(<<p>>, e) = Cardinality(At(<<p>>, e))
    BY <1>1, TimesType
  <2>2. Cardinality({1}) = 1 /\ Cardinality({}) = 0
    BY FS_Singleton, FS_EmptySet
  <2> QED
    BY <1>2, <2>1, <2>2
<1>4. Range(<<p>> \o s) = {p} \cup Range(s)
  <2> DEFINE t == <<p>> \o s
  <2>1. /\ Len(s) \in Nat /\ DOMAIN s = 1..Len(s) /\ DOMAIN t = 1..(Len(s) + 1)
        /\ t[1] = p /\ \A i \in 1..Len(s) : t[i + 1] = s[i]
        /\ \A i \in 1..(Len(s) + 1) : i = 1 \/ (i - 1 \in 1..Len(s) /\ t[i] = s[i - 1])
    OBVIOUS
  <2>2. \A i \in 1..Len(s) : i + 1 \in 1..(Len(s) + 1) /\ 1 \in 1..(Len(s) + 1)
    BY <2>1
  <2>3. 1 \in 1..(Len(s) + 1)
    BY <2>1
  <2> HIDE DEF t
  <2>4. ASSUME NEW x \in Range(t) PROVE x \in {p} \cup Range(s)
    BY <2>1 DEF Range
  <2>5. ASSUME NEW x \in {p} \cup Range(s) PROVE x \in Range(t)
    <3>1. CASE x = p
      BY <2>1, <2>3, <3>1 DEF Range
    <3>2. CASE x # p
      <4>1. PICK i \in 1..Len(s) : x = s[i]
        BY <2>1, <3>2 DEF Range
      <4> QED
        BY <2>1, <2>2, <4>1 DEF Range
    <3> QED
      BY <3>1, <3>2
  <2> QED
    BY <2>4, <2>5 DEF t
<1>5. Times(<<p>> \o s, e) = Times(<<p>>, e) + Times(s, e)
  BY <1>1, TimesConcat
<1> QED
  BY <1>1, <1>3, <1>4, <1>5

-----------------------------------------------------------------------------
(* The tables of a store *)

\* What PartsAssumption says of the store.
LEMMA StoreAssumed == StoreAssumption
BY PartsAssumption

\* The pads of a package: each dependency as often as it is declared.
LEMMA PadsOfTimes ==
  ASSUME NEW k \in Kind, NEW p \in Package, NEW q \in Package, NEW d \in Dep
  PROVE  /\ PadsOf(k, p) \in Seq(Pads)
         /\ Declared(k, p, d) \in Nat
         /\ Times(PadsOf(k, p), [package |-> q, dep |-> d])
              = IF q = p THEN Declared(k, p, d) ELSE 0
         /\ \A pad \in Range(PadsOf(k, p)) : pad.package = p
<1> DEFINE deps == IF k = "requires" THEN DepsOf["requires"][p] \o DepsOf["recommends"][p]
                   ELSE DepsOf[k][p]
           pads == [i \in 1..Len(deps) |-> [package |-> p, dep |-> deps[i]]]
           pad0 == [package |-> q, dep |-> d]
<1>1. /\ DepsOf[k][p] \in Seq(Dep) /\ DepsOf["recommends"][p] \in Seq(Dep)
      /\ DepsOf["requires"][p] \in Seq(Dep)
  BY StoreAssumed DEF StoreAssumption, Kind
<1>2. deps \in Seq(Dep) /\ Times(deps, d) = Declared(k, p, d) /\ Declared(k, p, d) \in Nat
  <2>1. CASE k = "requires"
    <3>1. deps = DepsOf["requires"][p] \o DepsOf["recommends"][p]
      BY <2>1
    <3>2. Times(DepsOf["requires"][p] \o DepsOf["recommends"][p], d)
            = Times(DepsOf["requires"][p], d) + Times(DepsOf["recommends"][p], d)
      BY <1>1, TimesConcat
    <3>3. Times(DepsOf["requires"][p], d) \in Nat /\ Times(DepsOf["recommends"][p], d) \in Nat
      BY <1>1, TimesType
    <3>4. deps \in Seq(Dep)
      BY <1>1, <3>1
    <3> HIDE DEF deps
    <3> QED
      BY <2>1, <3>1, <3>2, <3>3, <3>4 DEF Declared
  <2>2. CASE k # "requires"
    <3>1. deps = DepsOf[k][p]
      BY <2>2
    <3>2. Times(DepsOf[k][p], d) \in Nat
      BY <1>1, TimesType
    <3> HIDE DEF deps
    <3> QED
      BY <1>1, <2>2, <3>1, <3>2 DEF Declared
  <2> QED
    BY <2>1, <2>2
<1> HIDE DEF deps
<1>3. /\ Len(deps) \in Nat /\ \A i \in 1..Len(deps) : deps[i] \in Dep
      /\ Len(pads) = Len(deps) /\ pads \in Seq(Pads)
  BY <1>2 DEF Pads
<1>4. At(pads, pad0) = IF q = p THEN At(deps, d) ELSE {}
  BY <1>3 DEF At
<1>5. Times(pads, pad0) = IF q = p THEN Times(deps, d) ELSE 0
  <2>1. Times(pads, pad0) = Cardinality(At(pads, pad0)) /\ Times(deps, d) = Cardinality(At(deps, d))
    BY <1>2, <1>3, TimesType
  <2> HIDE DEF pads, pad0
  <2> QED
    BY <1>4, <2>1, FS_EmptySet
<1>6. PadsOf(k, p) = Reverse(pads)
  BY DEF PadsOf, deps
<1>7. Reverse(pads) \in Seq(Pads) /\ Times(Reverse(pads), pad0) = Times(pads, pad0)
  BY <1>3, TimesReverse
<1>8. \A pad \in Range(Reverse(pads)) : pad.package = p
  <2>1. \A i \in 1..Len(pads) : pads[i].package = p /\ Len(pads) - i + 1 \in 1..Len(pads)
    BY <1>3
  <2>2. DOMAIN Reverse(pads) = 1..Len(pads) /\ \A i \in 1..Len(pads) : Reverse(pads)[i] = pads[Len(pads) - i + 1]
    BY <1>3 DEF Reverse
  <2> HIDE DEF pads
  <2>3. ASSUME NEW pad \in Range(Reverse(pads)) PROVE pad.package = p
    <3>1. PICK i \in DOMAIN Reverse(pads) : pad = Reverse(pads)[i]
      BY DEF Range
    <3>2. i \in 1..Len(pads) /\ pad = pads[Len(pads) - i + 1] /\ Len(pads) - i + 1 \in 1..Len(pads)
      BY <2>1, <2>2, <3>1
    <3> QED
      BY <2>1, <3>2
  <2> QED
    BY <2>3
<1> HIDE DEF pads
<1> QED
  BY <1>2, <1>5, <1>6, <1>7, <1>8

IsIndex(idx) == idx \in [Kind -> Seq(Pads)]

\* The tables idx list what the packages in the list declare.
Agree(idx, list0) ==
  \A k \in Kind : \A p \in Package : \A d \in Dep :
    Times(idx[k], [package |-> p, dep |-> d]) = Times(list0, p) * Declared(k, p, d)

\* Packages are taken out of all tables at once.
LEMMA UnindexedAgrees ==
  ASSUME NEW list0 \in Seq(Package), NEW idx, IsIndex(idx), Agree(idx, list0), NEW gone
  PROVE  /\ Without(list0, gone) \in Seq(Package) /\ Len(Without(list0, gone)) <= Len(list0)
         /\ Range(Without(list0, gone)) = Range(list0) \ gone
         /\ IsIndex(Unindexed(idx, gone)) /\ Agree(Unindexed(idx, gone), Without(list0, gone))
         /\ \A k \in Kind : \A pad \in Range(Unindexed(idx, gone)[k]) :
              pad \in Range(idx[k]) /\ pad.package \notin gone
<1> DEFINE A == {pad \in Pads : pad.package \notin gone}
<1>1. /\ Without(list0, gone) \in Seq(Package) /\ Len(Without(list0, gone)) <= Len(list0)
      /\ Range(Without(list0, gone)) = Range(list0) \cap (Package \ gone)
  BY KeptType DEF Without
<1>2. Range(list0) \in SUBSET Package
  BY DEF Range
<1>3. Unindexed(idx, gone) = [k \in Kind |-> Kept(idx[k], A)]
  BY DEF Unindexed
<1> HIDE DEF A
<1>4. ASSUME NEW k \in Kind
      PROVE  Kept(idx[k], A) \in Seq(Pads) /\ Range(Kept(idx[k], A)) = Range(idx[k]) \cap A
  BY KeptType DEF IsIndex
<1>5. IsIndex(Unindexed(idx, gone))
  BY <1>3, <1>4 DEF IsIndex
<1>6. ASSUME NEW k \in Kind, NEW p \in Package, NEW d \in Dep
      PROVE  Times(Unindexed(idx, gone)[k], [package |-> p, dep |-> d])
               = Times(Without(list0, gone), p) * Declared(k, p, d)
  <2> DEFINE pad0 == [package |-> p, dep |-> d]
  <2>1. pad0 \in A <=> p \notin gone
    BY DEF A, Pads
  <2>2. idx[k] \in Seq(Pads)
    BY DEF IsIndex
  <2> HIDE DEF pad0
  <2>3. Times(Kept(idx[k], A), pad0) = IF p \notin gone THEN Times(idx[k], pad0) ELSE 0
    BY <2>1, <2>2, KeptTimes
  <2>4. Times(Without(list0, gone), p) = IF p \notin gone THEN Times(list0, p) ELSE 0
    <3>1. Times(Kept(list0, Package \ gone), p)
            = IF p \in Package \ gone THEN Times(list0, p) ELSE 0
      BY KeptTimes
    <3> QED
      BY <3>1 DEF Without
  <2>5. Times(idx[k], pad0) = Times(list0, p) * Declared(k, p, d)
    BY DEF Agree, pad0
  <2>6. Declared(k, p, d) \in Nat
    BY PadsOfTimes
  <2>7. Unindexed(idx, gone)[k] = Kept(idx[k], A)
    BY <1>3
  <2>8. CASE p \in gone
    <3>1. 0 * Declared(k, p, d) = 0
      BY <2>6
    <3> QED
      BY <2>3, <2>4, <2>7, <2>8, <3>1 DEF pad0
  <2>9. CASE p \notin gone
    BY <2>3, <2>4, <2>5, <2>7, <2>9 DEF pad0
  <2> QED
    BY <2>8, <2>9
<1>7. \A k \in Kind : \A pad \in Range(Unindexed(idx, gone)[k]) :
        pad \in Range(idx[k]) /\ pad.package \notin gone
  BY <1>3, <1>4 DEF A
<1> QED
  BY <1>1, <1>2, <1>5, <1>6, <1>7 DEF Agree

\* A package is put into the list and its dependencies into all tables.
LEMMA IndexedAgrees ==
  ASSUME NEW list0 \in Seq(Package), NEW idx, IsIndex(idx), Agree(idx, list0), NEW p \in Package
  PROVE  IsIndex(Indexed(idx, p)) /\ Agree(Indexed(idx, p), <<p>> \o list0)
<1>1. ASSUME NEW k \in Kind
      PROVE  PadsOf(k, p) \in Seq(Pads) /\ idx[k] \in Seq(Pads)
  <2>1. CASE Dep = {}
    <3>1. DepsOf[k][p] = <<>> /\ DepsOf["recommends"][p] = <<>> /\ DepsOf["requires"][p] = <<>>
      BY <2>1, StoreAssumed DEF StoreAssumption, Kind
    <3>2. PadsOf(k, p) = <<>>
      BY <3>1 DEF PadsOf, Reverse
    <3> QED
      BY <3>2 DEF IsIndex
  <2>2. CASE Dep # {}
    BY <2>2, PadsOfTimes DEF IsIndex
  <2> QED
    BY <2>1, <2>2
<1>2. IsIndex(Indexed(idx, p))
  BY <1>1 DEF Indexed, IsIndex
<1>3. ASSUME NEW k \in Kind, NEW q \in Package, NEW d \in Dep
      PROVE  Times(Indexed(idx, p)[k], [package |-> q, dep |-> d])
               = Times(<<p>> \o list0, q) * Declared(k, q, d)
  <2> DEFINE pad0 == [package |-> q, dep |-> d]
             n == Declared(k, q, d)
  <2>1. Indexed(idx, p)[k] = PadsOf(k, p) \o idx[k]
    BY DEF Indexed
  <2>2. Times(PadsOf(k, p), pad0) = (IF q = p THEN n ELSE 0) /\ n \in Nat
    BY PadsOfTimes
  <2>3. Times(idx[k], pad0) = Times(list0, q) * n
    BY DEF Agree
  <2> HIDE DEF pad0, n
  <2>4. Times(PadsOf(k, p) \o idx[k], pad0) = Times(PadsOf(k, p), pad0) + Times(idx[k], pad0)
    BY <1>1, TimesConcat
  <2>5. Times(<<p>> \o list0, q) = (IF q = p THEN 1 ELSE 0) + Times(list0, q)
    BY TimesFirst
  <2>6. Times(list0, q) \in Nat
    BY TimesType
  <2>7. (1 + Times(list0, q)) * n = n + Times(list0, q) * n
    <3>1. \A x, y \in Nat : (1 + x) * y = y + x * y
      OBVIOUS
    <3> QED
      BY <2>2, <2>6, <3>1
  <2>8. Times(list0, q) * n \in Nat
    BY <2>2, <2>6
  <2> QED
    BY <2>1, <2>2, <2>3, <2>4, <2>5, <2>6, <2>7, <2>8 DEF pad0, n
<1> QED
  BY <1>2, <1>3 DEF Agree

\* A list without the first occurrence of an element.
LEMMA RemoveFirstType ==
  ASSUME NEW S, NEW s \in Seq(S), NEW e \in Range(s)
  PROVE  RemoveFirst(s, e) \in Seq(S) /\ Range(RemoveFirst(s, e)) \in SUBSET S
<1> DEFINE I == {i \in 1..Len(s) : s[i] = e}
           first == CHOOSE i \in I : \A j \in I : i <= j
<1>1. Len(s) \in Nat /\ \E i \in 1..Len(s) : s[i] = e
  BY DEF Range
<1>2. I \in SUBSET Nat /\ I # {}
  BY <1>1
<1> HIDE DEF I
<1>3. \E i \in I : \A j \in I : i <= j
  BY <1>2, SmallestExists
<1>4. first \in I
  BY <1>3
<1>5. SelectInSeq(s, LAMBDA v : v = e) = first
  BY <1>2 DEF SelectInSeq, I, Min
<1> HIDE DEF first
<1>6. RemoveFirst(s, e) = SubSeq(s, 1, first - 1) \o SubSeq(s, first + 1, Len(s))
  BY <1>1, <1>5 DEF RemoveFirst, RemoveAt
<1>7. first \in 1..Len(s)
  BY <1>4 DEF I
<1>8. SubSeq(s, 1, first - 1) \in Seq(S) /\ SubSeq(s, first + 1, Len(s)) \in Seq(S)
  BY <1>1, <1>7
<1>9. RemoveFirst(s, e) \in Seq(S)
  BY <1>6, <1>8
<1> QED
  BY <1>9 DEF Range

StoreInv ==
  /\ TypeOK /\ IndexesAgree /\ RemovedAreGone
  /\ NumberTellsPackages

LEMMA StoreInvInit == Init => StoreInv
<1> SUFFICES ASSUME Init PROVE StoreInv
  OBVIOUS
<1>1. packages = <<>> /\ index = [k \in Kind |-> <<>>] /\ seqNo = 1 /\ seen.seq = 0
  BY DEF Init
<1>2. TypeOK
  BY StoreAssumed DEF Init, TypeOK, StoreAssumption, IsIndex
<1>3. IndexesAgree
  <2>1. ASSUME NEW e PROVE Times(<<>>, e) = 0
    <3>1. {i \in 1..Len(<<>>) : <<>>[i] = e} = {}
      OBVIOUS
    <3> QED
      BY <3>1, FS_EmptySet DEF Times
  <2>2. ASSUME NEW k \in Kind, NEW p \in Package, NEW d \in Dep
        PROVE  Times(index[k], [package |-> p, dep |-> d]) = Times(packages, p) * Declared(k, p, d)
    <3>1. Declared(k, p, d) \in Nat
      BY PadsOfTimes
    <3>2. 0 = 0 * Declared(k, p, d)
      BY <3>1
    <3> QED
      BY <1>1, <2>1, <3>2
  <2> QED
    BY <2>2 DEF IndexesAgree
<1>4. RemovedAreGone /\ NumberTellsPackages
  BY <1>1 DEF Init, RemovedAreGone, NumberTellsPackages
<1> QED
  BY <1>2, <1>3, <1>4 DEF StoreInv

SeenType ==
  /\ seen \in [seq : 0..MaxSequence, view : SUBSET Package, inHandler : BOOLEAN]
  /\ seen.seq <= seqNo

\* The client sees packages of the store from a handler or has seen them before.
LEMMA TouchType ==
  ASSUME TypeOK, NEW times \in 0..2, NEW list0, Touch(times, list0), Range(list0) \in SUBSET Package
  PROVE  /\ seqNo' \in 1..MaxSequence /\ seqNo' = seqNo + times
         /\ SeenType' /\ (seen' = seen \/ (times > 0 /\ seen'.inHandler))
<1>1. MaxSequence \in Nat
  BY StoreAssumed DEF StoreAssumption
<1>2. View(list0) \in SUBSET Package
  BY DEF View
<1>3. seqNo \in 1..MaxSequence /\ SeenType
  BY DEF TypeOK, SeenType
<1>4. /\ seqNo + times <= MaxSequence /\ seqNo' = seqNo + times
      /\ seqNo' \in 1..MaxSequence /\ seqNo <= seqNo'
  BY <1>1, <1>3 DEF Touch
<1>5. CASE seen' = seen
  BY <1>1, <1>3, <1>4, <1>5 DEF SeenType
<1>6. CASE times > 0 /\ seen' = [seq |-> seqNo + times, view |-> View(list0), inHandler |-> TRUE]
  <2>1. seen'.inHandler /\ seen'.seq = seqNo'
    BY <1>4, <1>6
  <2>2. seqNo + times \in 0..MaxSequence /\ seqNo' <= seqNo'
    BY <1>1, <1>3, <1>4
  <2>3. seen' \in [seq : 0..MaxSequence, view : SUBSET Package, inHandler : BOOLEAN]
    BY <1>2, <1>6, <2>2
  <2> QED
    BY <1>4, <1>6, <2>1, <2>2, <2>3 DEF SeenType
<1>7. seen' = seen \/ (times > 0 /\ seen' = [seq |-> seqNo + times, view |-> View(list0), inHandler |-> TRUE])
  BY DEF Touch
<1> QED
  BY <1>4, <1>5, <1>6, <1>7

\* What a client sees does not change with packages of hidden channels.
LEMMA UnseenUnchanged ==
  ASSUME NEW list0, NEW list1,
         \A p \in Range(list0) : IsShown(p) => p \in Range(list1),
         \A p \in Range(list1) : IsShown(p) => p \in Range(list0)
  PROVE  View(list0) = View(list1)
BY DEF View

\* Packages go, and the number goes up if one of them is shown.
LEMMA DropKeeps ==
  ASSUME StoreInv, NEW gone, NEW times \in 0..1, Touch(times, packages),
         times = 0 => \A p \in gone \cap Package : ~IsShown(p),
         packages' = Without(packages, gone), index' = Unindexed(index, gone),
         channels' \in Seq(Channel), locks' = locks, lockStore' = lockStore,
         did'[1] \in {"removeChannel", "removePackages"} =>
           \A p \in Package : ChannelEqual(ChannelOf[p], did'[2]) => p \in gone
  PROVE  StoreInv'
<1>1. /\ packages \in Seq(Package) /\ IsIndex(index) /\ Agree(index, packages)
      /\ Len(packages) <= MaxPackages /\ MaxPackages \in Nat
      /\ Range(packages) \in SUBSET Package
  BY StoreAssumed DEF StoreInv, TypeOK, IsIndex, IndexesAgree, Agree, StoreAssumption, Range
<1>2. /\ packages' \in Seq(Package) /\ Len(packages') <= Len(packages)
      /\ Range(packages') = Range(packages) \ gone
      /\ IsIndex(index') /\ Agree(index', packages')
      /\ \A k \in Kind : \A pad \in Range(index'[k]) : pad.package \notin gone
  BY <1>1, UnindexedAgrees
<1>3. /\ seqNo' \in 1..MaxSequence /\ seqNo' = seqNo + times
      /\ SeenType' /\ (seen' = seen \/ (times > 0 /\ seen'.inHandler))
  <2>1. times \in 0..2 /\ TypeOK
    BY DEF StoreInv
  <2> QED
    BY <1>1, <2>1, TouchType
<1>4. TypeOK'
  <2>1. Len(packages') <= MaxPackages
    BY <1>1, <1>2
  <2>2. /\ seen' \in [seq : 0..MaxSequence, view : SUBSET Package, inHandler : BOOLEAN]
        /\ seen'.seq <= seqNo'
    BY <1>3 DEF SeenType
  <2> QED
    BY <1>2, <1>3, <2>1, <2>2 DEF StoreInv, TypeOK, IsIndex
<1>5. IndexesAgree'
  BY <1>2 DEF IndexesAgree, Agree, Declared, Times
<1>6. RemovedAreGone'
  BY <1>2 DEF RemovedAreGone
<1>7. NumberTellsPackages'
  <2>1. CASE times = 0
    <3>1. View(packages') = View(packages)
      BY <1>1, <1>2, <2>1, UnseenUnchanged
    <3> QED
      BY <1>3, <2>1, <3>1 DEF StoreInv, TypeOK, NumberTellsPackages
  <2>2. CASE times = 1
    <3>1. seen' = seen => seen'.seq # seqNo'
      BY <1>3, <2>2 DEF StoreInv, TypeOK
    <3>2. seen'.seq = seqNo' => seen'.inHandler
      BY <1>3, <3>1
    <3> QED
      BY <3>2 DEF NumberTellsPackages
  <2> QED
    BY <2>1, <2>2
<1> QED
  BY <1>4, <1>5, <1>6, <1>7 DEF StoreInv

\* No channel is a wildcard.
LEMMA ChannelsDiffer ==
  /\ \A p \in Package : ChannelOf[p] \in Channel
  /\ \A c, d \in Channel : ChannelEqual(c, d) <=> c = d
  /\ \A p \in Package : ChannelEqual(ChannelOf[p], ANY)
BY StoreAssumed DEF StoreAssumption, ChannelEqual

\* The packages that are found by channel and spec.
LEMMA DuplicateRange ==
  ASSUME packages \in Seq(Package), NEW p \in Package
  PROVE  /\ Duplicate(p) \in Seq(Package)
         /\ \A q \in Range(Duplicate(p)) :
              /\ q \in Range(packages) \cap Package
              /\ ChannelOf[q] = ChannelOf[p] /\ SpecOf[q] = SpecOf[p]
         /\ (\A q \in Range(packages) : SpecOf[q] = SpecOf[p] => ~IsInstalled(q)) =>
              \A q \in Range(packages) :
                ChannelOf[q] = ChannelOf[p] /\ SpecOf[q] = SpecOf[p] => q \in Range(Duplicate(p))
<1> DEFINE named == ByName(packages, SpecOf[p].name)
           installed == {q \in Range(named) : IsInstalled(q)}
           there == {q \in Package : /\ ChannelEqual(ChannelOf[p], ChannelOf[q])
                                     /\ NotHiddenBy(q, installed)}
           found == Kept(named, there)
           same == {q \in Package : SpecOf[q] = SpecOf[p]}
<1>1. /\ named \in Seq(Package)
      /\ Range(named) = Range(packages) \cap {q \in Package : SpecOf[q].name = SpecOf[p].name}
  BY KeptType DEF ByName
<1>2. Duplicate(p) = Kept(found, same)
  BY DEF Duplicate, GetPackage, ForeachPackage
<1> HIDE DEF named, there, same
<1>3. found \in Seq(Package) /\ Range(found) = Range(named) \cap there
  BY <1>1, KeptType
<1> HIDE DEF found
<1>4. Kept(found, same) \in Seq(Package) /\ Range(Kept(found, same)) = Range(found) \cap same
  BY <1>3, KeptType
<1>5. \A q \in Package : ChannelEqual(ChannelOf[p], ChannelOf[q]) <=> ChannelOf[q] = ChannelOf[p]
  BY ChannelsDiffer
<1>6. Range(packages) \in SUBSET Package
  BY DEF Range
<1>7. ASSUME NEW q \in Range(Duplicate(p))
      PROVE  q \in Range(packages) \cap Package /\ ChannelOf[q] = ChannelOf[p] /\ SpecOf[q] = SpecOf[p]
  BY <1>1, <1>2, <1>3, <1>4, <1>5 DEF there, same
<1>8. ASSUME \A r \in Range(packages) : SpecOf[r] = SpecOf[p] => ~IsInstalled(r),
             NEW q \in Range(packages), ChannelOf[q] = ChannelOf[p], SpecOf[q] = SpecOf[p]
      PROVE  q \in Range(Duplicate(p))
  <2>1. q \in Package /\ \A r \in installed : SpecOf[r] # SpecOf[q]
    BY <1>1, <1>6, <1>8
  <2>2. q \in there /\ q \in same /\ q \in Range(named)
    BY <1>1, <1>5, <1>8, <2>1 DEF there, same, NotHiddenBy
  <2> QED
    BY <1>2, <1>3, <1>4, <2>2
<1> QED
  BY <1>2, <1>4, <1>7, <1>8

\* What a package replaces is of its channel and has its spec.
LEMMA ReplacedIsAlike ==
  ASSUME packages \in Seq(Package), NEW p \in Package, NEW q \in Replaced(p)
  PROVE  /\ q \in Range(packages) \cap Package
         /\ ChannelOf[q] = ChannelOf[p] /\ SpecOf[q] = SpecOf[p]
<1>1. Duplicate(p) \in Seq(Package) /\ Duplicate(p) # <<>> /\ q = Head(Duplicate(p))
  BY DuplicateRange DEF Replaced
<1>2. q \in Range(Duplicate(p))
  BY <1>1 DEF Range
<1> QED
  BY <1>2, DuplicateRange

LEMMA AddPackageKeeps == ASSUME StoreInv, NEW p \in Package, AddPackage(p) PROVE StoreInv'
<1> DEFINE gone == Replaced(p)
           rest == Without(packages, gone)
           times == IF ~IsShown(p) THEN 0 ELSE IF gone = {} THEN 1 ELSE 2
<1>1. /\ packages \in Seq(Package) /\ IsIndex(index) /\ Agree(index, packages)
      /\ MaxPackages \in Nat /\ TypeOK
  BY StoreAssumed DEF StoreInv, TypeOK, IsIndex, IndexesAgree, Agree, StoreAssumption
<1>2. /\ Len(rest) < MaxPackages /\ Touch(times, rest)
      /\ packages' = <<p>> \o rest /\ index' = Indexed(Unindexed(index, gone), p)
      /\ did' = <<"add", p>>
      /\ channels' = channels /\ locks' = locks /\ lockStore' = lockStore
  BY DEF AddPackage
<1> HIDE DEF gone, times
<1>3. /\ rest \in Seq(Package) /\ Range(rest) = Range(packages) \ gone
      /\ IsIndex(Unindexed(index, gone)) /\ Agree(Unindexed(index, gone), rest)
  BY <1>1, UnindexedAgrees
<1>4. IsIndex(index') /\ Agree(index', packages')
  BY <1>2, <1>3, IndexedAgrees
<1> HIDE DEF rest
<1>5. /\ packages' \in Seq(Package) /\ Len(packages') = Len(rest) + 1
      /\ Range(packages') = {p} \cup Range(rest)
  <2>1. rest \in Seq(Package)
    BY <1>3
  <2>2. <<p>> \o rest \in Seq(Package) /\ Range(<<p>> \o rest) = {p} \cup Range(rest)
    BY <2>1, TimesFirst
  <2>3. Len(<<p>> \o rest) = Len(rest) + 1
    BY <2>1
  <2> QED
    BY <1>2, <2>2, <2>3
<1>6. Range(rest) \in SUBSET Package /\ Range(packages) \in SUBSET Package
  BY <1>1, <1>3 DEF Range
<1>7. /\ times \in 0..2 /\ (times = 0 <=> ~IsShown(p))
      /\ seqNo' \in 1..MaxSequence /\ seqNo' = seqNo + times
      /\ SeenType' /\ (seen' = seen \/ (times > 0 /\ seen'.inHandler))
  <2>1. times \in 0..2 /\ (times = 0 <=> ~IsShown(p))
    BY DEF times
  <2> QED
    BY <1>1, <1>2, <1>6, <2>1, TouchType
<1>8. TypeOK'
  <2>1. Len(packages') <= MaxPackages
    BY <1>1, <1>2, <1>3, <1>5
  <2>2. /\ seen' \in [seq : 0..MaxSequence, view : SUBSET Package, inHandler : BOOLEAN]
        /\ seen'.seq <= seqNo'
    BY <1>7 DEF SeenType
  <2> QED
    BY <1>1, <1>2, <1>4, <1>5, <1>7, <2>1, <2>2 DEF TypeOK, IsIndex
<1>9. IndexesAgree'
  BY <1>4 DEF IndexesAgree, Agree, Declared, Times
<1>10. RemovedAreGone'
  BY <1>2 DEF RemovedAreGone
<1>11. NumberTellsPackages'
  <2>1. CASE ~IsShown(p)
    <3>1. \A q \in gone : ~IsShown(q)
      BY <1>1, <2>1, ReplacedIsAlike DEF gone, IsShown
    <3>2. View(packages') = View(packages)
      BY <1>3, <1>5, <2>1, <3>1, UnseenUnchanged
    <3>3. seqNo' = seqNo
      BY <1>1, <1>7, <2>1 DEF TypeOK
    <3> QED
      BY <1>7, <3>2, <3>3 DEF StoreInv, NumberTellsPackages
  <2>2. CASE IsShown(p)
    <3>1. seen' = seen => seen'.seq # seqNo'
      BY <1>1, <1>7, <2>2 DEF TypeOK
    <3>2. seen'.seq = seqNo' => seen'.inHandler
      BY <1>7, <3>1
    <3> QED
      BY <3>2 DEF NumberTellsPackages
  <2> QED
    BY <2>1, <2>2
<1> QED
  BY <1>8, <1>9, <1>10, <1>11 DEF StoreInv

LEMMA RemovePackageKeeps == ASSUME StoreInv, NEW p \in Package, RemovePackage(p) PROVE StoreInv'
<1> DEFINE times == IF IsShown(p) THEN 1 ELSE 0
<1>1. /\ Touch(times, packages) /\ times \in 0..1
      /\ packages' = Without(packages, {p}) /\ index' = Unindexed(index, {p})
      /\ did' = <<"other">> /\ channels' = channels /\ locks' = locks /\ lockStore' = lockStore
  BY DEF RemovePackage
<1>2. times = 0 => \A q \in {p} \cap Package : ~IsShown(q)
  OBVIOUS
<1>3. channels' \in Seq(Channel)
  BY <1>1 DEF StoreInv, TypeOK
<1>4. did'[1] \notin {"removeChannel", "removePackages"}
  BY <1>1
<1> HIDE DEF times
<1> QED
  BY <1>1, <1>2, <1>3, <1>4, DropKeeps

LEMMA RemovePackagesKeeps ==
  ASSUME StoreInv, NEW c \in Channel \cup {ANY}, RemovePackages(c) PROVE StoreInv'
<1> DEFINE gone == {q \in Package : ChannelEqual(ChannelOf[q], c)}
           times == IF Touches(c) THEN 1 ELSE 0
<1>1. /\ Touch(times, packages) /\ times \in 0..1
      /\ packages' = Without(packages, gone) /\ index' = Unindexed(index, gone)
      /\ did' = <<"removePackages", c>>
      /\ channels' = channels /\ locks' = locks /\ lockStore' = lockStore
  BY DEF RemovePackages
<1>2. times = 0 => \A q \in gone \cap Package : ~IsShown(q)
  <2>1. ASSUME c \in Hidden, NEW q \in gone PROVE ~IsShown(q)
    <3>1. c \in Channel
      BY <2>1, StoreAssumed DEF StoreAssumption
    <3>2. ChannelOf[q] = c
      BY <3>1, ChannelsDiffer
    <3> QED
      BY <2>1, <3>2 DEF IsShown
  <2> QED
    BY <2>1 DEF Touches
<1>3. channels' \in Seq(Channel)
  BY <1>1 DEF StoreInv, TypeOK
<1>4. \A p \in Package : ChannelEqual(ChannelOf[p], did'[2]) => p \in gone
  BY <1>1
<1> HIDE DEF times, gone
<1> QED
  BY <1>1, <1>2, <1>3, <1>4, DropKeeps

LEMMA RemoveChannelKeeps ==
  ASSUME StoreInv, NEW c \in Channel, RemoveChannel(c) PROVE StoreInv'
<1> DEFINE gone == {q \in Package : ChannelOf[q] = c}
           times == IF Touches(c) THEN 1 ELSE 0
<1>1. /\ Touch(times, packages) /\ times \in 0..1
      /\ packages' = Without(packages, gone) /\ index' = Unindexed(index, gone)
      /\ did' = <<"removeChannel", c>> /\ channels' = Kept(channels, Channel \ {c})
      /\ locks' = locks /\ lockStore' = lockStore
  BY DEF RemoveChannel
<1>2. times = 0 => \A q \in gone \cap Package : ~IsShown(q)
  BY DEF Touches, IsShown
<1>3. channels' \in Seq(Channel)
  BY <1>1, KeptType DEF StoreInv, TypeOK
<1>4. \A p \in Package : ChannelEqual(ChannelOf[p], did'[2]) => p \in gone
  BY <1>1, ChannelsDiffer
<1> HIDE DEF times, gone
<1> QED
  BY <1>1, <1>2, <1>3, <1>4, DropKeeps

LEMMA AgreeStays == ASSUME IndexesAgree, packages' = packages, index' = index PROVE IndexesAgree'
<1>1. Agree(index, packages)
  BY DEF IndexesAgree, Agree
<1>2. Agree(index', packages')
  BY <1>1
<1> QED
  BY <1>2 DEF IndexesAgree, Agree, Declared, Times

\* What leaves packages, tables and the number alone.
LEMMA OthersKeep ==
  ASSUME StoreInv, packages' = packages, index' = index, seqNo' = seqNo, seen' = seen,
         channels' \in Seq(Channel), locks' \in Seq(Lock), lockStore' \in Seq(Lock),
         did'[1] \notin {"removeChannel", "removePackages"}
  PROVE  StoreInv'
<1>1. TypeOK'
  BY DEF StoreInv, TypeOK
<1>2. IndexesAgree'
  BY AgreeStays DEF StoreInv
<1>3. RemovedAreGone'
  BY DEF RemovedAreGone
<1>4. NumberTellsPackages'
  BY DEF StoreInv, NumberTellsPackages, View
<1> QED
  BY <1>1, <1>2, <1>3, <1>4 DEF StoreInv

LEMMA AddIgnoredKeeps == ASSUME StoreInv, NEW p \in Package, AddIgnored(p) PROVE StoreInv'
<1>1. /\ channels \in Seq(Channel) /\ locks \in Seq(Lock) /\ lockStore \in Seq(Lock)
      /\ did'[1] = "other"
  BY DEF StoreInv, TypeOK, AddIgnored
<1> QED
  BY <1>1, OthersKeep DEF AddIgnored

LEMMA AddChannelKeeps == ASSUME StoreInv, NEW c \in Channel, AddChannel(c) PROVE StoreInv'
<1>1. /\ channels \in Seq(Channel) /\ locks \in Seq(Lock) /\ lockStore \in Seq(Lock)
      /\ did'[1] = "other"
  BY DEF StoreInv, TypeOK, AddChannel
<1>2. <<c>> \o channels \in Seq(Channel)
  BY <1>1
<1> QED
  BY <1>1, <1>2, OthersKeep DEF AddChannel

LEMMA LookKeeps == ASSUME StoreInv, Look PROVE StoreInv'
<1>1. /\ packages \in Seq(Package) /\ seqNo \in 1..MaxSequence /\ MaxSequence \in Nat
      /\ did'[1] = "other"
  BY StoreAssumed DEF StoreInv, TypeOK, Look, StoreAssumption
<1>2. View(packages) \in SUBSET Package
  BY <1>1 DEF View, Range
<1>3. seen' = [seq |-> seqNo, view |-> View(packages), inHandler |-> FALSE]
  BY DEF Look
<1>4. seen' \in [seq : 0..MaxSequence, view : SUBSET Package, inHandler : BOOLEAN] /\ seen'.seq = seqNo
  BY <1>1, <1>2, <1>3
<1>5. TypeOK'
  <2>1. seqNo <= seqNo
    BY <1>1
  <2> QED
    BY <1>4, <2>1 DEF StoreInv, TypeOK, Look
<1>6. IndexesAgree'
  BY AgreeStays DEF StoreInv, Look
<1>7. RemovedAreGone'
  BY <1>1 DEF RemovedAreGone
<1>8. NumberTellsPackages'
  BY <1>3 DEF NumberTellsPackages, View, Look
<1> QED
  BY <1>5, <1>6, <1>7, <1>8 DEF StoreInv

LEMMA LocksKeep ==
  ASSUME StoreInv,
         \/ \E l \in Lock : StoreAddLock(l) \/ AddLock(l) \/ StoreRemoveLock(l) \/ RemoveLock(l)
         \/ StoreClearLocks \/ ClearLocks
  PROVE  StoreInv'
<1> DEFINE UnlessLocks ==
             /\ packages' = packages /\ index' = index /\ seqNo' = seqNo /\ seen' = seen
             /\ channels' \in Seq(Channel)
             /\ did'[1] \notin {"removeChannel", "removePackages"}
<1>1. /\ channels \in Seq(Channel) /\ locks \in Seq(Lock) /\ lockStore \in Seq(Lock)
      /\ <<>> \in Seq(Lock)
  BY DEF StoreInv, TypeOK
<1>2. ASSUME NEW l \in Lock, StoreAddLock(l) PROVE StoreInv'
  <2>1. <<l>> \o locks \in Seq(Lock) /\ UnlessLocks
    BY <1>1, <1>2 DEF StoreAddLock
  <2> QED
    BY <1>1, <1>2, <2>1, OthersKeep DEF StoreAddLock
<1>3. ASSUME NEW l \in Lock, AddLock(l) PROVE StoreInv'
  <2>1. <<l>> \o lockStore \in Seq(Lock) /\ UnlessLocks
    BY <1>1, <1>3 DEF AddLock
  <2> QED
    BY <1>1, <1>3, <2>1, OthersKeep DEF AddLock
<1>4. ASSUME NEW l \in Lock, StoreRemoveLock(l) PROVE StoreInv'
  <2>1. RemoveFirst(locks, l) \in Seq(Lock)
    BY <1>1, <1>4, RemoveFirstType DEF StoreRemoveLock
  <2>2. UnlessLocks
    BY <1>1, <1>4 DEF StoreRemoveLock
  <2> QED
    BY <1>1, <1>4, <2>1, <2>2, OthersKeep DEF StoreRemoveLock
<1>5. ASSUME NEW l \in Lock, RemoveLock(l) PROVE StoreInv'
  <2>1. RemoveFirst(lockStore, l) \in Seq(Lock)
    BY <1>1, <1>5, RemoveFirstType DEF RemoveLock
  <2>2. UnlessLocks
    BY <1>1, <1>5 DEF RemoveLock
  <2> QED
    BY <1>1, <1>5, <2>1, <2>2, OthersKeep DEF RemoveLock
<1>6. ASSUME StoreClearLocks PROVE StoreInv'
  <2>1. UnlessLocks
    BY <1>1, <1>6 DEF StoreClearLocks
  <2> QED
    BY <1>1, <1>6, <2>1, OthersKeep DEF StoreClearLocks
<1>7. ASSUME ClearLocks PROVE StoreInv'
  <2>1. UnlessLocks
    BY <1>1, <1>7 DEF ClearLocks
  <2> QED
    BY <1>1, <1>7, <2>1, OthersKeep DEF ClearLocks
<1> QED
  BY <1>2, <1>3, <1>4, <1>5, <1>6, <1>7

LEMMA StoreInvKept == ASSUME StoreInv, [Next]_vars PROVE StoreInv'
<1>1. CASE Next
  BY <1>1, AddPackageKeeps, AddIgnoredKeeps, RemovePackageKeeps, RemovePackagesKeeps,
     AddChannelKeeps, RemoveChannelKeeps, LookKeeps, LocksKeep DEF Next
<1>2. CASE UNCHANGED vars
  <2>1. /\ packages' = packages /\ index' = index /\ channels' = channels /\ locks' = locks
        /\ lockStore' = lockStore /\ seqNo' = seqNo /\ seen' = seen /\ did' = did
    BY <1>2 DEF vars
  <2>2. TypeOK'
    BY <2>1 DEF StoreInv, TypeOK
  <2>3. IndexesAgree'
    BY <2>1, AgreeStays DEF StoreInv
  <2>4. RemovedAreGone'
    BY <2>1 DEF StoreInv, RemovedAreGone
  <2>5. NumberTellsPackages'
    BY <2>1 DEF StoreInv, NumberTellsPackages, View
  <2> QED
    BY <2>2, <2>3, <2>4, <2>5 DEF StoreInv
<1> QED
  BY <1>1, <1>2

-----------------------------------------------------------------------------
(* What queries answer *)

\* What is listed by a name without what installed packages hide has none of those.
LEMMA PadTwins ==
  ASSUME NEW kind \in Kind, index \in [Kind -> Seq(Pads)], NEW dep, NEW fits,
         NEW x \in Range(ForeachPad(kind, dep, fits)),
         NEW y \in Range(ForeachPad(kind, dep, fits)),
         SpecOf[x.package] = SpecOf[y.package], IsInstalled(x.package)
  PROVE  IsInstalled(y.package)
<1> DEFINE ofName == {pad \in Pads : DepName[pad.dep] = DepName[dep]}
           listed == Kept(index[kind], ofName)
           installed == {p \in {pad.package : pad \in Range(listed)} : IsInstalled(p)}
           shown == {pad \in fits : NotHiddenBy(pad.package, installed)}
<1>1. index[kind] \in Seq(Pads)
  OBVIOUS
<1>2. listed \in Seq(Pads)
  BY <1>1, KeptType
<1>3. ForeachPad(kind, dep, fits) = Kept(listed, shown)
  BY DEF ForeachPad
<1> HIDE DEF listed, shown
<1>4. Range(ForeachPad(kind, dep, fits)) = Range(listed) \cap shown
  BY <1>2, <1>3, KeptType
<1>5. x \in Range(listed) /\ y \in shown
  BY <1>4
<1>6. x.package \in installed
  BY <1>5
<1>7. NotHiddenBy(y.package, installed)
  BY <1>5 DEF shown
<1> QED
  BY <1>6, <1>7 DEF NotHiddenBy

\* The same of packages that are listed by a name.
LEMMA NamedTwins ==
  ASSUME packages \in Seq(Package), NEW name, NEW c
  PROVE  NoTwinsAmong(Range(ForeachPackage(packages, name, c)))
<1> DEFINE listed == ByName(packages, name)
           installed == {p \in Range(listed) : IsInstalled(p)}
           shown == {p \in Package : ChannelEqual(c, ChannelOf[p]) /\ NotHiddenBy(p, installed)}
<1>1. listed \in Seq(Package)
  BY KeptType DEF ByName
<1>2. ForeachPackage(packages, name, c) = Kept(listed, shown)
  BY DEF ForeachPackage
<1> HIDE DEF listed, shown
<1>3. Range(ForeachPackage(packages, name, c)) = Range(listed) \cap shown
  BY <1>1, <1>2, KeptType
<1>4. ASSUME NEW p \in Range(listed) \cap shown, NEW q \in Range(listed) \cap shown,
             SpecOf[p] = SpecOf[q], IsInstalled(p)
      PROVE  IsInstalled(q)
  <2>1. p \in installed /\ NotHiddenBy(q, installed)
    BY <1>4 DEF shown
  <2> QED
    BY <1>4, <2>1 DEF NotHiddenBy
<1>5. \A p : IsInstalled(p) \in BOOLEAN
  BY DEF IsInstalled
<1> QED
  BY <1>3, <1>4, <1>5 DEF NoTwinsAmong

LEMMA TwinsSkipped == ASSUME TypeOK PROVE TwinsAreSkipped
<1>0. \A name \in {SpecOf[p].name : p \in Package}, c \in Channel \cup {ANY} :
        NoTwinsAmong(Range(ForeachPackage(packages, name, c)))
  BY NamedTwins DEF TypeOK
<1> SUFFICES ASSUME NEW d \in Dep,
                    NEW found \in {ForeachProviding(d), ForeachRequiring(d),
                                   ForeachParent(d), ForeachConflicting(d)},
                    NEW x \in Range(found), NEW y \in Range(found),
                    SpecOf[x.package] = SpecOf[y.package]
             PROVE  IsInstalled(x.package) = IsInstalled(y.package)
  BY <1>0 DEF TwinsAreSkipped, NoTwinsAmong
<1>1. \E kind \in Kind : \E fits : found = ForeachPad(kind, d, fits)
  BY DEF ForeachProviding, ForeachRequiring, ForeachParent, ForeachConflicting, Kind
<1>2. PICK kind \in Kind : \E fits : found = ForeachPad(kind, d, fits)
  BY <1>1
<1>3. PICK fits : found = ForeachPad(kind, d, fits)
  BY <1>2
<1>4. index \in [Kind -> Seq(Pads)]
  BY DEF TypeOK
<1>5. IsInstalled(x.package) => IsInstalled(y.package)
  BY <1>3, <1>4, PadTwins
<1>6. IsInstalled(y.package) => IsInstalled(x.package)
  BY <1>3, <1>4, PadTwins
<1>7. IsInstalled(x.package) \in BOOLEAN /\ IsInstalled(y.package) \in BOOLEAN
  BY DEF IsInstalled
<1> QED
  BY <1>5, <1>6, <1>7

-----------------------------------------------------------------------------
(* A store of a channel *)

\* A list in which no two packages that are not installed are alike.
TwinFree(list0) ==
  \A i, j \in 1..Len(list0) :
    i # j /\ ~IsInstalled(list0[i]) =>
      SpecOf[list0[i]] # SpecOf[list0[j]] \/ ChannelOf[list0[i]] # ChannelOf[list0[j]]

OfChannels(list0) == \A q \in Range(list0) : ~IsInstalled(q)

LEMMA KeptTwinFree ==
  ASSUME NEW list0 \in Seq(Package), NEW A, TwinFree(list0)
  PROVE  TwinFree(Kept(list0, A))
<1> DEFINE places == {i \in 1..Len(list0) : list0[i] \in A}
           less == Kept(list0, A)
<1>1. PICK f : /\ f \in Bijection(1..Len(less), places)
               /\ less = [k \in 1..Len(less) |-> list0[f[k]]]
               /\ Len(less) \in 0..Len(list0)
  BY KeptPlaces
<1> HIDE DEF less
<1>2. \A i, j \in 1..Len(less) : i # j => f[i] # f[j] /\ f[i] \in places /\ f[j] \in places
  BY <1>1 DEF Bijection, Injection, Surjection, IsInjective
<1>3. ASSUME NEW i \in 1..Len(less), NEW j \in 1..Len(less), i # j, ~IsInstalled(less[i])
      PROVE  SpecOf[less[i]] # SpecOf[less[j]] \/ ChannelOf[less[i]] # ChannelOf[less[j]]
  <2>1. less[i] = list0[f[i]] /\ less[j] = list0[f[j]]
    BY <1>1, <1>3
  <2>2. f[i] \in 1..Len(list0) /\ f[j] \in 1..Len(list0) /\ f[i] # f[j]
    BY <1>2, <1>3
  <2> QED
    BY <1>3, <2>1, <2>2 DEF TwinFree
<1>4. TwinFree(less)
  BY <1>3 DEF TwinFree
<1> QED
  BY <1>4 DEF less

\* A package that none is alike.
LEMMA FirstTwinFree ==
  ASSUME NEW list0 \in Seq(Package), NEW p \in Package, TwinFree(list0),
         \A q \in Range(list0) : SpecOf[q] # SpecOf[p] \/ ChannelOf[q] # ChannelOf[p]
  PROVE  TwinFree(<<p>> \o list0)
<1> DEFINE longer == <<p>> \o list0
<1>1. /\ Len(list0) \in Nat /\ Len(longer) = Len(list0) + 1 /\ longer[1] = p
      /\ \A i \in 2..Len(longer) : longer[i] = list0[i - 1] /\ i - 1 \in 1..Len(list0)
  OBVIOUS
<1>2. \A i \in 1..Len(longer) : i = 1 \/ i \in 2..Len(longer)
  BY <1>1
<1>3. \A i \in 1..Len(list0) : list0[i] \in Range(list0)
  BY DEF Range
<1> HIDE DEF longer
<1>4. ASSUME NEW i \in 1..Len(longer), NEW j \in 1..Len(longer), i # j, ~IsInstalled(longer[i])
      PROVE  SpecOf[longer[i]] # SpecOf[longer[j]] \/ ChannelOf[longer[i]] # ChannelOf[longer[j]]
  <2>1. CASE i = 1
    BY <1>1, <1>2, <1>3, <1>4, <2>1
  <2>2. CASE j = 1
    BY <1>1, <1>2, <1>3, <1>4, <2>2
  <2>3. CASE i \in 2..Len(longer) /\ j \in 2..Len(longer)
    <3>1. i - 1 \in 1..Len(list0) /\ j - 1 \in 1..Len(list0) /\ i - 1 # j - 1
      BY <1>1, <1>4, <2>3
    <3>2. longer[i] = list0[i - 1] /\ longer[j] = list0[j - 1]
      BY <1>1, <2>3
    <3> QED
      BY <1>4, <3>1, <3>2 DEF TwinFree
  <2> QED
    BY <1>2, <2>1, <2>2, <2>3
<1>5. TwinFree(longer)
  BY <1>4 DEF TwinFree
<1> QED
  BY <1>5 DEF longer

\* What has no twins has none of a package of a channel.
LEMMA NoneHasTwins ==
  ASSUME NEW list0 \in Seq(Package), TwinFree(list0), NEW p \in Package, ~IsInstalled(p)
  PROVE  ~HasTwins(list0, p)
<1> SUFFICES ASSUME NEW i \in 1..Len(list0), NEW j \in 1..Len(list0), i # j,
                    Alike(list0[i], p), Alike(list0[j], p)
             PROVE  FALSE
  BY DEF HasTwins
<1>1. ~IsInstalled(list0[i])
  BY DEF Alike, IsInstalled
<1> QED
  BY <1>1 DEF TwinFree, Alike

\* A package that is added replaces the one that is alike, if no installed one hides it.
LEMMA AlikeIsReplaced ==
  ASSUME packages \in Seq(Package), NEW p \in Package, ~IsInstalled(p), ~HasTwins(packages, p),
         \A q \in Range(packages) : SpecOf[q] = SpecOf[p] => ~IsInstalled(q),
         NEW q \in Range(packages), SpecOf[q] = SpecOf[p], ChannelOf[q] = ChannelOf[p]
  PROVE  q \in Replaced(p)
<1>1. /\ Duplicate(p) \in Seq(Package) /\ q \in Range(Duplicate(p))
      /\ \A r \in Range(Duplicate(p)) :
           r \in Range(packages) /\ ChannelOf[r] = ChannelOf[p] /\ SpecOf[r] = SpecOf[p]
  BY DuplicateRange
<1>2. Duplicate(p) # <<>>
  BY <1>1 DEF Range
<1>3. Head(Duplicate(p)) \in Range(Duplicate(p))
  BY <1>1, <1>2 DEF Range
<1>4. Head(Duplicate(p)) \in Range(packages)
      /\ ChannelOf[Head(Duplicate(p))] = ChannelOf[p] /\ SpecOf[Head(Duplicate(p))] = SpecOf[p]
  BY <1>1, <1>3
<1>5. PICK i \in 1..Len(packages) : packages[i] = q
  BY DEF Range
<1>6. PICK j \in 1..Len(packages) : packages[j] = Head(Duplicate(p))
  BY <1>4 DEF Range
<1>7. i = j
  BY <1>4, <1>5, <1>6 DEF HasTwins, Alike
<1> QED
  BY <1>2, <1>5, <1>6, <1>7 DEF Replaced

LEMMA TwinFreeKept ==
  ASSUME StoreInv, OfChannels(packages), TwinFree(packages), Next, OfChannels(packages')
  PROVE  TwinFree(packages')
<1>1. packages \in Seq(Package)
  BY DEF StoreInv, TypeOK
<1>2. ASSUME NEW p \in Package, AddPackage(p) PROVE TwinFree(packages')
  <2> DEFINE rest == Without(packages, Replaced(p))
  <2>1. packages' = <<p>> \o rest
    BY <1>2 DEF AddPackage
  <2>2. /\ rest \in Seq(Package) /\ TwinFree(rest)
        /\ Range(rest) = Range(packages) \cap (Package \ Replaced(p))
    BY <1>1, KeptType, KeptTwinFree DEF Without
  <2> HIDE DEF rest
  <2>3. Range(packages') = {p} \cup Range(rest)
    BY <2>1, <2>2, TimesFirst
  <2>4. ~IsInstalled(p)
    BY <2>3 DEF OfChannels
  <2>5. ~HasTwins(packages, p)
    BY <1>1, <2>4, NoneHasTwins
  <2>6. \A q \in Range(rest) : SpecOf[q] # SpecOf[p] \/ ChannelOf[q] # ChannelOf[p]
    BY <1>1, <2>2, <2>4, <2>5, AlikeIsReplaced DEF OfChannels
  <2> QED
    BY <2>1, <2>2, <2>6, FirstTwinFree
<1>3. ASSUME NEW gone, packages' = Without(packages, gone) PROVE TwinFree(packages')
  BY <1>1, <1>3, KeptTwinFree DEF Without
<1>4. ASSUME packages' = packages PROVE TwinFree(packages')
  BY <1>4
<1>5. ASSUME NEW p \in Package, AddPackage(p) \/ AddIgnored(p) \/ RemovePackage(p)
      PROVE  TwinFree(packages')
  BY <1>2, <1>3, <1>4, <1>5 DEF AddIgnored, RemovePackage
<1>6. ASSUME NEW c \in Channel \cup {ANY}, RemovePackages(c) PROVE TwinFree(packages')
  BY <1>3, <1>6 DEF RemovePackages
<1>7. ASSUME NEW c \in Channel, AddChannel(c) \/ RemoveChannel(c) PROVE TwinFree(packages')
  BY <1>3, <1>4, <1>7 DEF AddChannel, RemoveChannel
<1>8. ASSUME NEW l \in Lock, StoreAddLock(l) \/ AddLock(l) \/ StoreRemoveLock(l) \/ RemoveLock(l)
      PROVE  TwinFree(packages')
  BY <1>4, <1>8 DEF StoreAddLock, AddLock, StoreRemoveLock, RemoveLock
<1>9. ASSUME Look \/ StoreClearLocks \/ ClearLocks PROVE TwinFree(packages')
  BY <1>4, <1>9 DEF Look, StoreClearLocks, ClearLocks
<1> QED
  BY <1>5, <1>6, <1>7, <1>8, <1>9 DEF Next

\* What AddPackage leaves has no twins of the package, if there were none and nothing hid one.
LEMMA AddedHasNoTwins ==
  ASSUME packages \in Seq(Package), NEW p \in Package, AddPackage(p), ~IsInstalled(p),
         ~HasTwins(packages, p),
         \A q \in Range(packages) : SpecOf[q] = SpecOf[p] => ~IsInstalled(q)
  PROVE  ~HasTwins(packages', p)
<1> DEFINE rest == Without(packages, Replaced(p))
<1>1. packages' = <<p>> \o rest
  BY DEF AddPackage
<1>2. rest \in Seq(Package) /\ Range(rest) = Range(packages) \cap (Package \ Replaced(p))
  BY KeptType DEF Without
<1> HIDE DEF rest
<1>3. \A q \in Range(rest) : ~Alike(q, p)
  BY <1>2, AlikeIsReplaced DEF Alike
<1>4. /\ Len(packages') = Len(rest) + 1 /\ Len(rest) \in Nat
      /\ \A i \in 2..Len(packages') : packages'[i] = rest[i - 1] /\ i - 1 \in 1..Len(rest)
  BY <1>1, <1>2
<1>5. \A i \in 1..Len(rest) : rest[i] \in Range(rest)
  BY DEF Range
<1>6. \A i \in 2..Len(packages') : ~Alike(packages'[i], p)
  BY <1>3, <1>4, <1>5
<1>7. \A i, j \in 1..Len(packages') : i # j => i \in 2..Len(packages') \/ j \in 2..Len(packages')
  BY <1>4
<1> QED
  BY <1>6, <1>7 DEF HasTwins

LEMMA NoTwinsThere == ASSUME packages \in Seq(Package), TwinFree(packages) PROVE NoTwins
<1>1. \A p \in Range(packages) : p \in Package
  BY DEF Range
<1> QED
  BY <1>1, NoneHasTwins DEF NoTwins

\* No other operation says that it adds a package.
LEMMA WhoAdds ==
  ASSUME Next, NEW p \in Package, did' = <<"add", p>> PROVE AddPackage(p)
<1>1. /\ \A q \in Package : ~AddIgnored(q) /\ ~RemovePackage(q)
      /\ \A c \in Channel \cup {ANY} : ~RemovePackages(c)
      /\ \A c \in Channel : ~AddChannel(c) /\ ~RemoveChannel(c)
  BY DEF AddIgnored, RemovePackage, RemovePackages, AddChannel, RemoveChannel
<1>2. /\ \A l \in Lock : ~StoreAddLock(l) /\ ~AddLock(l) /\ ~StoreRemoveLock(l) /\ ~RemoveLock(l)
      /\ ~Look /\ ~StoreClearLocks /\ ~ClearLocks
  BY DEF StoreAddLock, AddLock, StoreRemoveLock, RemoveLock, Look, StoreClearLocks, ClearLocks
<1>3. PICK q \in Package : AddPackage(q)
  BY <1>1, <1>2 DEF Next
<1>4. did' = <<"add", q>>
  BY <1>3 DEF AddPackage
<1>5. q = p
  BY <1>4
<1> QED
  BY <1>3, <1>5

-----------------------------------------------------------------------------
(* The store, as it runs *)

StoreRuns == part \in {"store", "channel store"}

AllStoreInv ==
  /\ StoreRuns => StoreInv
  /\ part = "channel store" => OfChannels(packages) /\ TwinFree(packages)

allVars == <<part, vars, askVars, subsVars, pendVars, depVars, multiVars>>

\* What is of other parts than the store leaves it as it is.
LEMMA StoreSteps ==
  ASSUME [AllNext]_allVars
  PROVE  /\ part' = part
         /\ StoreRuns => [Next]_vars
         /\ part = "channel store" => OfChannels(packages') \/ packages' = packages
<1>1. CASE AllNext
  BY <1>1 DEF AllNext, StoreRuns, OfChannels
<1>2. CASE UNCHANGED allVars
  BY <1>2 DEF allVars, vars
<1> QED
  BY <1>1, <1>2

LEMMA StoreInvAlways == AllSpec => []AllStoreInv
<1>1. AllInit => AllStoreInv
  <2> SUFFICES ASSUME AllInit PROVE AllStoreInv
    OBVIOUS
  <2>1. Init /\ packages = <<>>
    BY DEF AllInit, Init
  <2>2. OfChannels(packages) /\ TwinFree(packages)
    BY <2>1 DEF OfChannels, TwinFree, Range
  <2> QED
    BY <2>1, <2>2, StoreInvInit DEF AllStoreInv
<1>2. AllStoreInv /\ [AllNext]_allVars => AllStoreInv'
  <2> SUFFICES ASSUME AllStoreInv, [AllNext]_allVars PROVE AllStoreInv'
    OBVIOUS
  <2>1. /\ part' = part
        /\ StoreRuns => [Next]_vars
        /\ part = "channel store" => OfChannels(packages') \/ packages' = packages
    BY StoreSteps
  <2>2. StoreRuns' => StoreInv'
    BY <2>1, StoreInvKept DEF AllStoreInv, StoreRuns
  <2>3. ASSUME part = "channel store" PROVE OfChannels(packages') /\ TwinFree(packages')
    <3>1. StoreInv /\ OfChannels(packages) /\ TwinFree(packages) /\ [Next]_vars
      BY <2>1, <2>3 DEF AllStoreInv, StoreRuns
    <3>2. CASE packages' = packages
      BY <3>1, <3>2
    <3>3. CASE packages' # packages
      <4>1. OfChannels(packages') /\ Next
        BY <2>1, <2>3, <3>1, <3>3 DEF vars
      <4> QED
        BY <3>1, <4>1, TwinFreeKept
    <3> QED
      BY <3>2, <3>3
  <2> QED
    BY <2>1, <2>2, <2>3 DEF AllStoreInv
<1> QED
  BY <1>1, <1>2, PTL DEF AllSpec, allVars

\* The tables of the store list what its packages declare and nothing of one that is gone; no
\* query by a name or a dependency answers with a package and with an installed one of its
\* spec; a package that is added replaces the one like it that no installed one hides, so that
\* where nothing is installed no channel holds two of one spec (rc_world_store_add_package and
\* its counterparts).
THEOREM StoreIsAlwaysWhole == AllSpec => StoreIsWhole
<1>1. AllStoreInv => (part \in {"store", "channel store"} =>
                        TypeOK /\ IndexesAgree /\ RemovedAreGone /\ TwinsAreSkipped)
  BY TwinsSkipped DEF AllStoreInv, StoreInv, StoreRuns
<1>2. AllStoreInv => (part = "channel store" => NoTwins)
  <2> SUFFICES ASSUME AllStoreInv, part = "channel store" PROVE NoTwins
    OBVIOUS
  <2>1. packages \in Seq(Package) /\ TwinFree(packages)
    BY DEF AllStoreInv, StoreRuns, StoreInv, TypeOK
  <2> QED
    BY <2>1, NoTwinsThere
<1> DEFINE Replacing ==
             \A p \in Package :
               /\ did' = <<"add", p>> /\ ~IsInstalled(p) /\ ~HasTwins(packages, p)
               /\ \A q \in Range(packages) : SpecOf[q] = SpecOf[p] => ~IsInstalled(q)
               => ~HasTwins(packages', p)
<1>3. AllStoreInv /\ [AllNext]_allVars => [Replacing]_vars
  <2> SUFFICES ASSUME AllStoreInv, [AllNext]_allVars, ~UNCHANGED vars,
                      NEW p \in Package, did' = <<"add", p>>, ~IsInstalled(p),
                      ~HasTwins(packages, p),
                      \A q \in Range(packages) : SpecOf[q] = SpecOf[p] => ~IsInstalled(q)
               PROVE  ~HasTwins(packages', p)
    OBVIOUS
  <2>1. StoreRuns /\ Next
    BY DEF AllNext, StoreRuns, allVars
  <2>2. packages \in Seq(Package)
    BY <2>1 DEF AllStoreInv, StoreInv, TypeOK
  <2> QED
    BY <2>1, <2>2, WhoAdds, AddedHasNoTwins
<1>4. AllSpec => [][Replacing]_vars
  BY <1>3, StoreInvAlways, PTL DEF AllSpec, allVars
<1>5. [][Replacing]_vars => TwinsAreReplaced
  BY DEF TwinsAreReplaced
<1> QED
  BY <1>1, <1>2, <1>4, <1>5, StoreInvAlways, PTL DEF StoreIsWhole

-----------------------------------------------------------------------------
(* Subscriptions of a channel whose world has none *)

DeafInv ==
  /\ number \in Nat /\ told.seq \in Nat /\ told.seq <= number
  /\ told.seq = number => told.channels = subscribed

LEMMA DeafKept == ASSUME DeafInv, DeafQuestions!Next PROVE DeafInv'
<1>1. ASSUME NEW c \in {"system", "c", "d"}, NEW on \in BOOLEAN,
             DeafQuestions!SetSubscription(c, on)
      PROVE  DeafInv'
  <2>1. CASE (c \in subscribed) # (c \in subscribed')
    <3>1. /\ number' = number + 1
          /\ told' = [seq |-> number', channels |-> subscribed']
      BY <1>1, <2>1 DEF DeafQuestions!SetSubscription
    <3> QED
      BY <3>1 DEF DeafInv
  <2>2. CASE (c \in subscribed) = (c \in subscribed')
    <3>1. number' = number /\ told' = told
      BY <1>1, <2>2 DEF DeafQuestions!SetSubscription
    <3>2. subscribed' = subscribed
      BY <1>1, <2>2 DEF DeafQuestions!SetSubscription
    <3> QED
      BY <3>1, <3>2 DEF DeafInv
  <2> QED
    BY <2>1, <2>2
<1>2. ASSUME UNCHANGED <<held, subscribed, number, told>> PROVE DeafInv'
  BY <1>2 DEF DeafInv
<1> QED
  BY <1>1, <1>2 DEF DeafQuestions!Next, DeafQuestions!AddLock, DeafQuestions!RemoveLock

-----------------------------------------------------------------------------
(* The worlds of a multi world *)

\* A list without the element at a place.
LEMMA RemovedAt ==
  ASSUME NEW S, NEW s \in Seq(S), NEW i \in DOMAIN s
  PROVE  /\ RemoveAt(s, i) \in Seq(S) /\ Len(RemoveAt(s, i)) = Len(s) - 1
         /\ \A k \in 1..(Len(s) - 1) :
              RemoveAt(s, i)[k] = IF k < i THEN s[k] ELSE s[k + 1]
<1>1. Len(s) \in Nat /\ i \in 1..Len(s) /\ i \in Int
  OBVIOUS
<1>2. /\ SubSeq(s, 1, i - 1) \in Seq(S) /\ Len(SubSeq(s, 1, i - 1)) = i - 1
      /\ \A k \in 1..(i - 1) : SubSeq(s, 1, i - 1)[k] = s[k]
  BY <1>1
<1>3. /\ SubSeq(s, i + 1, Len(s)) \in Seq(S) /\ Len(SubSeq(s, i + 1, Len(s))) = Len(s) - i
      /\ \A k \in 1..(Len(s) - i) : SubSeq(s, i + 1, Len(s))[k] = s[k + i]
  BY <1>1
<1> DEFINE before == SubSeq(s, 1, i - 1)
           after  == SubSeq(s, i + 1, Len(s))
<1> HIDE DEF before, after
<1>4. RemoveAt(s, i) = before \o after
  BY DEF RemoveAt, before, after
<1>5. before \in Seq(S) /\ Len(before) = i - 1 /\ \A k \in 1..(i - 1) : before[k] = s[k]
  BY <1>2 DEF before
<1>6. after \in Seq(S) /\ Len(after) = Len(s) - i /\ \A k \in 1..(Len(s) - i) : after[k] = s[k + i]
  BY <1>3 DEF after
<1>7. /\ before \o after \in Seq(S) /\ Len(before \o after) = Len(s) - 1
      /\ \A k \in 1..(Len(s) - 1) :
           (before \o after)[k] = IF k <= i - 1 THEN before[k] ELSE after[k - (i - 1)]
  <2>1. /\ before \o after \in Seq(S)
        /\ Len(before \o after) = Len(before) + Len(after)
        /\ \A k \in 1..(Len(before) + Len(after)) :
             (before \o after)[k] = IF k <= Len(before) THEN before[k] ELSE after[k - Len(before)]
    BY <1>5, <1>6
  <2>2. Len(before) + Len(after) = Len(s) - 1
    BY <1>1, <1>5, <1>6
  <2> QED
    BY <1>5, <2>1, <2>2
<1>8. \A k \in 1..(Len(s) - 1) : (before \o after)[k] = IF k < i THEN s[k] ELSE s[k + 1]
  <2> SUFFICES ASSUME NEW k \in 1..(Len(s) - 1)
               PROVE  (before \o after)[k] = IF k < i THEN s[k] ELSE s[k + 1]
    OBVIOUS
  <2>1. CASE k < i
    BY <1>1, <1>5, <1>7, <2>1
  <2>2. CASE ~(k < i)
    <3>1. k - (i - 1) \in 1..(Len(s) - i) /\ k - (i - 1) + i = k + 1
      BY <1>1, <2>2
    <3>2. after[k - (i - 1)] = s[k + 1]
      BY <1>6, <3>1
    <3> QED
      BY <1>1, <1>7, <2>2, <3>2
  <2> QED
    BY <2>1, <2>2
<1> QED
  BY <1>4, <1>7, <1>8

\* A list that has everything once.
Once(s) == \A i, j \in 1..Len(s) : s[i] = s[j] => i = j

LEMMA OnceIsInjective ==
  ASSUME NEW S, NEW s \in Seq(S)
  PROVE  Once(s) <=> IsInjective(s)
<1>1. DOMAIN s = 1..Len(s)
  OBVIOUS
<1> QED
  BY <1>1 DEF Once, IsInjective

\* What goes leaves the others, each once.
LEMMA RemovedAtOnce ==
  ASSUME NEW S, NEW s \in Seq(S), NEW i \in DOMAIN s, Once(s)
  PROVE  Once(RemoveAt(s, i)) /\ Range(RemoveAt(s, i)) = Range(s) \ {s[i]}
<1> DEFINE r == RemoveAt(s, i)
<1>1. /\ Len(s) \in Nat /\ i \in 1..Len(s)
      /\ r \in Seq(S) /\ Len(r) = Len(s) - 1
      /\ \A k \in 1..(Len(s) - 1) : r[k] = IF k < i THEN s[k] ELSE s[k + 1]
  BY RemovedAt
<1> HIDE DEF r
<1>2. Once(r)
  <2> SUFFICES ASSUME NEW j \in 1..Len(r), NEW k \in 1..Len(r), r[j] = r[k]
               PROVE  j = k
    BY DEF Once
  <2> DEFINE was(m) == IF m < i THEN m ELSE m + 1
  <2>1. /\ was(j) \in 1..Len(s) /\ was(k) \in 1..Len(s)
        /\ r[j] = s[was(j)] /\ r[k] = s[was(k)]
    <3>1. j \in 1..(Len(s) - 1) /\ k \in 1..(Len(s) - 1)
      BY <1>1
    <3>2. was(j) \in 1..Len(s) /\ r[j] = s[was(j)]
      BY <1>1, <3>1
    <3>3. was(k) \in 1..Len(s) /\ r[k] = s[was(k)]
      BY <1>1, <3>1
    <3> QED
      BY <3>2, <3>3
  <2>2. was(j) = was(k)
    BY <2>1 DEF Once
  <2> QED
    BY <1>1, <2>2
<1>3. ASSUME NEW w \in Range(r) PROVE w \in Range(s) \ {s[i]}
  <2>1. PICK k \in 1..Len(r) : r[k] = w
    BY <1>1 DEF Range
  <2>2. CASE k < i
    BY <1>1, <2>1, <2>2 DEF Once, Range
  <2>3. CASE ~(k < i)
    <3>1. k + 1 \in 1..Len(s) /\ s[k + 1] = w /\ k + 1 # i
      BY <1>1, <2>1, <2>3
    <3>2. s[i] # w
      BY <1>1, <3>1 DEF Once
    <3>3. w \in Range(s)
      BY <3>1 DEF Range
    <3> QED
      BY <3>2, <3>3
  <2> QED
    BY <2>2, <2>3
<1>4. ASSUME NEW w \in Range(s) \ {s[i]} PROVE w \in Range(r)
  <2>1. PICK k \in 1..Len(s) : s[k] = w
    BY <1>1, <1>4 DEF Range
  <2>2. k # i
    BY <1>4, <2>1
  <2>3. CASE k < i
    <3>1. k \in 1..Len(r) /\ r[k] = w
      BY <1>1, <2>1, <2>3
    <3> QED
      BY <1>1, <3>1 DEF Range
  <2>4. CASE k > i
    <3>1. k - 1 \in 1..Len(r) /\ ~(k - 1 < i) /\ k - 1 + 1 = k
      BY <1>1, <2>1, <2>4
    <3>2. r[k - 1] = w
      BY <1>1, <2>1, <3>1
    <3> QED
      BY <1>1, <3>1, <3>2 DEF Range
  <2> QED
    BY <1>1, <2>2, <2>3, <2>4
<1>5. Range(r) = Range(s) \ {s[i]}
  BY <1>3, <1>4
<1> QED
  BY <1>2, <1>5 DEF r

\* What comes last, and was not there.
LEMMA AppendedOnce ==
  ASSUME NEW S, NEW s \in Seq(S), NEW w \in S
  PROVE  /\ Append(s, w) \in Seq(S) /\ Len(Append(s, w)) = Len(s) + 1
         /\ \A k \in 1..Len(s) : Append(s, w)[k] = s[k]
         /\ Append(s, w)[Len(s) + 1] = w
         /\ Range(Append(s, w)) = Range(s) \cup {w}
         /\ Once(s) /\ w \notin Range(s) => Once(Append(s, w))
<1> DEFINE r == Append(s, w)
<1>1. /\ Len(s) \in Nat /\ r \in Seq(S) /\ Len(r) = Len(s) + 1
      /\ \A k \in 1..Len(s) : r[k] = s[k]
      /\ r[Len(s) + 1] = w
  OBVIOUS
<1> HIDE DEF r
<1>2. \A k \in 1..Len(r) : k \in 1..Len(s) \/ k = Len(s) + 1
  BY <1>1
<1>3. Range(r) = Range(s) \cup {w}
  <2>1. ASSUME NEW v \in Range(r) PROVE v \in Range(s) \cup {w}
    <3>1. PICK k \in 1..Len(r) : r[k] = v
      BY <1>1 DEF Range
    <3> QED
      BY <1>1, <1>2, <3>1 DEF Range
  <2>2. ASSUME NEW v \in Range(s) \cup {w} PROVE v \in Range(r)
    <3>1. CASE v = w
      BY <1>1, <3>1 DEF Range
    <3>2. CASE v \in Range(s)
      <4>1. PICK k \in 1..Len(s) : s[k] = v
        BY <1>1, <3>2 DEF Range
      <4>2. k \in DOMAIN r /\ r[k] = v
        BY <1>1, <4>1
      <4> QED
        BY <4>2 DEF Range
    <3> QED
      BY <2>2, <3>1, <3>2
  <2> QED
    BY <2>1, <2>2
<1>4. ASSUME Once(s), w \notin Range(s) PROVE Once(r)
  <2> SUFFICES ASSUME NEW j \in 1..Len(r), NEW k \in 1..Len(r), r[j] = r[k] PROVE j = k
    BY DEF Once
  <2>1. \A m \in 1..Len(s) : s[m] # w
    BY <1>4 DEF Range
  <2> QED
    BY <1>1, <1>2, <1>4, <2>1 DEF Once
<1> QED
  BY <1>1, <1>3, <1>4 DEF r

\* What is in a list that has everything once.
LEMMA OnceTimes ==
  ASSUME NEW S, NEW s \in Seq(S), Once(s), NEW w \in Range(s)
  PROVE  Times(s, w) = 1
<1>1. PICK i \in 1..Len(s) : s[i] = w
  BY DEF Range
<1>2. At(s, w) = {i}
  BY <1>1 DEF At, Once
<1>3. Cardinality({i}) = 1
  BY FS_Singleton
<1>4. Times(s, w) = Cardinality(At(s, w))
  BY TimesType
<1> QED
  BY <1>2, <1>3, <1>4

\* What is appended is there once more.
LEMMA TimesAppend ==
  ASSUME NEW S, NEW s \in Seq(S), NEW w \in S, NEW e
  PROVE  Times(Append(s, w), e) = Times(s, e) + IF e = w THEN 1 ELSE 0
<1> DEFINE last == <<w>>
<1>1. last \in Seq(S) /\ Append(s, w) = s \o last /\ Len(last) = 1 /\ last[1] = w
  OBVIOUS
<1> HIDE DEF last
<1>2. At(last, e) = IF e = w THEN {1} ELSE {}
  BY <1>1 DEF At
<1>3. Times(last, e) = Cardinality(At(last, e))
  BY <1>1, TimesType
<1>4. Cardinality({1}) = 1 /\ Cardinality({}) = 0
  BY FS_Singleton, FS_EmptySet
<1>5. Times(s \o last, e) = Times(s, e) + Times(last, e)
  BY <1>1, TimesConcat
<1> QED
  BY <1>1, <1>2, <1>3, <1>4, <1>5

\* What is taken from the front is there once less.
LEMMA TimesTail ==
  ASSUME NEW S, NEW s \in Seq(S), s # <<>>, NEW e
  PROVE  /\ Head(s) \in S /\ Tail(s) \in Seq(S)
         /\ Times(s, e) = Times(Tail(s), e) + IF e = Head(s) THEN 1 ELSE 0
<1> DEFINE first == Head(s)
           others == Tail(s)
<1>1. first \in S /\ others \in Seq(S) /\ s = <<first>> \o others
  OBVIOUS
<1> HIDE DEF first, others
<1>2. Times(<<first>> \o others, e) = (IF e = first THEN 1 ELSE 0) + Times(others, e)
  BY <1>1, TimesFirst
<1>3. Times(others, e) \in 0..Len(others)
  BY <1>1, TimesType
<1>4. Len(others) \in Nat
  BY <1>1
<1>5. Times(s, e) = Times(others, e) + IF e = first THEN 1 ELSE 0
  BY <1>1, <1>2, <1>3, <1>4
<1> QED
  BY <1>1, <1>5 DEF first, others

-----------------------------------------------------------------------------
(* Walks over a multi world *)

Walking(W) ==
  [live : BOOLEAN, todo : Seq(W), at : SUBSET W, visited : Seq(W), stayed : SUBSET W,
   cut : BOOLEAN, on : BOOLEAN]

\* Of a walk over a copy: what has stayed was visited or will be.
CopyIsLeft == \A w \in walk.stayed : Times(walk.visited, w) + Times(walk.todo, w) = 1

\* Of a walk over the list itself, which has come to a place: what is before it was
\* visited, what comes after it was not.
VisitedSoFar(j) ==
  /\ walk.at = {subworlds[j]}
  /\ \A i \in 1..Len(subworlds) :
       subworlds[i] \in walk.stayed =>
         Times(walk.visited, subworlds[i]) = IF i <= j THEN 1 ELSE 0

WalkInv(W) ==
  /\ subworlds \in Seq(W) /\ Once(subworlds) /\ walk \in Walking(W)
  /\ walk.on => walk.stayed \in SUBSET Range(subworlds)
  /\ walk.on /\ ~walk.live => CopyIsLeft
  /\ walk.on /\ walk.live /\ ~walk.cut => \E j \in 1..Len(subworlds) : VisitedSoFar(j)

WalkStep(W) ==
  \/ \E w \in W \ Range(subworlds) : subworlds' = Append(subworlds, w) /\ walk' = walk
  \/ \E i \in DOMAIN subworlds :
       subworlds' = RemoveAt(subworlds, i) /\ walk' = Walks!WalkWithout(subworlds[i])
  \/ subworlds' = subworlds /\ walk' \in {walk, Walks!NoWalk}
  \/ Walks!WalkCopy \/ Walks!WalkList \/ Walks!NextCopied \/ Walks!NextListed

LEMMA MountedKeeps ==
  ASSUME NEW W, WalkInv(W), NEW w \in W \ Range(subworlds),
         subworlds' = Append(subworlds, w), walk' = walk
  PROVE  WalkInv(W)'
<1>1. /\ subworlds \in Seq(W) /\ Len(subworlds) \in Nat
      /\ subworlds' \in Seq(W) /\ Len(subworlds') = Len(subworlds) + 1
      /\ \A k \in 1..Len(subworlds) : subworlds'[k] = subworlds[k]
      /\ subworlds'[Len(subworlds) + 1] = w
      /\ Range(subworlds') = Range(subworlds) \cup {w}
      /\ Once(subworlds')
  BY AppendedOnce DEF WalkInv
<1>2. walk.on => walk'.stayed \in SUBSET Range(subworlds')
  BY <1>1 DEF WalkInv
<1>3. walk.on /\ ~walk.live => CopyIsLeft'
  BY DEF WalkInv, CopyIsLeft, Times
<1>4. ASSUME walk.on, walk.live, ~walk.cut
      PROVE  \E j \in 1..Len(subworlds') : VisitedSoFar(j)'
  <2>1. PICK j \in 1..Len(subworlds) : VisitedSoFar(j)
    BY <1>4 DEF WalkInv
  <2>2. walk'.at = {subworlds'[j]}
    BY <1>1, <2>1 DEF VisitedSoFar
  <2>3. ASSUME NEW i \in 1..Len(subworlds'), subworlds'[i] \in walk'.stayed
        PROVE  Times(walk'.visited, subworlds'[i]) = IF i <= j THEN 1 ELSE 0
    <3>1. i \in 1..Len(subworlds)
      <4>1. w \notin walk'.stayed
        BY <1>4 DEF WalkInv
      <4> QED
        BY <1>1, <2>3, <4>1
    <3> QED
      BY <1>1, <2>1, <2>3, <3>1 DEF VisitedSoFar
  <2>4. VisitedSoFar(j)'
    BY <2>2, <2>3 DEF VisitedSoFar, Times
  <2> QED
    BY <1>1, <2>4
<1> QED
  BY <1>1, <1>2, <1>3, <1>4 DEF WalkInv

LEMMA UnmountedKeeps ==
  ASSUME NEW W, WalkInv(W), NEW i \in DOMAIN subworlds,
         subworlds' = RemoveAt(subworlds, i), walk' = Walks!WalkWithout(subworlds[i])
  PROVE  WalkInv(W)'
<1>1. /\ subworlds \in Seq(W) /\ Len(subworlds) \in Nat /\ i \in 1..Len(subworlds)
      /\ subworlds' \in Seq(W) /\ Len(subworlds') = Len(subworlds) - 1
      /\ \A k \in 1..(Len(subworlds) - 1) :
           subworlds'[k] = IF k < i THEN subworlds[k] ELSE subworlds[k + 1]
  BY RemovedAt DEF WalkInv
<1>2. Range(subworlds') = Range(subworlds) \ {subworlds[i]} /\ Once(subworlds')
  BY RemovedAtOnce DEF WalkInv
<1>3. /\ walk \in Walking(W)
      /\ walk' = [walk EXCEPT
                    !.stayed = walk.stayed \ {subworlds[i]},
                    !.cut = walk.cut \/ (walk.on /\ walk.live /\ subworlds[i] \in walk.at),
                    !.at = IF walk.live THEN walk.at \ {subworlds[i]} ELSE walk.at]
  BY DEF WalkInv, Walks!WalkWithout
<1>4. /\ walk' \in Walking(W)
      /\ walk'.on = walk.on /\ walk'.live = walk.live
      /\ walk'.todo = walk.todo /\ walk'.visited = walk.visited
      /\ walk'.stayed = walk.stayed \ {subworlds[i]}
      /\ walk'.cut = (walk.cut \/ (walk.on /\ walk.live /\ subworlds[i] \in walk.at))
      /\ walk'.at = IF walk.live THEN walk.at \ {subworlds[i]} ELSE walk.at
  <2>1. walk' \in Walking(W)
    BY <1>3, ZenonT(30) DEF Walking
  <2>2. walk'.on = walk.on /\ walk'.live = walk.live
        /\ walk'.todo = walk.todo /\ walk'.visited = walk.visited
    BY <1>3, Zenon DEF Walking
  <2>3. walk'.stayed = walk.stayed \ {subworlds[i]}
    BY <1>3, Zenon DEF Walking
  <2>4. walk'.cut = (walk.cut \/ (walk.on /\ walk.live /\ subworlds[i] \in walk.at))
    BY <1>3, Zenon DEF Walking
  <2>5. walk'.at = IF walk.live THEN walk.at \ {subworlds[i]} ELSE walk.at
    BY <1>3, Zenon DEF Walking
  <2> QED
    BY <2>1, <2>2, <2>3, <2>4, <2>5
<1>5. walk'.on => walk'.stayed \in SUBSET Range(subworlds')
  BY <1>2, <1>4 DEF WalkInv
<1>6. walk'.on /\ ~walk'.live => CopyIsLeft'
  BY <1>4 DEF WalkInv, CopyIsLeft, Times
<1>7. ASSUME walk'.on, walk'.live, ~walk'.cut
      PROVE  \E j \in 1..Len(subworlds') : VisitedSoFar(j)'
  <2>1. walk.on /\ walk.live /\ ~walk.cut /\ subworlds[i] \notin walk.at
    BY <1>4, <1>7, Zenon
  <2>2. PICK j \in 1..Len(subworlds) : VisitedSoFar(j)
    BY <2>1 DEF WalkInv
  <2>3. i # j
    BY <2>1, <2>2 DEF VisitedSoFar
  <2> DEFINE now0 == IF j < i THEN j ELSE j - 1
  <2>4. now0 \in 1..Len(subworlds') /\ subworlds'[now0] = subworlds[j]
    BY <1>1, <2>3
  <2>5. walk'.at = {subworlds'[now0]}
    BY <1>4, <2>1, <2>2, <2>4 DEF VisitedSoFar
  <2>6. ASSUME NEW k \in 1..Len(subworlds'), subworlds'[k] \in walk'.stayed
        PROVE  Times(walk'.visited, subworlds'[k]) = IF k <= now0 THEN 1 ELSE 0
    <3> DEFINE was == IF k < i THEN k ELSE k + 1
    <3>1. was \in 1..Len(subworlds) /\ subworlds'[k] = subworlds[was]
      BY <1>1
    <3>2. was <= j <=> k <= now0
      BY <1>1, <2>3
    <3>3. subworlds[was] \in walk.stayed
      BY <1>4, <2>6, <3>1
    <3>4. Times(walk.visited, subworlds[was]) = IF was <= j THEN 1 ELSE 0
      BY <2>2, <3>1, <3>3 DEF VisitedSoFar
    <3> HIDE DEF was, now0
    <3> QED
      BY <1>4, <3>1, <3>2, <3>4
  <2> HIDE DEF now0
  <2>7. VisitedSoFar(now0)'
    BY <2>5, <2>6 DEF VisitedSoFar, Times
  <2> QED
    BY <2>4, <2>7
<1> QED
  BY <1>1, <1>2, <1>4, <1>5, <1>6, <1>7 DEF WalkInv

LEMMA NoWalkFields ==
  ASSUME NEW W
  PROVE  /\ Walks!NoWalk \in Walking(W)
         /\ ~Walks!NoWalk.on /\ ~Walks!NoWalk.live /\ ~Walks!NoWalk.cut
         /\ Walks!NoWalk.visited = <<>> /\ Walks!NoWalk.todo = <<>>
<1>1. <<>> \in Seq(W)
  OBVIOUS
<1> QED
  BY <1>1, Zenon DEF Walking, Walks!NoWalk

LEMMA WalkCopyKeeps == ASSUME NEW W, WalkInv(W), Walks!WalkCopy PROVE WalkInv(W)'
<1>1. /\ subworlds' = subworlds /\ subworlds \in Seq(W) /\ Once(subworlds)
      /\ walk' = [Walks!NoWalk EXCEPT !.on = TRUE, !.todo = Reverse(subworlds),
                                      !.stayed = Range(subworlds)]
  <2>1. subworlds \in Seq(W) /\ Once(subworlds)
    BY DEF WalkInv
  <2> QED
    BY <2>1, Zenon DEF Walks!WalkCopy, Walks!NoWalk, Reverse, Walks!Reverse, Range, Walks!Range
<1>2. Reverse(subworlds) \in Seq(W) /\ Range(subworlds) \in SUBSET W
  BY <1>1, TimesReverse DEF Range
<1>3. /\ walk' \in Walking(W) /\ walk'.on /\ ~walk'.live
      /\ walk'.visited = <<>> /\ walk'.todo = Reverse(subworlds)
      /\ walk'.stayed = Range(subworlds)
  BY <1>1, <1>2, NoWalkFields, Zenon DEF Walking
<1>4. ASSUME NEW w \in walk'.stayed PROVE Times(walk'.visited, w) + Times(walk'.todo, w) = 1
  <2>1. Times(subworlds, w) = 1
    BY <1>1, <1>3, <1>4, OnceTimes
  <2>2. Times(Reverse(subworlds), w) = 1
    BY <1>1, <2>1, TimesReverse
  <2>3. Times(<<>>, w) = 0
    BY FS_EmptySet DEF Times
  <2> QED
    BY <1>3, <2>2, <2>3
<1>5. CopyIsLeft'
  BY <1>4 DEF CopyIsLeft, Times
<1> QED
  BY <1>1, <1>3, <1>5 DEF WalkInv, Once

LEMMA WalkListKeeps == ASSUME NEW W, WalkInv(W), Walks!WalkList PROVE WalkInv(W)'
<1> DEFINE first == subworlds[1]
<1>1. /\ subworlds' = subworlds /\ subworlds \in Seq(W) /\ Once(subworlds) /\ subworlds # <<>>
      /\ walk' = [Walks!NoWalk EXCEPT !.on = TRUE, !.live = TRUE, !.at = {first},
                                      !.visited = <<first>>, !.stayed = Range(subworlds)]
  <2>1. subworlds \in Seq(W) /\ Once(subworlds)
    BY DEF WalkInv
  <2> QED
    BY <2>1, Zenon DEF Walks!WalkList, Walks!NoWalk, Range, Walks!Range
<1>2. Len(subworlds) \in Nat \ {0} /\ first \in W /\ Range(subworlds) \in SUBSET W
  BY <1>1 DEF Range
<1> HIDE DEF first
<1>3. <<first>> \in Seq(W) /\ {first} \in SUBSET W /\ <<>> \in Seq(W)
  BY <1>2
<1>4. /\ walk' \in Walking(W) /\ walk'.on /\ walk'.live
      /\ walk'.at = {first} /\ walk'.visited = <<first>> /\ walk'.stayed = Range(subworlds)
  BY <1>1, <1>2, <1>3, NoWalkFields, Zenon DEF Walking
<1>5. ASSUME NEW i \in 1..Len(subworlds)
      PROVE  Times(walk'.visited, subworlds[i]) = IF i <= 1 THEN 1 ELSE 0
  <2> DEFINE none == <<>>
  <2>0. none \in Seq(W)
    BY <1>3
  <2>2. Append(none, first) = <<first>> /\ Times(none, subworlds[i]) = 0
    BY <1>3, FS_EmptySet DEF Times
  <2> HIDE DEF none
  <2>1. Times(Append(none, first), subworlds[i])
          = Times(none, subworlds[i]) + IF subworlds[i] = first THEN 1 ELSE 0
    BY <1>2, <2>0, TimesAppend
  <2>3. subworlds[i] = first <=> i <= 1
    BY <1>1, <1>2 DEF first, Once
  <2> QED
    BY <1>4, <2>1, <2>2, <2>3
<1>6. VisitedSoFar(1)'
  BY <1>1, <1>4, <1>5 DEF VisitedSoFar, first, Times
<1> QED
  BY <1>1, <1>2, <1>4, <1>6 DEF WalkInv, Once

LEMMA NextCopiedKeeps == ASSUME NEW W, WalkInv(W), Walks!NextCopied PROVE WalkInv(W)'
<1> DEFINE first == Head(walk.todo)
<1>1. /\ subworlds' = subworlds /\ walk \in Walking(W)
      /\ walk.on /\ ~walk.live /\ walk.todo # <<>> /\ walk.todo \in Seq(W)
      /\ walk.visited \in Seq(W)
      /\ walk' = [walk EXCEPT !.todo = Tail(walk.todo), !.visited = Append(walk.visited, first)]
  BY DEF WalkInv, Walks!NextCopied, Walking
<1>2. Tail(walk.todo) \in Seq(W) /\ first \in W /\ Append(walk.visited, first) \in Seq(W)
  BY <1>1
<1> HIDE DEF first
<1>3. /\ walk' \in Walking(W) /\ walk'.on = walk.on /\ walk'.live = walk.live
      /\ walk'.stayed = walk.stayed
      /\ walk'.todo = Tail(walk.todo) /\ walk'.visited = Append(walk.visited, first)
  BY <1>1, <1>2, Zenon DEF Walking
<1>4. ASSUME NEW w \in walk.stayed
      PROVE  Times(Append(walk.visited, first), w) + Times(Tail(walk.todo), w) = 1
  <2>1. Times(walk.visited, w) + Times(walk.todo, w) = 1
    BY <1>1 DEF WalkInv, CopyIsLeft
  <2>2. Times(Append(walk.visited, first), w)
          = Times(walk.visited, w) + IF w = first THEN 1 ELSE 0
    BY <1>1, <1>2, TimesAppend
  <2>3. Times(walk.todo, w) = Times(Tail(walk.todo), w) + IF w = first THEN 1 ELSE 0
    BY <1>1, TimesTail DEF first
  <2> DEFINE others == Tail(walk.todo)
  <2>4. Times(walk.visited, w) \in Int
    BY <1>1, TimesType
  <2>5. Times(others, w) \in Int
    <3>1. others \in Seq(W)
      BY <1>2
    <3> HIDE DEF others
    <3>2. Times(others, w) \in 0..Len(others) /\ Len(others) \in Nat
      BY <3>1, TimesType
    <3> QED
      BY <3>2
  <2> QED
    BY <2>1, <2>2, <2>3, <2>4, <2>5
<1>5. CopyIsLeft'
  BY <1>3, <1>4 DEF CopyIsLeft, Times
<1> QED
  BY <1>1, <1>3, <1>5 DEF WalkInv, Once

LEMMA NextListedKeeps == ASSUME NEW W, WalkInv(W), Walks!NextListed PROVE WalkInv(W)'
<1>1. PICK w \in Walks!Following :
        walk' = [walk EXCEPT !.at = {w}, !.visited = Append(walk.visited, w)]
  BY DEF Walks!NextListed
<1>2. /\ subworlds' = subworlds /\ subworlds \in Seq(W) /\ Once(subworlds)
      /\ walk \in Walking(W) /\ walk.on /\ walk.live /\ walk.visited \in Seq(W)
  BY DEF WalkInv, Walks!NextListed, Walking
<1>3. PICK k \in 1..(Len(subworlds) - 1) : subworlds[k] \in walk.at /\ subworlds[k + 1] = w
  BY DEF Walks!Following
<1>4. w \in W /\ {w} \in SUBSET W /\ Append(walk.visited, w) \in Seq(W)
      /\ Len(subworlds) \in Nat
  BY <1>2, <1>3
<1>5. /\ walk' \in Walking(W) /\ walk'.on = walk.on /\ walk'.live = walk.live
      /\ walk'.stayed = walk.stayed /\ walk'.cut = walk.cut
      /\ walk'.at = {w} /\ walk'.visited = Append(walk.visited, w)
  BY <1>1, <1>2, <1>4, Zenon DEF Walking
<1>6. ASSUME ~walk.cut PROVE VisitedSoFar(k + 1)'
  <2>1. PICK j \in 1..Len(subworlds) : VisitedSoFar(j)
    BY <1>2, <1>6 DEF WalkInv
  <2>2. j = k
    BY <1>2, <1>3, <1>4, <2>1 DEF VisitedSoFar, Once
  <2>3. ASSUME NEW i \in 1..Len(subworlds), subworlds[i] \in walk.stayed
        PROVE  Times(Append(walk.visited, w), subworlds[i]) = IF i <= k + 1 THEN 1 ELSE 0
    <3>1. Times(walk.visited, subworlds[i]) = IF i <= k THEN 1 ELSE 0
      BY <2>1, <2>2, <2>3 DEF VisitedSoFar
    <3>2. Times(Append(walk.visited, w), subworlds[i])
            = Times(walk.visited, subworlds[i]) + IF subworlds[i] = w THEN 1 ELSE 0
      BY <1>2, <1>4, TimesAppend
    <3>3. subworlds[i] = w <=> i = k + 1
      BY <1>2, <1>3, <1>4 DEF Once
    <3> QED
      BY <3>1, <3>2, <3>3
  <2>4. walk'.at = {subworlds'[k + 1]}
    BY <1>2, <1>3, <1>5
  <2>5. \A i \in 1..Len(subworlds') :
          subworlds'[i] \in walk'.stayed =>
            Times(walk'.visited, subworlds'[i]) = IF i <= k + 1 THEN 1 ELSE 0
    BY <1>2, <1>5, <2>3
  <2> QED
    BY <2>4, <2>5 DEF VisitedSoFar, Times
<1>7. walk'.on /\ walk'.live /\ ~walk'.cut => \E j \in 1..Len(subworlds') : VisitedSoFar(j)'
  <2>1. k + 1 \in 1..Len(subworlds)
    BY <1>3, <1>4
  <2> QED
    BY <1>2, <1>5, <1>6, <2>1
<1> QED
  BY <1>2, <1>5, <1>7 DEF WalkInv, Once

LEMMA WalkInvKept == ASSUME NEW W, WalkInv(W), WalkStep(W) PROVE WalkInv(W)'
<1>1. ASSUME subworlds' = subworlds, walk' = walk PROVE WalkInv(W)'
  <2>1. CopyIsLeft' <=> CopyIsLeft
    BY <1>1, Zenon DEF CopyIsLeft, Times
  <2>2. \A j : VisitedSoFar(j)' <=> VisitedSoFar(j)
    BY <1>1, Zenon DEF VisitedSoFar, Times
  <2>3. Once(subworlds') <=> Once(subworlds)
    BY <1>1, Zenon DEF Once
  <2> QED
    BY <1>1, <2>1, <2>2, <2>3 DEF WalkInv
<1>2. ASSUME subworlds' = subworlds, walk' = Walks!NoWalk PROVE WalkInv(W)'
  <2>1. walk' \in Walking(W) /\ ~walk'.on
    BY <1>2, NoWalkFields
  <2> QED
    BY <1>2, <2>1 DEF WalkInv, Once
<1> QED
  BY <1>1, <1>2, MountedKeeps, UnmountedKeeps, WalkCopyKeeps, WalkListKeeps,
     NextCopiedKeeps, NextListedKeeps DEF WalkStep

\* A walk that ends has come to every world that stayed, once.
LEMMA StayersVisited == ASSUME NEW W, WalkInv(W) PROVE Walks!StayersAreVisited
<1> SUFFICES ASSUME Walks!AtItsEnd, ~walk.cut, NEW w \in walk.stayed
             PROVE  Cardinality({i \in DOMAIN walk.visited : walk.visited[i] = w}) = 1
  BY Zenon DEF Walks!StayersAreVisited, Cardinality, Walks!Cardinality
<1>1. /\ walk.on /\ walk.stayed \in SUBSET Range(subworlds) /\ subworlds \in Seq(W)
      /\ walk.visited \in Seq(W) /\ Len(subworlds) \in Nat
  BY DEF WalkInv, Walking, Walks!AtItsEnd
<1>2. Times(walk.visited, w) = 1
  <2>1. CASE walk.live
    <3>1. PICK j \in 1..Len(subworlds) : VisitedSoFar(j)
      BY <1>1, <2>1 DEF WalkInv
    <3>2. \A i \in 1..(Len(subworlds) - 1) : subworlds[i] \notin walk.at
      BY <2>1 DEF Walks!AtItsEnd, Walks!Following
    <3>3. j = Len(subworlds)
      BY <1>1, <3>1, <3>2 DEF VisitedSoFar
    <3>4. PICK i \in 1..Len(subworlds) : subworlds[i] = w
      BY <1>1 DEF Range
    <3> QED
      BY <1>1, <3>1, <3>3, <3>4 DEF VisitedSoFar
  <2>2. CASE ~walk.live
    <3>1. walk.todo = <<>>
      BY <2>2 DEF Walks!AtItsEnd
    <3>2. Times(walk.visited, w) + Times(walk.todo, w) = 1
      BY <1>1, <2>2 DEF WalkInv, CopyIsLeft
    <3>3. Times(<<>>, w) = 0
      BY FS_EmptySet DEF Times
    <3>4. Times(walk.visited, w) \in Int
      BY <1>1, TimesType
    <3> QED
      BY <3>1, <3>2, <3>3, <3>4
  <2> QED
    BY <2>1, <2>2
<1>3. DOMAIN walk.visited = 1..Len(walk.visited)
  BY <1>1
<1> QED
  BY <1>2, <1>3 DEF Times

-----------------------------------------------------------------------------
(* Sequence numbers of a multi world *)

\* The steps of a multi world, as walks over its list of worlds see them.
LEMMA MultiWalks == ASSUME Multi!Next PROVE WalkStep(MultiWorld)
<1>1. CASE Multi!Add
  <2>1. \E w \in MultiWorld \ Range(subworlds) : subworlds' = Append(subworlds, w) /\ walk' = walk
    BY <1>1, Zenon DEF Multi!Add, Range, Multi!Range
  <2> QED
    BY <2>1 DEF WalkStep
<1>2. CASE Multi!Unmount
  <2>1. \E i \in DOMAIN subworlds :
          subworlds' = RemoveAt(subworlds, i) /\ walk' = Walks!WalkWithout(subworlds[i])
    BY <1>2, Zenon DEF Multi!Unmount, RemoveAt, Multi!RemoveAt, Walks!WalkWithout,
       Multi!WalkWithout
  <2> QED
    BY <2>1 DEF WalkStep
<1>3. CASE Multi!Change \/ Multi!Ask \/ Multi!WalkEnds
  BY <1>3 DEF WalkStep, Multi!Change, Multi!Ask, Multi!WalkEnds, Multi!NoWalk, Walks!NoWalk
<1>4. CASE Multi!WalkCopy
  <2>1. Walks!WalkCopy
    BY <1>4, Zenon DEF Multi!WalkCopy, Walks!WalkCopy, Multi!NoWalk, Walks!NoWalk,
       Multi!Reverse, Walks!Reverse, Multi!Range, Walks!Range
  <2> QED
    BY <2>1 DEF WalkStep
<1>5. CASE Multi!WalkList
  <2>1. Walks!WalkList
    BY <1>5, Zenon DEF Multi!WalkList, Walks!WalkList, Multi!NoWalk, Walks!NoWalk,
       Multi!Range, Walks!Range
  <2> QED
    BY <2>1 DEF WalkStep
<1>6. CASE Multi!NextCopied
  BY <1>6, Zenon DEF Multi!NextCopied, Walks!NextCopied, WalkStep
<1>7. CASE Multi!NextListed
  BY <1>7, Zenon DEF Multi!NextListed, Walks!NextListed, Multi!Following, Walks!Following, WalkStep
<1> QED
  BY <1>1, <1>2, <1>3, <1>4, <1>5, <1>6, <1>7 DEF Multi!Next

LEMMA WalksWalk == ASSUME Walks!Next PROVE WalkStep(WalkWorld)
<1>1. CASE Walks!Add
  <2>1. \E w \in WalkWorld \ Range(subworlds) : subworlds' = Append(subworlds, w) /\ walk' = walk
    BY <1>1, Zenon DEF Walks!Add, Range, Walks!Range
  <2> QED
    BY <2>1 DEF WalkStep
<1>2. CASE Walks!Unmount
  <2>1. \E i \in DOMAIN subworlds :
          subworlds' = RemoveAt(subworlds, i) /\ walk' = Walks!WalkWithout(subworlds[i])
    BY <1>2, Zenon DEF Walks!Unmount, RemoveAt, Walks!RemoveAt
  <2> QED
    BY <2>1 DEF WalkStep
<1>3. CASE Walks!Change \/ Walks!Ask \/ Walks!WalkEnds
  BY <1>3 DEF WalkStep, Walks!Change, Walks!Ask, Walks!WalkEnds
<1> QED
  BY <1>1, <1>2, <1>3 DEF Walks!Next, WalkStep

LEMMA WalkInvInit == ASSUME NEW W, subworlds = <<>>, walk = Walks!NoWalk PROVE WalkInv(W)
<1>1. walk \in Walking(W) /\ ~walk.on
  BY NoWalkFields
<1>2. subworlds \in Seq(W) /\ Once(subworlds)
  BY DEF Once
<1> QED
  BY <1>1, <1>2 DEF WalkInv

\* What a query for a kind has for an answer.
Shown(k) == {<<w, content[w][k]>> : w \in Range(subworlds)}

MultiInv ==
  /\ WalkInv(MultiWorld)
  /\ content \in [MultiWorld -> [MultiKind -> 0..MaxChanges]]
  /\ numbers \in [MultiKind -> 1..MaxTouches]
  /\ DOMAIN cache = MultiKind
  /\ \A k \in MultiKind :
       /\ cache[k].seq \in Nat /\ cache[k].seq <= numbers[k]
       /\ k # "locks" /\ cache[k].seq = numbers[k] /\ ~cache[k].inHandler
            => cache[k].view = Shown(k)

LEMMA MultiAssumed == MaxChanges \in Nat /\ MaxTouches \in Nat \ {0}
BY PartsAssumption DEF Multi!MultiAssumption

\* The list of worlds changes, and all numbers go up.
LEMMA TouchedKeeps ==
  ASSUME MultiInv, WalkInv(MultiWorld)', Multi!CanTouch, numbers' = Multi!Touched,
         content' = content, cache' = cache
  PROVE  MultiInv'
<1>1. \A k \in MultiKind : numbers[k] \in Nat /\ numbers[k] < MaxTouches /\ numbers'[k] = numbers[k] + 1
  BY MultiAssumed DEF MultiInv, Multi!CanTouch, Multi!Touched
<1>2. numbers' \in [MultiKind -> 1..MaxTouches]
  BY <1>1, MultiAssumed DEF Multi!Touched
<1>3. \A k \in MultiKind : cache'[k].seq \in Nat /\ cache'[k].seq < numbers'[k]
  BY <1>1 DEF MultiInv
<1>4. \A k \in MultiKind : cache'[k].seq <= numbers'[k] /\ cache'[k].seq # numbers'[k]
  BY <1>1, <1>3
<1> QED
  BY <1>2, <1>3, <1>4 DEF MultiInv

LEMMA ChangeKeeps ==
  ASSUME MultiInv, WalkInv(MultiWorld)', Multi!Change, subworlds' = subworlds
  PROVE  MultiInv'
<1>1. PICK w \in MultiWorld, k \in MultiKind :
        /\ content[w][k] < MaxChanges
        /\ Multi!IsHeard(w, k) => numbers[k] < MaxTouches
        /\ content' = [content EXCEPT ![w][k] = content[w][k] + 1]
        /\ numbers' = IF Multi!IsHeard(w, k) THEN [numbers EXCEPT ![k] = numbers[k] + 1] ELSE numbers
        /\ \/ cache' = cache
           \/ Multi!IsHeard(w, k) /\ cache' = Multi!Asked(k, numbers[k] + 1, TRUE)
  BY DEF Multi!Change
<1>2. /\ content \in [MultiWorld -> [MultiKind -> 0..MaxChanges]]
      /\ numbers \in [MultiKind -> 1..MaxTouches] /\ MaxChanges \in Nat /\ MaxTouches \in Nat
  BY MultiAssumed DEF MultiInv
<1>3. content[w] \in [MultiKind -> 0..MaxChanges] /\ content[w][k] + 1 \in 0..MaxChanges
  BY <1>1, <1>2
<1>4. [content[w] EXCEPT ![k] = content[w][k] + 1] \in [MultiKind -> 0..MaxChanges]
  BY <1>3
<1>5. content' = [content EXCEPT ![w] = [content[w] EXCEPT ![k] = content[w][k] + 1]]
  BY <1>1, Zenon
<1>6. /\ content' \in [MultiWorld -> [MultiKind -> 0..MaxChanges]]
      /\ \A v \in MultiWorld : \A m \in MultiKind :
           v # w \/ m # k => content'[v][m] = content[v][m]
  BY <1>2, <1>3, <1>4, <1>5
<1>7. \A v \in Range(subworlds) : v \in MultiWorld
  BY DEF MultiInv, WalkInv, Range
<1>8. ASSUME NEW m \in MultiKind, m # k \/ ~Multi!IsHeard(w, k)
      PROVE  /\ m # "locks" => Shown(m)' = Shown(m)
             /\ numbers'[m] = numbers[m] /\ cache'[m] = cache[m]
  <2>1. m # "locks" => \A v \in Range(subworlds) : content'[v][m] = content[v][m]
    BY <1>6, <1>7, <1>8 DEF Multi!IsHeard, Multi!Range, Range
  <2>2. Range(subworlds') = Range(subworlds)
    OBVIOUS
  <2>3. m # "locks" =>
          {<<v, content'[v][m]>> : v \in Range(subworlds)} = {<<v, content[v][m]>> : v \in Range(subworlds)}
    BY <2>1
  <2>4. numbers'[m] = numbers[m]
    BY <1>1, <1>2, <1>8
  <2>5. cache'[m] = cache[m]
    <3>1. CASE cache' = cache
      BY <3>1
    <3>2. CASE m # k /\ cache' = Multi!Asked(k, numbers[k] + 1, TRUE)
      <4>1. cache' = [cache EXCEPT ![k] = [seq |-> numbers[k] + 1, view |-> Multi!View(k),
                                           inHandler |-> TRUE]]
        BY <3>2, Zenon DEF Multi!Asked
      <4>2. DOMAIN cache = MultiKind
        BY DEF MultiInv
      <4> QED
        BY <3>2, <4>1, <4>2
    <3> QED
      BY <1>1, <1>8, <3>1, <3>2
  <2> QED
    BY <2>2, <2>3, <2>4, <2>5 DEF Shown
<1>9. ASSUME Multi!IsHeard(w, k) PROVE numbers'[k] = numbers[k] + 1
  BY <1>1, <1>2, <1>9
<1>10. numbers' \in [MultiKind -> 1..MaxTouches]
  <2>1. CASE Multi!IsHeard(w, k)
    <3>1. numbers[k] + 1 \in 1..MaxTouches
      BY <1>1, <1>2, <2>1
    <3> QED
      BY <1>1, <1>2, <2>1, <3>1
  <2>2. CASE ~Multi!IsHeard(w, k)
    BY <1>1, <1>2, <2>2
  <2> QED
    BY <2>1, <2>2
<1>11. /\ DOMAIN cache' = MultiKind
       /\ \/ cache' = cache
          \/ cache'[k].seq = numbers[k] + 1 /\ cache'[k].inHandler
  <2>1. DOMAIN cache = MultiKind
    BY DEF MultiInv
  <2>2. CASE cache' = cache
    BY <2>1, <2>2
  <2>3. CASE cache' = Multi!Asked(k, numbers[k] + 1, TRUE)
    <3>1. cache' = [cache EXCEPT ![k] = [seq |-> numbers[k] + 1, view |-> Multi!View(k),
                                         inHandler |-> TRUE]]
      BY <2>3, Zenon DEF Multi!Asked
    <3>2. cache'[k] = [seq |-> numbers[k] + 1, view |-> Multi!View(k), inHandler |-> TRUE]
      BY <2>1, <3>1
    <3> QED
      BY <2>1, <3>1, <3>2
  <2> QED
    BY <1>1, <2>2, <2>3
<1>12. ASSUME NEW m \in MultiKind
       PROVE  /\ cache'[m].seq \in Nat /\ cache'[m].seq <= numbers'[m]
              /\ m # "locks" /\ cache'[m].seq = numbers'[m] /\ ~cache'[m].inHandler
                   => cache'[m].view = Shown(m)'
  <2>1. /\ cache[m].seq \in Nat /\ cache[m].seq <= numbers[m] /\ numbers[m] \in Nat
        /\ m # "locks" /\ cache[m].seq = numbers[m] /\ ~cache[m].inHandler
             => cache[m].view = Shown(m)
    BY <1>2 DEF MultiInv
  <2>2. CASE m # k \/ ~Multi!IsHeard(w, k)
    BY <1>8, <2>1, <2>2
  <2>3. CASE m = k /\ Multi!IsHeard(w, k)
    <3>1. numbers'[m] = numbers[m] + 1
      BY <1>9, <2>3
    <3>2. CASE cache' = cache
      BY <2>1, <3>1, <3>2
    <3>3. CASE cache'[k].seq = numbers[k] + 1 /\ cache'[k].inHandler
      BY <2>1, <2>3, <3>1, <3>3
    <3> QED
      BY <1>11, <3>2, <3>3
  <2> QED
    BY <2>2, <2>3
<1> QED
  BY <1>6, <1>10, <1>11, <1>12 DEF MultiInv

LEMMA AskKeeps ==
  ASSUME MultiInv, WalkInv(MultiWorld)', Multi!Ask, subworlds' = subworlds PROVE MultiInv'
<1>1. PICK k \in MultiKind :
        cache' = [cache EXCEPT ![k] = [seq |-> numbers[k], view |-> Multi!View(k),
                                       inHandler |-> FALSE]]
  BY Zenon DEF Multi!Ask, Multi!Asked
<1>2. /\ content' = content /\ numbers' = numbers
      /\ numbers \in [MultiKind -> 1..MaxTouches] /\ DOMAIN cache = MultiKind
  BY DEF MultiInv, Multi!Ask
<1>3. \A m : Multi!View(m) = Shown(m)
  BY Zenon DEF Multi!View, Shown, Multi!Range, Range
<1>4. \A m \in MultiKind : Shown(m)' = Shown(m)
  BY <1>2 DEF Shown
<1>5. /\ DOMAIN cache' = MultiKind
      /\ \A m \in MultiKind : cache'[m] = IF m = k THEN [seq |-> numbers[k], view |-> Shown(k),
                                                          inHandler |-> FALSE]
                                          ELSE cache[m]
  BY <1>1, <1>2, <1>3
<1>6. ASSUME NEW m \in MultiKind
      PROVE  /\ cache'[m].seq \in Nat /\ cache'[m].seq <= numbers'[m]
             /\ m # "locks" /\ cache'[m].seq = numbers'[m] /\ ~cache'[m].inHandler
                  => cache'[m].view = Shown(m)'
  <2>1. CASE m = k
    <3>1. cache'[m].seq = numbers[k] /\ cache'[m].view = Shown(k) /\ numbers[k] \in Nat
      BY <1>2, <1>5, <2>1
    <3> QED
      BY <1>2, <1>4, <2>1, <3>1
  <2>2. CASE m # k
    <3>1. cache'[m] = cache[m]
      BY <1>5, <2>2
    <3> QED
      BY <1>2, <1>4, <3>1 DEF MultiInv
  <2> QED
    BY <2>1, <2>2
<1> QED
  BY <1>2, <1>5, <1>6 DEF MultiInv

LEMMA MultiKept == ASSUME MultiInv, Multi!Next PROVE MultiInv'
<1>1. WalkInv(MultiWorld)'
  BY MultiWalks, WalkInvKept DEF MultiInv
<1>2. CASE Multi!Add \/ Multi!Unmount
  BY <1>1, <1>2, TouchedKeeps DEF Multi!Add, Multi!Unmount
<1>3. CASE Multi!Change
  BY <1>1, <1>3, ChangeKeeps DEF Multi!Change
<1>4. CASE Multi!Ask
  BY <1>1, <1>4, AskKeeps DEF Multi!Ask
<1>5. CASE Multi!WalkCopy \/ Multi!WalkList \/ Multi!NextCopied \/ Multi!NextListed \/ Multi!WalkEnds
  <2>1. UNCHANGED <<subworlds, content, numbers, cache>>
    BY <1>5 DEF Multi!WalkCopy, Multi!WalkList, Multi!NextCopied, Multi!NextListed, Multi!WalkEnds
  <2>2. \A m \in MultiKind : Shown(m)' = Shown(m)
    BY <2>1 DEF Shown
  <2> QED
    BY <1>1, <2>1, <2>2 DEF MultiInv
<1> QED
  BY <1>2, <1>3, <1>4, <1>5 DEF Multi!Next

LEMMA MultiTells == ASSUME MultiInv PROVE Multi!TypeOK /\ Multi!FreshWhileUnchanged
<1>1. subworlds \in Seq(MultiWorld) /\ Once(subworlds) /\ walk.stayed \in SUBSET MultiWorld
  BY DEF MultiInv, WalkInv, Walking
<1>2. IsInjective(subworlds)
  BY <1>1, OnceIsInjective
<1>3. Multi!IsInjective(subworlds) /\ Multi!Range(subworlds) \in SUBSET MultiWorld
  BY <1>1, <1>2 DEF IsInjective, Multi!IsInjective, Multi!Range
<1>4. Multi!TypeOK
  BY <1>1, <1>3 DEF MultiInv, Multi!TypeOK
<1>5. \A m : Multi!View(m) = Shown(m)
  BY Zenon DEF Multi!View, Shown, Multi!Range, Range
<1>6. Multi!FreshWhileUnchanged
  BY <1>5 DEF MultiInv, Multi!FreshWhileUnchanged
<1> QED
  BY <1>4, <1>6

LEMMA MultiStays == ASSUME MultiInv, UNCHANGED multiVars PROVE MultiInv'
<1>1. /\ subworlds' = subworlds /\ walk' = walk /\ content' = content
      /\ numbers' = numbers /\ cache' = cache
  BY DEF multiVars
<1>2. WalkInv(MultiWorld)'
  BY <1>1, WalkInvKept DEF WalkStep, MultiInv
<1>3. \A m \in MultiKind : Shown(m)' = Shown(m)
  BY <1>1 DEF Shown
<1> QED
  BY <1>1, <1>2, <1>3 DEF MultiInv

LEMMA MultiInvInit == ASSUME Multi!Init PROVE MultiInv
<1>1. /\ subworlds = <<>> /\ walk = Walks!NoWalk
      /\ content = [w \in MultiWorld |-> [k \in MultiKind |-> 0]]
      /\ numbers = [k \in MultiKind |-> 1]
      /\ cache = [k \in MultiKind |-> [seq |-> 1, view |-> {}, inHandler |-> FALSE]]
  BY DEF Multi!Init, Multi!NoWalk, Walks!NoWalk
<1>2. WalkInv(MultiWorld)
  BY <1>1, WalkInvInit
<1>3. /\ content \in [MultiWorld -> [MultiKind -> 0..MaxChanges]]
      /\ numbers \in [MultiKind -> 1..MaxTouches]
  BY <1>1, MultiAssumed
<1>4. ASSUME NEW k \in MultiKind
      PROVE  /\ cache[k].seq \in Nat /\ cache[k].seq <= numbers[k]
             /\ k # "locks" /\ cache[k].seq = numbers[k] /\ ~cache[k].inHandler
                  => cache[k].view = Shown(k)
  <2>1. Range(subworlds) = {}
    BY <1>1 DEF Range
  <2>2. Shown(k) = {}
    BY <2>1 DEF Shown
  <2>3. cache[k].seq = 1 /\ numbers[k] = 1 /\ cache[k].view = {}
    BY <1>1
  <2> QED
    BY <2>2, <2>3
<1>5. \A k \in MultiKind :
        /\ cache[k].seq \in Nat /\ cache[k].seq <= numbers[k]
        /\ k # "locks" /\ cache[k].seq = numbers[k] /\ ~cache[k].inHandler
             => cache[k].view = Shown(k)
  BY <1>4
<1>6. DOMAIN cache = MultiKind
  BY <1>1
<1> QED
  BY <1>2, <1>3, <1>5, <1>6 DEF MultiInv

\* What every part but the store keeps.
AskedInv ==
  /\ part = "deaf questions" => DeafInv
  /\ part = "multi" => MultiInv
  /\ part = "walks" => WalkInv(WalkWorld)

\* Who has seen the present sequence number has seen what there is now: of a store and of a
\* multi world, unless it asked from a handler of changed_packages, which runs too early; of
\* subscriptions; but not of the locks of a multi world, of which no number tells.  And a walk
\* over a multi world comes to all that stay (rc_world_touch_package_sequence_number,
\* rc_world_multi_foreach_subworld).
THEOREM ClientsAlwaysSee == AllSpec => []ClientsSeeWhatIsThere
<1>1. AllInit => AskedInv
  <2> SUFFICES ASSUME AllInit PROVE AskedInv
    OBVIOUS
  <2>1. part = "deaf questions" => DeafInv
    <3>1. part = "deaf questions" => DeafQuestions!Init
      BY DEF AllInit
    <3>2. ASSUME DeafQuestions!Init PROVE DeafInv
      <4>1. number = 1 /\ subscribed = {} /\ told = [seq |-> 1, channels |-> {}]
        BY <3>2 DEF DeafQuestions!Init
      <4>2. told.seq = 1 /\ told.channels = {}
        BY <4>1
      <4> QED
        BY <4>1, <4>2 DEF DeafInv
    <3> QED
      BY <3>1, <3>2
  <2>2. part = "multi" => MultiInv
    BY MultiInvInit DEF AllInit
  <2>3. part = "walks" => WalkInv(WalkWorld)
    BY WalkInvInit DEF AllInit, Walks!Init
  <2> QED
    BY <2>1, <2>2, <2>3 DEF AskedInv
<1>2. AskedInv /\ [AllNext]_allVars => AskedInv'
  <2> SUFFICES ASSUME AskedInv, [AllNext]_allVars PROVE AskedInv'
    OBVIOUS
  <2>1. part' = part
    BY DEF AllNext, allVars
  <2>2. ASSUME part = "deaf questions" PROVE DeafInv'
    <3>1. DeafQuestions!Next \/ UNCHANGED askVars
      BY <2>2 DEF AllNext, allVars
    <3>2. ASSUME UNCHANGED askVars PROVE DeafInv'
      BY <2>2, <3>2 DEF AskedInv, DeafInv, askVars
    <3> QED
      BY <2>2, <3>1, <3>2, DeafKept DEF AskedInv
  <2>3. ASSUME part = "multi" PROVE MultiInv'
    <3>1. Multi!Next \/ UNCHANGED multiVars
      BY <2>3 DEF AllNext, allVars
    <3> QED
      BY <2>3, <3>1, MultiKept, MultiStays DEF AskedInv
  <2>4. ASSUME part = "walks" PROVE WalkInv(WalkWorld)'
    <3>1. Walks!Next \/ UNCHANGED multiVars
      BY <2>4 DEF AllNext, allVars
    <3>2. UNCHANGED multiVars => WalkStep(WalkWorld)
      BY DEF WalkStep, multiVars
    <3> QED
      BY <2>4, <3>1, <3>2, WalksWalk, WalkInvKept DEF AskedInv
  <2> QED
    BY <2>1, <2>2, <2>3, <2>4 DEF AskedInv
<1>3. AskedInv /\ AllStoreInv => ClientsSeeWhatIsThere
  <2> SUFFICES ASSUME AskedInv, AllStoreInv PROVE ClientsSeeWhatIsThere
    OBVIOUS
  <2>1. part \in {"store", "channel store"} => NumberTellsPackages
    BY DEF AllStoreInv, StoreRuns, StoreInv
  <2>2. part = "deaf questions" => DeafQuestions!NumberTellsSubscriptions
    BY DEF AskedInv, DeafInv, DeafQuestions!NumberTellsSubscriptions
  <2>3. part = "multi" => Multi!TypeOK /\ Multi!FreshWhileUnchanged
    BY MultiTells DEF AskedInv
  <2>4. part = "walks" => Walks!StayersAreVisited
    BY StayersVisited DEF AskedInv
  <2> QED
    BY <2>1, <2>2, <2>3, <2>4 DEF ClientsSeeWhatIsThere
<1> QED
  BY <1>1, <1>2, <1>3, StoreInvAlways, PTL DEF AllSpec, allVars

-----------------------------------------------------------------------------
(* Pendings *)

PendingRecord ==
  [status : {"PRE_BEGIN", "RUNNING", "FINISHED", "ABORTED", "FAILED"},
   start : 0..MaxClock, last : 0..MaxClock, poll : 0..MaxClock, percent : 0..100]

\* One that nobody has made yet has not begun, and none began later than now.
PendInv ==
  /\ Pendings!TypeOK /\ Pendings!NothingOldIsLeft
  /\ \A i \in 1..MaxId : i >= nextId => pendings[i].status = "PRE_BEGIN"
  /\ \A i \in 1..MaxId : pendings[i].start <= clock

LEMMA PendAssumed ==
  /\ MaxId \in Nat /\ CleanupTime \in Nat /\ CleanupDelay \in Nat /\ MaxClock \in Nat \ {0}
  /\ Percents \in SUBSET (0..100)
  /\ \A s \in Sizes : s[2] \in Nat /\ s[1] \in 0..s[2]
BY PartsAssumption DEF Pendings!PendingAssumption

\* What the invariant says, with the numbers as they are.
LEMMA PendFacts ==
  ASSUME PendInv
  PROVE  /\ pendings \in [1..MaxId -> PendingRecord]
         /\ nextId \in 1..(MaxId + 1) /\ table \in SUBSET (1..(nextId - 1))
         /\ lastCleanup \in 0..clock /\ clock \in 1..MaxClock
         /\ \A i \in table : i \in 1..MaxId /\ i < nextId
<1>1. /\ pendings \in [1..MaxId -> PendingRecord]
      /\ nextId \in 1..(MaxId + 1) /\ table \in SUBSET (1..(nextId - 1))
      /\ lastCleanup \in 0..clock /\ clock \in 1..MaxClock
  BY DEF PendInv, Pendings!TypeOK, Pendings!Ids, PendingRecord
<1> QED
  BY <1>1, PendAssumed

LEMMA PendInvInit == ASSUME Pendings!Init PROVE PendInv
<1>1. /\ pendings = [i \in 1..MaxId |-> Pendings!Fresh]
      /\ table = {} /\ nextId = 1 /\ lastCleanup = 0 /\ clock = 1
  BY DEF Pendings!Init, Pendings!Ids
<1>2. /\ Pendings!Fresh \in PendingRecord
      /\ Pendings!Fresh.status = "PRE_BEGIN" /\ Pendings!Fresh.start = 0
  BY PendAssumed DEF Pendings!Fresh, PendingRecord
<1>3. Pendings!TypeOK
  BY <1>1, <1>2, PendAssumed DEF Pendings!TypeOK, Pendings!Ids, PendingRecord
<1>4. Pendings!NothingOldIsLeft
  BY <1>1 DEF Pendings!NothingOldIsLeft
<1>5. \A i \in 1..MaxId : pendings[i].status = "PRE_BEGIN" /\ pendings[i].start <= clock
  BY <1>1, <1>2
<1> QED
  BY <1>3, <1>4, <1>5 DEF PendInv

\* The owner of a pending changes it: it is active, or has just ended.
LEMMA OwnKeeps ==
  ASSUME PendInv, NEW i \in 1..MaxId, i < nextId, NEW p \in PendingRecord,
         p.start <= clock, Pendings!IsActive(p) \/ p.last = clock,
         pendings' = [pendings EXCEPT ![i] = p],
         table' = table, nextId' = nextId, lastCleanup' = lastCleanup, clock' = clock
  PROVE  PendInv'
<1>1. /\ pendings \in [1..MaxId -> PendingRecord] /\ nextId \in Nat
      /\ lastCleanup \in 0..clock /\ clock \in Nat
      /\ CleanupTime \in Nat /\ \A j \in table : j \in 1..MaxId
  BY PendFacts, PendAssumed
<1>2. /\ pendings' \in [1..MaxId -> PendingRecord]
      /\ \A j \in 1..MaxId : pendings'[j] = IF j = i THEN p ELSE pendings[j]
  BY <1>1
<1>3. Pendings!TypeOK'
  BY <1>2 DEF PendInv, Pendings!TypeOK, Pendings!Ids, PendingRecord
<1>4. Pendings!NothingOldIsLeft'
  <2> SUFFICES ASSUME NEW j \in table, lastCleanup # 0, ~Pendings!IsActive(pendings'[j])
               PROVE  \/ lastCleanup - pendings'[j].last <= CleanupTime
                      \/ pendings'[j].poll # 0 /\ lastCleanup - pendings'[j].poll <= CleanupTime
    BY DEF Pendings!NothingOldIsLeft, Pendings!IsActive
  <2>1. CASE j = i
    BY <1>1, <1>2, <2>1
  <2>2. CASE j # i
    <3>1. pendings'[j] = pendings[j]
      BY <1>1, <1>2, <2>2
    <3> QED
      BY <3>1 DEF PendInv, Pendings!NothingOldIsLeft
  <2> QED
    BY <2>1, <2>2
<1>5. \A j \in 1..MaxId : j >= nextId => pendings'[j].status = "PRE_BEGIN"
  BY <1>1, <1>2 DEF PendInv
<1>6. \A j \in 1..MaxId : pendings'[j].start <= clock
  BY <1>1, <1>2 DEF PendInv
<1> QED
  BY <1>3, <1>4, <1>5, <1>6 DEF PendInv

\* Some are polled, and the table is cleaned up or left.
LEMMA CleanedKeeps ==
  ASSUME PendInv, pendings' \in [1..MaxId -> PendingRecord],
         \A i \in 1..MaxId :
           /\ pendings'[i].status = pendings[i].status
           /\ pendings'[i].start = pendings[i].start /\ pendings'[i].last = pendings[i].last
           /\ pendings'[i].poll \in {pendings[i].poll, clock},
         table' \in SUBSET table,
         \/ lastCleanup' = lastCleanup
         \/ lastCleanup' = clock /\ \A i \in table' : ~Pendings!IsOld(pendings'[i], clock),
         nextId' = nextId, clock' = clock
  PROVE  PendInv'
<1>1. /\ pendings \in [1..MaxId -> PendingRecord]
      /\ nextId \in 1..(MaxId + 1) /\ table \in SUBSET (1..(nextId - 1))
      /\ lastCleanup \in 0..clock /\ clock \in 1..MaxClock /\ MaxClock \in Nat
      /\ CleanupTime \in Nat /\ \A j \in table : j \in 1..MaxId
  BY PendFacts, PendAssumed
<1>2. Pendings!TypeOK'
  <2>1. lastCleanup' \in 0..clock' /\ table' \in SUBSET (1..(nextId' - 1))
    BY <1>1
  <2> QED
    BY <1>1, <2>1 DEF Pendings!TypeOK, Pendings!Ids, PendingRecord
<1>3. Pendings!NothingOldIsLeft'
  <2> SUFFICES ASSUME NEW j \in table', lastCleanup' # 0, ~Pendings!IsActive(pendings'[j])
               PROVE  \/ lastCleanup' - pendings'[j].last <= CleanupTime
                      \/ pendings'[j].poll # 0 /\ lastCleanup' - pendings'[j].poll <= CleanupTime
    BY DEF Pendings!NothingOldIsLeft, Pendings!IsActive
  <2>1. /\ j \in table /\ j \in 1..MaxId
        /\ pendings'[j] \in PendingRecord /\ pendings[j] \in PendingRecord
    BY <1>1
  <2>2. /\ pendings'[j].last \in Int /\ pendings'[j].poll \in Int /\ pendings[j].poll \in Int
    BY <2>1 DEF PendingRecord
  <2>3. CASE lastCleanup' = lastCleanup
    <3>1. \/ lastCleanup - pendings[j].last <= CleanupTime
          \/ pendings[j].poll # 0 /\ lastCleanup - pendings[j].poll <= CleanupTime
      <4>1. ~Pendings!IsActive(pendings[j])
        BY <2>1 DEF Pendings!IsActive
      <4> QED
        BY <2>1, <2>3, <4>1 DEF PendInv, Pendings!NothingOldIsLeft
    <3>2. CASE pendings'[j].poll = clock
      BY <1>1, <2>3, <3>2
    <3>3. CASE pendings'[j].poll = pendings[j].poll
      BY <2>1, <2>3, <3>1, <3>3
    <3> QED
      BY <2>1, <3>2, <3>3
  <2>4. CASE lastCleanup' = clock /\ ~Pendings!IsOld(pendings'[j], clock)
    BY <1>1, <2>2, <2>4 DEF Pendings!IsOld
  <2> QED
    BY <2>3, <2>4
<1>4. /\ \A j \in 1..MaxId : j >= nextId' => pendings'[j].status = "PRE_BEGIN"
      /\ \A j \in 1..MaxId : pendings'[j].start <= clock'
  BY DEF PendInv
<1> QED
  BY <1>2, <1>3, <1>4 DEF PendInv

\* rc_pending_cleanup takes none away but old ones.
LEMMA CleanupTakes ==
  ASSUME NEW ps, NEW ids, Pendings!Cleanup(ps, ids)
  PROVE  /\ table' \in SUBSET ids
         /\ \/ lastCleanup' = lastCleanup
            \/ lastCleanup' = clock /\ \A i \in table' : ~Pendings!IsOld(ps[i], clock)
         /\ \A i \in ids \ table' : Pendings!IsOld(ps[i], clock)
BY DEF Pendings!Cleanup

\* A look at a pending, as of the table that is cleaned up then.
LEMMA LookedUp ==
  ASSUME PendInv, NEW i \in 1..MaxId, Pendings!Lookup(i)
  PROVE  /\ pendings' \in [1..MaxId -> PendingRecord]
         /\ \A j \in 1..MaxId :
              /\ pendings'[j].status = pendings[j].status
              /\ pendings'[j].start = pendings[j].start /\ pendings'[j].last = pendings[j].last
              /\ pendings'[j].poll \in {pendings[j].poll, clock}
         /\ Pendings!Cleanup(pendings', table)
         /\ nextId' = nextId /\ clock' = clock
<1>1. /\ pendings \in [1..MaxId -> PendingRecord] /\ clock \in 0..MaxClock
  BY PendFacts, PendAssumed
<1> DEFINE polled == [pendings[i] EXCEPT !.poll = clock]
<1>2. pendings[i] \in PendingRecord
  BY <1>1
<1>3. /\ polled \in PendingRecord /\ polled.status = pendings[i].status
      /\ polled.start = pendings[i].start /\ polled.last = pendings[i].last
      /\ polled.poll = clock
  BY <1>1, <1>2 DEF PendingRecord
<1> HIDE DEF polled
<1>4. pendings' = pendings \/ pendings' = [pendings EXCEPT ![i] = polled]
  <2>1. CASE i \in table
    <3>1. pendings' = [pendings EXCEPT ![i].poll = clock]
      BY <2>1 DEF Pendings!Lookup
    <3> QED
      BY <3>1, Zenon DEF polled
  <2>2. CASE i \notin table
    BY <2>2 DEF Pendings!Lookup
  <2> QED
    BY <2>1, <2>2
<1>5. \A j \in 1..MaxId : pendings'[j] = pendings[j] \/ (j = i /\ pendings'[j] = polled)
  <2>1. CASE pendings' = pendings
    BY <2>1
  <2>2. CASE pendings' = [pendings EXCEPT ![i] = polled]
    BY <1>1, <2>2
  <2> QED
    BY <1>4, <2>1, <2>2
<1>6. pendings' \in [1..MaxId -> PendingRecord]
  BY <1>1, <1>3, <1>4
<1>7. Pendings!Cleanup(pendings', table) /\ nextId' = nextId /\ clock' = clock
  BY DEF Pendings!Lookup
<1>8. ASSUME NEW j \in 1..MaxId
      PROVE  /\ pendings'[j].status = pendings[j].status
             /\ pendings'[j].start = pendings[j].start /\ pendings'[j].last = pendings[j].last
             /\ pendings'[j].poll \in {pendings[j].poll, clock}
  <2>1. CASE pendings'[j] = pendings[j]
    BY <2>1
  <2>2. CASE j = i /\ pendings'[j] = polled
    BY <1>3, <2>2
  <2> QED
    BY <1>5, <2>1, <2>2
<1> QED
  BY <1>6, <1>7, <1>8

\* All that are active are polled, of the table as it is after it was cleaned up.
LEMMA AllPolled ==
  ASSUME PendInv, Pendings!GetAllActiveIds
  PROVE  /\ pendings' \in [1..MaxId -> PendingRecord]
         /\ \A j \in 1..MaxId :
              /\ pendings'[j].status = pendings[j].status
              /\ pendings'[j].start = pendings[j].start /\ pendings'[j].last = pendings[j].last
              /\ pendings'[j].poll \in {pendings[j].poll, clock}
              /\ ~Pendings!IsActive(pendings[j]) \/ j \notin table' => pendings'[j] = pendings[j]
         /\ Pendings!Cleanup(pendings, table)
         /\ nextId' = nextId /\ clock' = clock
<1>1. /\ pendings \in [1..MaxId -> PendingRecord] /\ clock \in 0..MaxClock
  BY PendFacts, PendAssumed
<1>2. /\ pendings' = [j \in 1..MaxId |->
                        IF j \in table' /\ Pendings!IsActive(pendings[j])
                        THEN [pendings[j] EXCEPT !.poll = clock] ELSE pendings[j]]
      /\ Pendings!Cleanup(pendings, table) /\ nextId' = nextId /\ clock' = clock
  BY DEF Pendings!GetAllActiveIds, Pendings!Ids
<1>3. ASSUME NEW j \in 1..MaxId
      PROVE  /\ pendings'[j] \in PendingRecord
             /\ pendings'[j].status = pendings[j].status
             /\ pendings'[j].start = pendings[j].start /\ pendings'[j].last = pendings[j].last
             /\ pendings'[j].poll \in {pendings[j].poll, clock}
             /\ ~Pendings!IsActive(pendings[j]) \/ j \notin table' => pendings'[j] = pendings[j]
  <2> DEFINE polled == [pendings[j] EXCEPT !.poll = clock]
  <2>1. pendings[j] \in PendingRecord
    BY <1>1
  <2>2. /\ polled \in PendingRecord /\ polled.status = pendings[j].status
        /\ polled.start = pendings[j].start /\ polled.last = pendings[j].last
        /\ polled.poll = clock
    BY <1>1, <2>1 DEF PendingRecord
  <2>3. pendings'[j] = IF j \in table' /\ Pendings!IsActive(pendings[j]) THEN polled ELSE pendings[j]
    BY <1>2
  <2> HIDE DEF polled
  <2>4. CASE j \in table' /\ Pendings!IsActive(pendings[j])
    BY <2>2, <2>3, <2>4
  <2>5. CASE ~(j \in table' /\ Pendings!IsActive(pendings[j]))
    BY <2>1, <2>3, <2>5
  <2> QED
    BY <2>4, <2>5
<1>4. pendings' \in [1..MaxId -> PendingRecord]
  BY <1>2, <1>3
<1> QED
  BY <1>2, <1>3, <1>4

LEMMA LookupKeeps == ASSUME PendInv, NEW i \in 1..MaxId, Pendings!Lookup(i) PROVE PendInv'
BY LookedUp, CleanupTakes, CleanedKeeps

LEMMA GetAllKeeps == ASSUME PendInv, Pendings!GetAllActiveIds PROVE PendInv'
<1>1. /\ pendings' \in [1..MaxId -> PendingRecord]
      /\ \A j \in 1..MaxId :
           /\ pendings'[j].status = pendings[j].status
           /\ pendings'[j].start = pendings[j].start /\ pendings'[j].last = pendings[j].last
           /\ pendings'[j].poll \in {pendings[j].poll, clock}
           /\ ~Pendings!IsActive(pendings[j]) => pendings'[j] = pendings[j]
      /\ nextId' = nextId /\ clock' = clock
  BY AllPolled
<1>2. /\ table' \in SUBSET table
      /\ \/ lastCleanup' = lastCleanup
         \/ lastCleanup' = clock /\ \A i \in table' : ~Pendings!IsOld(pendings[i], clock)
  BY AllPolled, CleanupTakes
<1>3. \A i \in table' : i \in 1..MaxId
  BY <1>2, PendFacts
<1>4. ASSUME NEW i \in table', ~Pendings!IsOld(pendings[i], clock)
      PROVE  ~Pendings!IsOld(pendings'[i], clock)
  <2>1. CASE Pendings!IsActive(pendings[i])
    BY <1>1, <1>3, <2>1 DEF Pendings!IsOld, Pendings!IsActive
  <2>2. CASE ~Pendings!IsActive(pendings[i])
    <3>1. pendings'[i] = pendings[i]
      BY <1>1, <1>3, <2>2
    <3> QED
      BY <1>4, <3>1
  <2> QED
    BY <2>1, <2>2
<1>5. lastCleanup' = clock /\ (\A i \in table' : ~Pendings!IsOld(pendings[i], clock)) =>
        \A i \in table' : ~Pendings!IsOld(pendings'[i], clock)
  BY <1>4
<1> QED
  BY <1>1, <1>2, <1>5, CleanedKeeps

LEMMA NewKeeps == ASSUME PendInv, Pendings!New PROVE PendInv'
<1>1. /\ pendings \in [1..MaxId -> PendingRecord]
      /\ nextId \in 1..(MaxId + 1) /\ table \in SUBSET (1..(nextId - 1))
      /\ lastCleanup \in 0..clock /\ clock \in 1..MaxClock /\ MaxClock \in Nat /\ MaxId \in Nat
      /\ CleanupTime \in Nat /\ \A j \in table : j \in 1..MaxId /\ j < nextId
  BY PendFacts, PendAssumed
<1>2. /\ nextId <= MaxId /\ nextId' = nextId + 1 /\ pendings' = pendings /\ clock' = clock
      /\ nextId \in 1..MaxId
  BY <1>1 DEF Pendings!New
<1>3. /\ table' \in SUBSET (table \cup {nextId})
      /\ \/ lastCleanup' = lastCleanup
         \/ /\ lastCleanup' = clock
            /\ \A j \in table' : j = nextId \/ ~Pendings!IsOld(pendings[j], clock)
  BY DEF Pendings!New
<1>4. Pendings!TypeOK'
  <2>1. \A j \in table' : j \in 1..(nextId' - 1)
    BY <1>1, <1>2, <1>3
  <2>2. lastCleanup' \in 0..clock'
    BY <1>1, <1>2, <1>3
  <2>3. nextId' \in 1..(MaxId + 1)
    BY <1>1, <1>2
  <2> QED
    BY <1>1, <1>2, <2>1, <2>2, <2>3 DEF Pendings!TypeOK, Pendings!Ids, PendingRecord
<1>5. Pendings!NothingOldIsLeft'
  <2> SUFFICES ASSUME NEW j \in table', lastCleanup' # 0, ~Pendings!IsActive(pendings[j])
               PROVE  \/ lastCleanup' - pendings[j].last <= CleanupTime
                      \/ pendings[j].poll # 0 /\ lastCleanup' - pendings[j].poll <= CleanupTime
    BY <1>2 DEF Pendings!NothingOldIsLeft, Pendings!IsActive
  <2>1. pendings[nextId].status = "PRE_BEGIN"
    BY <1>1, <1>2 DEF PendInv
  <2>2. j # nextId
    BY <2>1 DEF Pendings!IsActive
  <2>3. j \in table /\ j \in 1..MaxId /\ pendings[j] \in PendingRecord
    BY <1>1, <1>3, <2>2
  <2>4. pendings[j].last \in Int /\ pendings[j].poll \in Int
    BY <2>3 DEF PendingRecord
  <2>5. CASE lastCleanup' = lastCleanup
    BY <2>3, <2>5 DEF PendInv, Pendings!NothingOldIsLeft
  <2>6. CASE lastCleanup' = clock /\ ~Pendings!IsOld(pendings[j], clock)
    BY <1>1, <2>4, <2>6 DEF Pendings!IsOld
  <2> QED
    BY <1>3, <2>2, <2>5, <2>6
<1>6. \A j \in 1..MaxId : j >= nextId' => pendings'[j].status = "PRE_BEGIN"
  BY <1>1, <1>2 DEF PendInv
<1>7. \A j \in 1..MaxId : pendings'[j].start <= clock'
  BY <1>2 DEF PendInv
<1> QED
  BY <1>4, <1>5, <1>6, <1>7 DEF PendInv

LEMMA TickKeeps == ASSUME PendInv, Pendings!Tick PROVE PendInv'
<1>1. /\ clock < MaxClock /\ clock' = clock + 1 /\ pendings' = pendings /\ table' = table
      /\ nextId' = nextId /\ lastCleanup' = lastCleanup
  BY DEF Pendings!Tick
<1>2. /\ pendings \in [1..MaxId -> PendingRecord] /\ MaxClock \in Nat
      /\ lastCleanup \in 0..clock /\ clock \in 1..MaxClock
  BY PendFacts, PendAssumed
<1>3. lastCleanup' \in 0..clock' /\ clock' \in 1..MaxClock
  BY <1>1, <1>2
<1>4. Pendings!TypeOK'
  BY <1>1, <1>3 DEF PendInv, Pendings!TypeOK, Pendings!Ids
<1>5. Pendings!NothingOldIsLeft'
  BY <1>1 DEF PendInv, Pendings!NothingOldIsLeft, Pendings!IsActive
<1>6. \A j \in 1..MaxId : pendings'[j].start <= clock'
  <2>1. \A j \in 1..MaxId : pendings[j].start \in Int /\ pendings[j].start <= clock
    BY <1>2 DEF PendInv, PendingRecord
  <2> QED
    BY <1>1, <1>2, <2>1
<1>7. \A j \in 1..MaxId : j >= nextId' => pendings'[j].status = "PRE_BEGIN"
  BY <1>1 DEF PendInv
<1> QED
  BY <1>4, <1>5, <1>6, <1>7 DEF PendInv

\* What is reported by size is a percentage.
LEMMA PercentType ==
  ASSUME NEW size, size[2] \in Nat, size[1] \in 0..size[2]
  PROVE  Pendings!PercentOf(size) \in 0..100
<1>1. CASE size[2] > 0
  <2> DEFINE a == size[1]
             b == size[2]
             q == (100 * a) \div b
  <2>1. a \in Nat /\ b \in Nat /\ b > 0 /\ a <= b
    BY <1>1
  <2> HIDE DEF a, b
  <2>2. q \in Int /\ b * q <= 100 * a /\ 100 * a < b * (q + 1)
    BY <2>1
  <2> HIDE DEF q
  <2>3. q <= 100
    <3>1. SUFFICES ASSUME q >= 101 PROVE FALSE
      BY <2>2
    <3>2. b * q >= b * 101
      BY <2>1, <2>2, <3>1
    <3> QED
      BY <2>1, <2>2, <3>2
  <2>4. q >= 0
    <3>1. SUFFICES ASSUME q + 1 <= 0 PROVE FALSE
      BY <2>2
    <3>2. b * (q + 1) <= 0
      BY <2>1, <2>2, <3>1
    <3> QED
      BY <2>1, <2>2, <3>2
  <2>5. Pendings!PercentOf(size) = q
    BY <1>1, Zenon DEF Pendings!PercentOf, q, a, b
  <2> QED
    BY <2>2, <2>3, <2>4, <2>5
<1>2. CASE ~(size[2] > 0)
  BY <1>2 DEF Pendings!PercentOf
<1> QED
  BY <1>1, <1>2

LEMMA OwnerKeeps ==
  ASSUME PendInv, NEW i \in 1..MaxId,
         \/ Pendings!Begin(i) \/ Pendings!Update(i) \/ Pendings!UpdateBySize(i)
         \/ \E status \in {"FINISHED", "ABORTED", "FAILED"} : Pendings!Complete(i, status)
  PROVE  PendInv'
<1>1. /\ pendings[i] \in PendingRecord /\ clock \in 0..MaxClock /\ clock \in Int
      /\ pendings[i].start <= clock
  BY PendFacts, PendAssumed DEF PendInv
<1>2. ASSUME NEW p \in PendingRecord, p.start <= clock, Pendings!IsActive(p) \/ p.last = clock,
             NEW status, Pendings!Own(i, status, p)
      PROVE  PendInv'
  BY <1>2, OwnKeeps DEF Pendings!Own
<1>3. CASE Pendings!Begin(i)
  <2> DEFINE p == [pendings[i] EXCEPT !.status = "RUNNING", !.start = clock, !.last = clock,
                                      !.percent = 0]
  <2>1. p \in PendingRecord /\ p.start <= clock /\ p.last = clock
    <3> DEFINE begun == [pendings[i] EXCEPT !.status = "RUNNING", !.start = clock]
    <3>1. begun \in PendingRecord /\ begun.start = clock
      BY <1>1 DEF PendingRecord
    <3>2. p = [begun EXCEPT !.last = clock, !.percent = 0]
      BY Zenon
    <3> HIDE DEF p, begun
    <3>3. p \in PendingRecord
      <4>1. ASSUME NEW percent \in 0..100
            PROVE  [begun EXCEPT !.last = clock, !.percent = percent] \in PendingRecord
        BY <1>1, <3>1 DEF PendingRecord
      <4> QED
        BY <3>2, <4>1
    <3>4. p.start = begun.start /\ p.last = clock
      BY <3>1, <3>2 DEF PendingRecord
    <3> QED
      BY <1>1, <3>1, <3>3, <3>4
  <2>2. Pendings!Own(i, "PRE_BEGIN", p)
    BY <1>3 DEF Pendings!Begin
  <2> HIDE DEF p
  <2> QED
    BY <1>2, <2>1, <2>2
<1>4. ASSUME NEW percent \in 0..100, Pendings!Own(i, "RUNNING",
               [pendings[i] EXCEPT !.last = clock, !.percent = percent])
      PROVE  PendInv'
  <2> DEFINE p == [pendings[i] EXCEPT !.last = clock, !.percent = percent]
  <2>1. p \in PendingRecord /\ p.start <= clock /\ p.last = clock
    BY <1>1 DEF PendingRecord
  <2>2. Pendings!Own(i, "RUNNING", p)
    BY <1>4
  <2> HIDE DEF p
  <2> QED
    BY <1>2, <2>1, <2>2
<1>5. CASE Pendings!Update(i)
  BY <1>4, <1>5, PendAssumed DEF Pendings!Update
<1>6. CASE Pendings!UpdateBySize(i)
  <2>1. PICK size \in Sizes :
          Pendings!Own(i, "RUNNING",
            [pendings[i] EXCEPT !.last = clock, !.percent = Pendings!PercentOf(size)])
    BY <1>6 DEF Pendings!UpdateBySize
  <2>2. Pendings!PercentOf(size) \in 0..100
    BY PendAssumed, PercentType
  <2> QED
    BY <1>4, <2>1, <2>2
<1>7. ASSUME NEW status \in {"FINISHED", "ABORTED", "FAILED"}, Pendings!Complete(i, status)
      PROVE  PendInv'
  <2> DEFINE p == [pendings[i] EXCEPT !.last = clock, !.status = status]
  <2>1. p \in PendingRecord /\ p.start <= clock /\ p.last = clock
    BY <1>1 DEF PendingRecord
  <2>2. Pendings!Own(i, "RUNNING", p)
    BY <1>7 DEF Pendings!Complete
  <2> HIDE DEF p
  <2> QED
    BY <1>2, <2>1, <2>2
<1> QED
  BY <1>3, <1>5, <1>6, <1>7

LEMMA PendKept == ASSUME PendInv, [Pendings!Next]_pendVars PROVE PendInv'
<1>1. CASE Pendings!Next
  BY <1>1, NewKeeps, GetAllKeeps, TickKeeps, LookupKeeps, OwnerKeeps
     DEF Pendings!Next, Pendings!Ids
<1>2. CASE UNCHANGED pendVars
  <2>1. /\ pendings' = pendings /\ table' = table /\ nextId' = nextId
        /\ lastCleanup' = lastCleanup /\ clock' = clock
    BY <1>2 DEF pendVars
  <2>2. Pendings!TypeOK' /\ Pendings!NothingOldIsLeft'
    BY <2>1 DEF PendInv, Pendings!TypeOK, Pendings!NothingOldIsLeft, Pendings!IsActive
  <2> QED
    BY <2>1, <2>2 DEF PendInv
<1> QED
  BY <1>1, <1>2

\* What goes from the table is old.
LEMMA TakenIsOld ==
  ASSUME PendInv, [Pendings!Next]_pendVars, NEW i \in table \ table'
  PROVE  /\ ~Pendings!IsActive(pendings[i])
         /\ clock - pendings[i].last > CleanupTime
         /\ pendings'[i].poll = 0 \/ clock - pendings'[i].poll > CleanupTime
<1>1. i \in 1..MaxId
  BY PendFacts
<1>2. CASE Pendings!New
  BY <1>2 DEF Pendings!New, Pendings!IsOld, Pendings!IsActive
<1>3. ASSUME NEW j \in 1..MaxId, Pendings!Lookup(j)
      PROVE  /\ ~Pendings!IsActive(pendings[i])
             /\ clock - pendings[i].last > CleanupTime
             /\ pendings'[i].poll = 0 \/ clock - pendings'[i].poll > CleanupTime
  <2>1. Pendings!IsOld(pendings'[i], clock)
    <3>1. Pendings!Cleanup(pendings', table)
      BY <1>3, LookedUp
    <3> QED
      BY <3>1, CleanupTakes
  <2>2. pendings'[i].status = pendings[i].status /\ pendings'[i].last = pendings[i].last
    BY <1>1, <1>3, LookedUp
  <2> QED
    BY <2>1, <2>2 DEF Pendings!IsOld, Pendings!IsActive
<1>4. CASE Pendings!GetAllActiveIds
  <2>1. Pendings!IsOld(pendings[i], clock)
    <3>1. Pendings!Cleanup(pendings, table)
      BY <1>4, AllPolled
    <3> QED
      BY <3>1, CleanupTakes
  <2>2. pendings'[i] = pendings[i]
    BY <1>1, <1>4, AllPolled
  <2> QED
    BY <2>1, <2>2 DEF Pendings!IsOld, Pendings!IsActive
<1>5. ASSUME table' = table PROVE FALSE
  BY <1>5
<1>6. CASE Pendings!Tick
  BY <1>5, <1>6 DEF Pendings!Tick
<1>7. CASE UNCHANGED pendVars
  BY <1>5, <1>7 DEF pendVars
<1>8. ASSUME NEW j \in 1..MaxId,
             \/ Pendings!Begin(j) \/ Pendings!Update(j) \/ Pendings!UpdateBySize(j)
             \/ \E status \in {"FINISHED", "ABORTED", "FAILED"} : Pendings!Complete(j, status)
      PROVE  FALSE
  BY <1>5, <1>8 DEF Pendings!Begin, Pendings!Update, Pendings!UpdateBySize, Pendings!Complete,
     Pendings!Own
<1> QED
  BY <1>2, <1>3, <1>4, <1>6, <1>7, <1>8 DEF Pendings!Next, Pendings!Ids

\* What remains of a pending, without a report, becomes less.
LEMMA RemainsLess ==
  ASSUME PendInv, [Pendings!Next]_pendVars, pendings' = pendings, NEW i \in 1..MaxId
  PROVE  Pendings!RemainingSecs(pendings[i])' <= Pendings!RemainingSecs(pendings[i])
<1> DEFINE p == pendings[i]
           expected == Pendings!ExpectedSecs(p)
           elapsed == Pendings!ElapsedSecs(p)
<1>1. clock \in Int /\ clock' \in Int /\ clock <= clock'
  <2>1. clock \in Int
    BY PendFacts, PendAssumed
  <2>2. clock' = clock \/ clock' = clock + 1
    BY DEF Pendings!Next, Pendings!New, Pendings!GetAllActiveIds, Pendings!Tick,
       Pendings!Lookup, Pendings!Begin, Pendings!Update, Pendings!UpdateBySize,
       Pendings!Complete, Pendings!Own, pendVars
  <2> QED
    BY <2>1, <2>2
<1>2. /\ p.start \in Nat /\ p.last \in Nat /\ p.percent \in Nat
      /\ p.start <= clock
  <2>1. p \in PendingRecord /\ MaxClock \in Nat
    BY PendFacts, PendAssumed
  <2>2. p.start <= clock
    BY DEF PendInv
  <2>3. p.start \in 0..MaxClock /\ p.last \in 0..MaxClock /\ p.percent \in 0..100
    BY <2>1 DEF PendingRecord
  <2> HIDE DEF p
  <2> QED
    BY <2>1, <2>2, <2>3
<1>3. expected \in Int
  BY <1>2 DEF Pendings!ExpectedSecs
<1>4. /\ Pendings!ExpectedSecs(p)' = expected
      /\ pendings'[i] = p
  BY DEF Pendings!ExpectedSecs
<1>5. /\ elapsed \in Int /\ Pendings!ElapsedSecs(p)' \in Int
      /\ elapsed <= Pendings!ElapsedSecs(p)'
      /\ (p.status = "RUNNING" \/ p.start = 0) /\ Pendings!ElapsedSecs(p)' >= 0 => elapsed >= 0
      /\ p.status # "RUNNING" => Pendings!ElapsedSecs(p)' = elapsed
  BY <1>1, <1>2 DEF Pendings!ElapsedSecs
<1> QED
  BY <1>3, <1>4, <1>5 DEF Pendings!RemainingSecs

\* A pending is only cleaned up when it has ended and nobody has asked for it for long, no
\* old one outlives a clean-up, and what remains of one becomes less between two reports
\* (rc_pending_cleanup, rc_pending_get_remaining_secs).
THEOREM PendingsAreAlwaysCleaned == AllSpec => PendingsAreCleaned
<1>1. AllInit => PendInv
  BY PendInvInit DEF AllInit
<1>2. ASSUME [AllNext]_allVars PROVE [Pendings!Next]_pendVars
  BY <1>2 DEF AllNext, allVars
<1>3. PendInv /\ [AllNext]_allVars => PendInv'
  BY <1>2, PendKept
<1>4. PendInv => Pendings!TypeOK /\ Pendings!NothingOldIsLeft
  BY DEF PendInv
<1>5. PendInv /\ [AllNext]_allVars =>
        [\A i \in table \ table' :
           /\ ~Pendings!IsActive(pendings[i])
           /\ clock - pendings[i].last > CleanupTime
           /\ pendings'[i].poll = 0 \/ clock - pendings'[i].poll > CleanupTime]_(Pendings!vars)
  BY <1>2, TakenIsOld
<1>6. PendInv /\ [AllNext]_allVars =>
        [pendings' = pendings =>
           \A i \in Pendings!Ids :
             Pendings!RemainingSecs(pendings[i])' <= Pendings!RemainingSecs(pendings[i])]_(Pendings!vars)
  BY <1>2, RemainsLess DEF Pendings!Ids
<1> QED
  BY <1>1, <1>3, <1>4, <1>5, <1>6, PTL
     DEF AllSpec, allVars, PendingsAreCleaned, Pendings!CleanedWhenForgotten, Pendings!EstimateFalls

-----------------------------------------------------------------------------
(* Subscriptions *)

SubsChannels == {"c1", "c2"}

NoFile == {ABSENT, MALFORMED}

SubsState == [file : NoFile \cup Seq(Subs!Entries), list : Seq(Subs!Entries),
              changed : BOOLEAN, tried : BOOLEAN]

\* When there is nothing to save, the file tells what the list does.
Saved(s) ==
  ~s.changed /\ s.list # <<>> =>
    /\ s.file \notin NoFile
    /\ Range(s.file) \subseteq Range(s.list)
    /\ \A e \in Range(s.list) \ Range(s.file) : e.old /\ now - e.seen > 1

Good(s) == s \in SubsState /\ Saved(s)

LEMMA SubsAssumed ==
  /\ UNKNOWN \notin BOOLEAN
  /\ \A f \in NewFiles \ NoFile : f \in Seq(Subs!Entries)
  /\ NoFile \cap Seq(Subs!Entries) = {}
  BY PartsAssumption DEF Subs!SubscriptionAssumption, NoFile

LEMMA SubsKept == ASSUME NEW s, NEW A PROVE Subs!Kept(s, A) = Kept(s, A)
  BY DEF Subs!Kept, Kept, Subs!Cardinality, Cardinality

\* What is turned round has the same elements.
LEMMA ReverseRange ==
  ASSUME NEW S, NEW s \in Seq(S)
  PROVE  /\ Reverse(s) \in Seq(S) /\ Len(Reverse(s)) = Len(s)
         /\ Range(Reverse(s)) = Range(s)
         /\ Once(s) => Once(Reverse(s))
<1> DEFINE n == Len(s)
           r == Reverse(s)
<1>1. n \in Nat /\ r \in Seq(S) /\ Len(r) = n /\ \A i \in 1..n : r[i] = s[n - i + 1]
  BY DEF Reverse
<1>2. DOMAIN s = 1..n /\ DOMAIN r = 1..n
  BY <1>1
<1> HIDE DEF n, r
<1>3. \A i \in 1..n : n - i + 1 \in 1..n /\ n - (n - i + 1) + 1 = i
  BY <1>1
<1>4. ASSUME NEW i \in 1..n PROVE s[i] \in Range(r) /\ r[i] \in Range(s)
  <2>1. r[n - i + 1] = s[i] /\ r[i] = s[n - i + 1]
    BY <1>1, <1>3
  <2> QED
    BY <1>2, <1>3, <2>1 DEF Range
<1>5. Range(r) = Range(s)
  BY <1>2, <1>4 DEF Range
<1>6. ASSUME Once(s), NEW i \in 1..n, NEW j \in 1..n, r[i] = r[j] PROVE i = j
  <2>1. s[n - i + 1] = s[n - j + 1]
    BY <1>1, <1>6
  <2>2. n - i + 1 = n - j + 1
    BY <1>3, <1>6, <2>1 DEF Once, n
  <2> QED
    BY <1>1, <2>2
<1>7. Once(s) => Once(r)
  BY <1>1, <1>6 DEF Once
<1> QED
  BY <1>1, <1>5, <1>7 DEF n, r

LEMMA SaveKeeps ==
  ASSUME now \in Nat, NEW s \in SubsState, NEW ok \in BOOLEAN
  PROVE  /\ Subs!Save(s, ok) \in SubsState /\ Subs!Save(s, ok).list = s.list
         /\ s.changed /\ ok =>
              /\ Subs!Save(s, ok).file = Kept(s.list, Subs!Current)
              /\ Subs!Save(s, ok).changed = FALSE
         /\ ~(s.changed /\ ok) => Subs!Save(s, ok) = s
         /\ Saved(s) => Saved(Subs!Save(s, ok))
<1>1. CASE ~(s.changed /\ ok)
  BY <1>1 DEF Subs!Save
<1>2. CASE s.changed /\ ok
  <2> DEFINE t == Subs!Save(s, ok)
             f == Kept(s.list, Subs!Current)
  <2>1. t = [s EXCEPT !.file = f, !.changed = FALSE]
    BY <1>2, SubsKept DEF Subs!Save
  <2>2. s.list \in Seq(Subs!Entries)
    BY DEF SubsState
  <2>3. f \in Seq(Subs!Entries) /\ Range(f) = Range(s.list) \cap Subs!Current
    BY <2>2, KeptType
  <2> HIDE DEF f
  <2>4. t \in SubsState /\ t.list = s.list /\ t.file = f /\ t.changed = FALSE
    BY <2>1, <2>3 DEF SubsState
  <2>5. f \notin NoFile
    BY <2>3, SubsAssumed
  <2>6. ASSUME NEW e \in Range(s.list) \ Range(f) PROVE e.old /\ now - e.seen > 1
    <3>1. e \in Subs!Entries
      BY <2>2, <2>6 DEF Range
    <3>2. e \notin Subs!Current
      BY <2>3, <2>6
    <3>3. CASE e \in [id : {"c1", "c2"}, old : {FALSE}, seen : {0}]
      BY <3>2, <3>3 DEF Subs!Current, Subs!Entries
    <3>4. CASE e \in [id : {"o1", "o2"}, old : {TRUE}, seen : 0..3]
      <4>1. e.seen \in Nat /\ ~(now - e.seen <= 1) /\ e.old
        BY <3>1, <3>2, <3>4 DEF Subs!Current
      <4> QED
        BY <4>1
    <3> QED
      BY <3>1, <3>3, <3>4 DEF Subs!Entries
  <2>7. Saved(t)
    BY <2>3, <2>4, <2>5, <2>6 DEF Saved
  <2> QED
    BY <1>2, <2>4, <2>7 DEF f
<1> QED
  BY <1>1, <1>2

\* What is added to a list that is not empty keeps its type.
LEMMA LoadOldKeeps ==
  ASSUME now \in 0..3, oldFile \in NoFile \cup Seq({"o1", "o2"}),
         NEW s \in SubsState, Saved(s), NEW ok \in BOOLEAN
  PROVE  /\ Subs!LoadOld(s, ok) \in SubsState /\ Saved(Subs!LoadOld(s, ok))
         /\ oldFile = ABSENT => Subs!LoadOld(s, ok) = [s EXCEPT !.tried = TRUE]
<1>1. CASE s.tried \/ oldFile \in NoFile
  <2>1. Subs!LoadOld(s, ok) = [s EXCEPT !.tried = TRUE]
    BY <1>1 DEF Subs!LoadOld, NoFile
  <2>2. [s EXCEPT !.tried = TRUE] \in SubsState /\ Saved([s EXCEPT !.tried = TRUE])
    BY DEF SubsState, Saved
  <2> QED
    BY <2>1, <2>2
<1>2. CASE ~(s.tried \/ oldFile \in NoFile)
  <2> DEFINE olds == [i \in DOMAIN oldFile |-> [id |-> oldFile[i], old |-> TRUE, seen |-> now]]
             more == Reverse(olds) \o s.list
             u == [s EXCEPT !.tried = TRUE, !.changed = TRUE, !.list = more]
  <2>1. oldFile \in Seq({"o1", "o2"})
    BY <1>2
  <2>2. olds \in Seq(Subs!Entries)
    <3>1. DOMAIN oldFile = 1..Len(oldFile) /\ Len(oldFile) \in Nat
      BY <2>1
    <3>2. ASSUME NEW i \in DOMAIN oldFile
          PROVE  [id |-> oldFile[i], old |-> TRUE, seen |-> now] \in Subs!Entries
      BY <2>1, <3>2 DEF Subs!Entries
    <3> QED
      BY <3>1, <3>2
  <2> HIDE DEF olds
  <2>3. s.list \in Seq(Subs!Entries) /\ more \in Seq(Subs!Entries)
    <3>1. Reverse(olds) \in Seq(Subs!Entries) /\ s.list \in Seq(Subs!Entries)
      BY <2>2, ReverseRange DEF SubsState
    <3> QED
      BY <3>1
  <2> HIDE DEF more
  <2>4. u \in SubsState /\ Saved(u)
    BY <2>3 DEF SubsState, Saved
  <2>5. Subs!LoadOld(s, ok) = Subs!Save(u, ok)
    BY <1>2 DEF Subs!LoadOld, NoFile, more, olds, Subs!Reverse, Reverse
  <2>6. now \in Nat /\ oldFile # ABSENT
    BY <1>2 DEF NoFile
  <2> HIDE DEF u
  <2>7. Subs!Save(u, ok) \in SubsState /\ Saved(Subs!Save(u, ok))
    BY <2>4, <2>6, SaveKeeps
  <2> QED
    BY <2>5, <2>6, <2>7
<1> QED
  BY <1>1, <1>2

LEMMA LoadKeeps ==
  ASSUME now \in 0..3, oldFile \in NoFile \cup Seq({"o1", "o2"}),
         NEW s \in SubsState, Saved(s), s.list = <<>>, NEW ok \in BOOLEAN
  PROVE  /\ Subs!Load(s, ok) \in SubsState /\ Saved(Subs!Load(s, ok))
         /\ oldFile = ABSENT =>
              /\ Subs!Load(s, ok).file = s.file /\ Subs!Load(s, ok).changed = s.changed
              /\ Subs!Load(s, ok).list = IF s.file \in NoFile THEN <<>> ELSE Reverse(s.file)
<1>1. CASE s.file = ABSENT
  <2>1. Subs!Load(s, ok) = Subs!LoadOld(s, ok)
    BY <1>1 DEF Subs!Load
  <2>2. /\ Subs!LoadOld(s, ok) \in SubsState /\ Saved(Subs!LoadOld(s, ok))
        /\ oldFile = ABSENT => Subs!LoadOld(s, ok) = [s EXCEPT !.tried = TRUE]
    BY LoadOldKeeps
  <2> QED
    BY <1>1, <2>1, <2>2 DEF NoFile, SubsState
<1>2. CASE s.file = MALFORMED /\ s.file # ABSENT
  <2>1. Subs!Load(s, ok) = s
    BY <1>2 DEF Subs!Load
  <2> QED
    BY <1>2, <2>1 DEF NoFile
<1>3. CASE s.file \notin NoFile
  <2> DEFINE back == Reverse(s.file)
  <2>1. s.file \in Seq(Subs!Entries)
    BY <1>3 DEF SubsState
  <2>2. back \in Seq(Subs!Entries) /\ Range(back) = Range(s.file)
    BY <2>1, ReverseRange
  <2>3. Subs!Load(s, ok) = [s EXCEPT !.list = back \o s.list]
    BY <1>3 DEF Subs!Load, NoFile, Subs!Reverse, Reverse
  <2> HIDE DEF back
  <2>4. back \o s.list = back
    BY <2>2
  <2>5. Subs!Load(s, ok) = [s EXCEPT !.list = back]
    BY <2>3, <2>4
  <2>6. Saved([s EXCEPT !.list = back]) /\ [s EXCEPT !.list = back] \in SubsState
    BY <1>3, <2>2 DEF Saved, SubsState
  <2> QED
    BY <1>3, <2>5, <2>6 DEF back, SubsState
<1> QED
  BY <1>1, <1>2, <1>3 DEF NoFile

\* The first entry that matches a channel.
LEMMA FirstMatches ==
  ASSUME NEW s \in SubsState, NEW c \in SubsChannels
  PROVE  LET first == Subs!FirstMatch(s, c)
         IN  IF \E i \in 1..Len(s.list) : Subs!Matches(s.list[i], c)
             THEN first \in 1..Len(s.list) /\ Subs!Matches(s.list[first], c)
             ELSE first = 0
<1> DEFINE T == {i \in 1..Len(s.list) : Subs!Matches(s.list[i], c)}
           first == Subs!FirstMatch(s, c)
<1>1. first = IF T # {} THEN CHOOSE x \in T : \A y \in T : x <= y ELSE 0
  BY DEF Subs!FirstMatch, Subs!SelectInSeq, Subs!Min
<1>2. Len(s.list) \in Nat
  BY DEF SubsState
<1> HIDE DEF first
<1>3. T \in SUBSET Nat
  BY <1>2
<1>4. CASE T # {}
  <2>1. \E x \in T : \A y \in T : x <= y
    BY <1>3, <1>4, SmallestExists
  <2>2. first \in T
    BY <1>1, <1>4, <2>1
  <2> QED
    BY <2>2 DEF first
<1>5. CASE T = {}
  BY <1>1, <1>5 DEF first
<1> QED
  BY <1>4, <1>5

LEMMA MatchKeeps ==
  ASSUME NEW s \in SubsState, Saved(s), NEW c \in SubsChannels, Subs!FirstMatch(s, c) # 0
  PROVE  /\ Subs!Match(s, c) \in SubsState /\ Saved(Subs!Match(s, c))
         /\ ~s.list[Subs!FirstMatch(s, c)].old => Subs!Match(s, c) = s
<1> DEFINE i == Subs!FirstMatch(s, c)
<1>1. i \in 1..Len(s.list)
  BY FirstMatches
<1>2. s.list \in Seq(Subs!Entries) /\ Subs!Entry(c) \in Subs!Entries
  BY DEF SubsState, SubsChannels, Subs!Entry, Subs!Entries
<1>3. Subs!Match(s, c) =
        IF s.list[i].old THEN [s EXCEPT !.list[i] = Subs!Entry(c), !.changed = TRUE] ELSE s
  BY DEF Subs!Match
<1> HIDE DEF i
<1>4. CASE s.list[i].old
  <2> DEFINE new == [s.list EXCEPT ![i] = Subs!Entry(c)]
             u == [s EXCEPT !.list = new, !.changed = TRUE]
  <2>1. new \in Seq(Subs!Entries)
    BY <1>1, <1>2
  <2>2. Subs!Match(s, c) = u
    BY <1>3, <1>4
  <2> HIDE DEF new
  <2>3. u \in SubsState /\ Saved(u)
    BY <2>1 DEF SubsState, Saved
  <2> QED
    BY <1>4, <2>2, <2>3 DEF i
<1>5. CASE ~s.list[i].old
  BY <1>3, <1>5
<1> QED
  BY <1>4, <1>5

\* What GetStatus and SetStatus begin with, and when a channel is subscribed.
Loaded(s, ok) == IF s.list = <<>> THEN Subs!Load(s, ok) ELSE s

LEMMA GetKeeps ==
  ASSUME now \in 0..3, oldFile \in NoFile \cup Seq({"o1", "o2"}),
         NEW s \in SubsState, Saved(s), NEW c \in SubsChannels, NEW ok \in BOOLEAN
  PROVE  /\ Loaded(s, ok) \in SubsState /\ Saved(Loaded(s, ok))
         /\ Subs!GetStatus(s, c, ok) =
              IF Subs!FirstMatch(Loaded(s, ok), c) # 0
              THEN [state |-> Subs!Match(Loaded(s, ok), c), subscribed |-> TRUE]
              ELSE [state |-> Subs!Save(Loaded(s, ok), ok), subscribed |-> FALSE]
         /\ Subs!GetStatus(s, c, ok).state \in SubsState
         /\ Saved(Subs!GetStatus(s, c, ok).state)
<1> DEFINE t == Loaded(s, ok)
<1>1. t \in SubsState /\ Saved(t)
  BY LoadKeeps DEF Loaded
<1>2. Subs!GetStatus(s, c, ok) =
        IF Subs!FirstMatch(t, c) # 0
        THEN [state |-> Subs!Match(t, c), subscribed |-> TRUE]
        ELSE [state |-> Subs!Save(t, ok), subscribed |-> FALSE]
  BY DEF Subs!GetStatus, Loaded
<1> HIDE DEF t
<1>3. CASE Subs!FirstMatch(t, c) # 0
  BY <1>1, <1>2, <1>3, MatchKeeps DEF t
<1>4. CASE Subs!FirstMatch(t, c) = 0
  <2>1. Subs!Save(t, ok) \in SubsState /\ Saved(Subs!Save(t, ok))
    <3>1. now \in Nat
      OBVIOUS
    <3> QED
      BY <1>1, <3>1, SaveKeeps
  <2> QED
    BY <1>1, <1>2, <1>4, <2>1 DEF t
<1> QED
  BY <1>3, <1>4

LEMMA SubsRemoveAt == ASSUME NEW s, NEW i PROVE Subs!RemoveAt(s, i) = RemoveAt(s, i)
  BY DEF Subs!RemoveAt, RemoveAt

\* What SetStatus saves.
Changing(s, c, subscribe, ok) ==
  LET got == Subs!GetStatus(s, c, ok)
      t   == got.state
  IN  IF got.subscribed /\ ~subscribe
      THEN [t EXCEPT !.list = RemoveAt(@, Subs!FirstMatch(t, c)), !.changed = TRUE]
      ELSE IF ~got.subscribed /\ subscribe
      THEN [t EXCEPT !.list = <<Subs!Entry(c)>> \o @, !.changed = TRUE]
      ELSE t

LEMMA SetChanges ==
  ASSUME NEW s, NEW c, NEW subscribe, NEW ok
  PROVE  Subs!SetStatus(s, c, subscribe, ok) = Subs!Save(Changing(s, c, subscribe, ok), ok)
  BY SubsRemoveAt DEF Subs!SetStatus, Changing

\* A channel that an entry was found for has one afterwards.
LEMMA MatchFinds ==
  ASSUME NEW s \in SubsState, NEW c \in SubsChannels, Subs!FirstMatch(s, c) # 0
  PROVE  Subs!FirstMatch(Subs!Match(s, c), c) \in 1..Len(Subs!Match(s, c).list)
<1> DEFINE i == Subs!FirstMatch(s, c)
           t == Subs!Match(s, c)
<1>1. i \in 1..Len(s.list) /\ Subs!Matches(s.list[i], c)
  BY FirstMatches
<1>2. t = IF s.list[i].old THEN [s EXCEPT !.list[i] = Subs!Entry(c), !.changed = TRUE] ELSE s
  BY DEF Subs!Match
<1>3. s.list \in Seq(Subs!Entries) /\ Subs!Entry(c) \in Subs!Entries
  BY DEF SubsState, SubsChannels, Subs!Entry, Subs!Entries
<1>4. t \in SubsState /\ i \in 1..Len(t.list) /\ Subs!Matches(t.list[i], c)
  <2> HIDE DEF i, t
  <2>1. CASE s.list[i].old
    <3> DEFINE new == [s.list EXCEPT ![i] = Subs!Entry(c)]
    <3>1. /\ new \in Seq(Subs!Entries) /\ Len(new) = Len(s.list) /\ new[i] = Subs!Entry(c)
      BY <1>1, <1>3
    <3>2. t = [s EXCEPT !.list = new, !.changed = TRUE]
      BY <1>2, <2>1
    <3> HIDE DEF new
    <3>3. Subs!Matches(Subs!Entry(c), c)
      BY DEF Subs!Matches, Subs!Entry
    <3>4. t \in SubsState /\ t.list = new
      BY <3>1, <3>2 DEF SubsState
    <3> QED
      BY <1>1, <3>1, <3>3, <3>4
  <2>2. CASE ~s.list[i].old
    BY <1>1, <1>2, <2>2
  <2> QED
    BY <2>1, <2>2
<1> HIDE DEF i, t
<1>5. Subs!FirstMatch(t, c) \in 1..Len(t.list)
  BY <1>4, FirstMatches
<1> QED
  BY <1>5 DEF t

LEMMA SetKeeps ==
  ASSUME now \in 0..3, oldFile \in NoFile \cup Seq({"o1", "o2"}),
         NEW s \in SubsState, Saved(s), NEW c \in SubsChannels,
         NEW subscribe \in BOOLEAN, NEW ok \in BOOLEAN
  PROVE  /\ Changing(s, c, subscribe, ok) \in SubsState
         /\ Subs!SetStatus(s, c, subscribe, ok) \in SubsState
         /\ Saved(Subs!SetStatus(s, c, subscribe, ok))
<1> DEFINE got == Subs!GetStatus(s, c, ok)
           t == got.state
           u == Changing(s, c, subscribe, ok)
<1>1. t \in SubsState /\ Saved(t)
  BY GetKeeps
<1>2. u = IF got.subscribed /\ ~subscribe
          THEN [t EXCEPT !.list = RemoveAt(@, Subs!FirstMatch(t, c)), !.changed = TRUE]
          ELSE IF ~got.subscribed /\ subscribe
          THEN [t EXCEPT !.list = <<Subs!Entry(c)>> \o @, !.changed = TRUE]
          ELSE t
  BY DEF Changing
<1>3. got.subscribed => Subs!FirstMatch(t, c) \in 1..Len(t.list)
  BY GetKeeps, MatchFinds
<1>4. t.list \in Seq(Subs!Entries) /\ Subs!Entry(c) \in Subs!Entries
  BY <1>1 DEF SubsState, SubsChannels, Subs!Entry, Subs!Entries
<1> HIDE DEF got, t, u
<1>5. u \in SubsState /\ Saved(u)
  <2>1. CASE got.subscribed /\ ~subscribe
    <3> DEFINE new == RemoveAt(t.list, Subs!FirstMatch(t, c))
    <3>1. new \in Seq(Subs!Entries)
      BY <1>3, <1>4, <2>1, RemovedAt
    <3>2. u = [t EXCEPT !.list = new, !.changed = TRUE]
      BY <1>2, <2>1
    <3> HIDE DEF new
    <3> QED
      BY <1>1, <3>1, <3>2 DEF SubsState, Saved
  <2>2. CASE ~got.subscribed /\ subscribe
    <3> DEFINE new == <<Subs!Entry(c)>> \o t.list
    <3>1. new \in Seq(Subs!Entries)
      BY <1>4
    <3>2. u = [t EXCEPT !.list = new, !.changed = TRUE]
      BY <1>2, <2>2
    <3> HIDE DEF new
    <3> QED
      BY <1>1, <3>1, <3>2 DEF SubsState, Saved
  <2>3. CASE u = t
    BY <1>1, <2>3
  <2> QED
    BY <1>2, <2>1, <2>2, <2>3
<1>6. now \in Nat
  OBVIOUS
<1>7. Subs!Save(u, ok) \in SubsState /\ Saved(Subs!Save(u, ok))
  BY <1>5, <1>6, SaveKeeps
<1> QED
  BY <1>5, <1>7, SetChanges DEF u

-----------------------------------------------------------------------------
(* Subscriptions without old entries, where each channel has one entry at most *)

PlainEntries == {Subs!Entry(c) : c \in SubsChannels}

OnlyNew(s) ==
  /\ s.list \in Seq(PlainEntries) /\ Once(s.list)
  /\ s.file \notin NoFile => s.file \in Seq(PlainEntries) /\ Once(s.file)

Says(l, c)     == Subs!Entry(c) \in Range(l)
FileSays(f, c) == f \notin NoFile /\ Says(f, c)

\* A status that the file tells, and the list, when it is loaded.
Keeps(s, c, v) == FileSays(s.file, c) = v /\ (s.list = <<>> \/ Says(s.list, c) = v)

LEMMA PlainEntry ==
  ASSUME NEW e \in PlainEntries, NEW c \in SubsChannels
  PROVE  /\ ~e.old /\ e \in Subs!Entries /\ e \in Subs!Current
         /\ Subs!Matches(e, c) <=> e = Subs!Entry(c)
<1>1. PICK d \in SubsChannels : e = Subs!Entry(d)
  BY DEF PlainEntries
<1>2. e = [id |-> d, old |-> FALSE, seen |-> 0]
  BY <1>1 DEF Subs!Entry
<1>3. e \in Subs!Entries /\ ~e.old
  BY <1>2 DEF Subs!Entries, SubsChannels
<1>4. Subs!Matches(e, c) <=> d = c
  BY <1>2 DEF Subs!Matches
<1>5. e = Subs!Entry(c) <=> d = c
  BY <1>2 DEF Subs!Entry
<1> QED
  BY <1>3, <1>4, <1>5 DEF Subs!Current

LEMMA PlainMatch ==
  ASSUME NEW s \in SubsState, OnlyNew(s), NEW c \in SubsChannels
  PROVE  /\ Subs!FirstMatch(s, c) # 0 <=> Says(s.list, c)
         /\ Subs!FirstMatch(s, c) # 0 =>
              /\ Subs!FirstMatch(s, c) \in DOMAIN s.list
              /\ s.list[Subs!FirstMatch(s, c)] = Subs!Entry(c)
              /\ Subs!Match(s, c) = s
<1> DEFINE i == Subs!FirstMatch(s, c)
<1>1. s.list \in Seq(PlainEntries) /\ DOMAIN s.list = 1..Len(s.list) /\ Len(s.list) \in Nat
  BY DEF OnlyNew
<1>2. IF \E k \in 1..Len(s.list) : Subs!Matches(s.list[k], c)
      THEN i \in 1..Len(s.list) /\ Subs!Matches(s.list[i], c)
      ELSE i = 0
  BY FirstMatches
<1>3. \A k \in 1..Len(s.list) :
        ~s.list[k].old /\ (Subs!Matches(s.list[k], c) <=> s.list[k] = Subs!Entry(c))
  BY <1>1, PlainEntry
<1>4. Subs!Match(s, c) =
        IF s.list[i].old THEN [s EXCEPT !.list[i] = Subs!Entry(c), !.changed = TRUE] ELSE s
  BY DEF Subs!Match
<1> HIDE DEF i
<1>5. i # 0 <=> Says(s.list, c)
  BY <1>1, <1>2, <1>3 DEF Says, Range
<1>6. i # 0 => i \in DOMAIN s.list /\ s.list[i] = Subs!Entry(c) /\ Subs!Match(s, c) = s
  BY <1>1, <1>2, <1>3, <1>4
<1> QED
  BY <1>5, <1>6 DEF i

\* What is kept of a list that has everything once.
LEMMA KeptOnce ==
  ASSUME NEW S, NEW s \in Seq(S), NEW A, Once(s)
  PROVE  Once(Kept(s, A))
<1> DEFINE less == Kept(s, A)
<1>1. PICK f : /\ f \in Bijection(1..Len(less), {i \in 1..Len(s) : s[i] \in A})
               /\ less = [k \in 1..Len(less) |-> s[f[k]]]
               /\ Len(less) \in 0..Len(s)
  BY KeptPlaces
<1> HIDE DEF less
<1>2. /\ \A k \in 1..Len(less) : f[k] \in 1..Len(s) /\ less[k] = s[f[k]]
      /\ \A j, k \in 1..Len(less) : f[j] = f[k] => j = k
  BY <1>1 DEF Bijection, Injection, IsInjective
<1> QED
  BY <1>2 DEF Once, less

LEMMA PlainSave ==
  ASSUME now \in Nat, NEW s \in SubsState, OnlyNew(s), NEW ok \in BOOLEAN
  PROVE  /\ OnlyNew(Subs!Save(s, ok)) /\ Subs!Save(s, ok).list = s.list
         /\ Subs!Save(s, ok).changed = (s.changed /\ ~ok)
         /\ \A d \in SubsChannels :
              FileSays(Subs!Save(s, ok).file, d) =
                IF s.changed /\ ok THEN Says(s.list, d) ELSE FileSays(s.file, d)
<1> DEFINE t == Subs!Save(s, ok)
           f == Kept(s.list, Subs!Current)
<1>1. /\ t \in SubsState /\ t.list = s.list
      /\ s.changed /\ ok => t.file = f /\ t.changed = FALSE
      /\ ~(s.changed /\ ok) => t = s
  BY SaveKeeps
<1>2. s.list \in Seq(PlainEntries) /\ Once(s.list)
  BY DEF OnlyNew
<1>3. f \in Seq(PlainEntries) /\ Range(f) = Range(s.list) \cap Subs!Current /\ Once(f)
  BY <1>2, KeptType, KeptOnce
<1>4. Range(s.list) \subseteq PlainEntries /\ PlainEntries \subseteq Subs!Current
      /\ PlainEntries \subseteq Subs!Entries
  <2>1. \A e \in PlainEntries : e \in Subs!Current /\ e \in Subs!Entries
    BY PlainEntry DEF SubsChannels
  <2> QED
    BY <1>2, <2>1 DEF Range
<1>5. Range(f) = Range(s.list)
  BY <1>3, <1>4
<1>6. f \notin NoFile
  <2>1. f \in Seq(Subs!Entries)
    BY <1>2, KeptType DEF SubsState
  <2> QED
    BY <2>1, SubsAssumed
<1> HIDE DEF t, f
<1>7. CASE s.changed /\ ok
  <2>1. t.file = f /\ t.changed = FALSE /\ t.list = s.list
    BY <1>1, <1>7
  <2>2. OnlyNew(t)
    BY <1>2, <1>3, <2>1 DEF OnlyNew
  <2>3. \A d \in SubsChannels : FileSays(t.file, d) = Says(s.list, d)
    BY <1>5, <1>6, <2>1 DEF FileSays, Says
  <2>4. t.changed = (s.changed /\ ~ok)
    BY <1>7, <2>1
  <2> QED
    BY <1>7, <2>1, <2>2, <2>3, <2>4 DEF t
<1>8. CASE ~(s.changed /\ ok)
  <2>1. t = s /\ t.changed = (s.changed /\ ~ok)
    BY <1>1, <1>8 DEF SubsState
  <2> QED
    BY <1>8, <2>1 DEF t
<1> QED
  BY <1>7, <1>8

LEMMA PlainLoad ==
  ASSUME now \in 0..3, oldFile = ABSENT, NEW s \in SubsState, Saved(s), OnlyNew(s),
         NEW ok \in BOOLEAN
  PROVE  /\ OnlyNew(Loaded(s, ok)) /\ Loaded(s, ok).changed = s.changed
         /\ Loaded(s, ok).file = s.file
         /\ s.list # <<>> => Loaded(s, ok) = s
         /\ s.list = <<>> => \A d \in SubsChannels :
              Says(Loaded(s, ok).list, d) = FileSays(s.file, d)
<1> DEFINE t == Loaded(s, ok)
<1>1. CASE s.list # <<>>
  BY <1>1 DEF Loaded
<1>2. CASE s.list = <<>>
  <2>1. oldFile \in NoFile \cup Seq({"o1", "o2"})
    BY DEF NoFile
  <2>2. t = Subs!Load(s, ok)
    BY <1>2 DEF Loaded
  <2>3. /\ t.file = s.file /\ t.changed = s.changed
        /\ t.list = IF s.file \in NoFile THEN <<>> ELSE Reverse(s.file)
    BY <1>2, <2>1, <2>2, LoadKeeps
  <2> HIDE DEF t
  <2>4. CASE s.file \in NoFile
    <3>1. t.list = <<>> /\ Range(<<>>) = {}
      BY <2>3, <2>4 DEF Range
    <3> QED
      BY <1>2, <2>3, <2>4, <3>1 DEF OnlyNew, Says, FileSays, t
  <2>5. CASE s.file \notin NoFile
    <3>1. s.file \in Seq(PlainEntries) /\ Once(s.file)
      BY <2>5 DEF OnlyNew
    <3>2. /\ t.list \in Seq(PlainEntries) /\ Once(t.list) /\ Range(t.list) = Range(s.file)
      BY <2>3, <2>5, <3>1, ReverseRange
    <3> QED
      BY <1>2, <2>3, <2>5, <3>1, <3>2 DEF OnlyNew, Says, FileSays, t
  <2> QED
    BY <2>4, <2>5
<1> QED
  BY <1>1, <1>2

\* When a channel's status is asked for the file and the list tell the same of those that
\* are kept, and of all when there is nothing to save.
LEMMA PlainGet ==
  ASSUME now \in 0..3, oldFile = ABSENT, NEW s \in SubsState, Saved(s), OnlyNew(s),
         NEW c \in SubsChannels, NEW ok \in BOOLEAN
  PROVE  LET got == Subs!GetStatus(s, c, ok)
             t   == got.state
         IN  /\ t \in SubsState /\ OnlyNew(t) /\ (~s.changed => ~t.changed)
             /\ got.subscribed = Says(t.list, c)
             /\ \A d \in SubsChannels, v \in BOOLEAN :
                  Keeps(s, d, v) => FileSays(t.file, d) = v /\ Says(t.list, d) = v
             /\ ~t.changed => \A d \in SubsChannels : FileSays(t.file, d) = Says(t.list, d)
<1> DEFINE got == Subs!GetStatus(s, c, ok)
           t == got.state
           u == Loaded(s, ok)
<1>1. oldFile \in NoFile \cup Seq({"o1", "o2"}) /\ now \in Nat
  BY DEF NoFile
<1>2. /\ u \in SubsState /\ Saved(u)
      /\ got = IF Subs!FirstMatch(u, c) # 0
               THEN [state |-> Subs!Match(u, c), subscribed |-> TRUE]
               ELSE [state |-> Subs!Save(u, ok), subscribed |-> FALSE]
      /\ t \in SubsState /\ Saved(t)
  BY <1>1, GetKeeps
<1>3. /\ OnlyNew(u) /\ u.changed = s.changed /\ u.file = s.file
      /\ s.list # <<>> => u = s
      /\ s.list = <<>> => \A d \in SubsChannels : Says(u.list, d) = FileSays(s.file, d)
  BY PlainLoad
<1> HIDE DEF u
<1>4. Subs!FirstMatch(u, c) # 0 <=> Says(u.list, c)
  BY <1>2, <1>3, PlainMatch
<1>5. /\ OnlyNew(Subs!Save(u, ok)) /\ Subs!Save(u, ok).list = u.list
      /\ Subs!Save(u, ok).changed = (u.changed /\ ~ok)
      /\ \A d \in SubsChannels :
           FileSays(Subs!Save(u, ok).file, d) =
             IF u.changed /\ ok THEN Says(u.list, d) ELSE FileSays(u.file, d)
  BY <1>1, <1>2, <1>3, PlainSave
<1>6. ASSUME NEW d \in SubsChannels, NEW v \in BOOLEAN, Keeps(s, d, v)
      PROVE  FileSays(u.file, d) = v /\ Says(u.list, d) = v
  <2>1. CASE s.list = <<>>
    BY <1>3, <1>6, <2>1 DEF Keeps
  <2>2. CASE s.list # <<>>
    BY <1>3, <1>6, <2>2 DEF Keeps
  <2> QED
    BY <2>1, <2>2
<1>7. ASSUME ~u.changed, NEW d \in SubsChannels PROVE FileSays(u.file, d) = Says(u.list, d)
  <2>1. CASE s.list = <<>>
    BY <1>3, <2>1
  <2>2. CASE s.list # <<>>
    <3>1. /\ u.file \notin NoFile /\ Range(u.file) \subseteq Range(u.list)
          /\ \A e \in Range(u.list) \ Range(u.file) : e.old
      BY <1>2, <1>3, <1>7, <2>2 DEF Saved
    <3>2. ~Subs!Entry(d).old
      BY DEF Subs!Entry
    <3> QED
      BY <3>1, <3>2 DEF FileSays, Says
  <2> QED
    BY <2>1, <2>2
<1>8. CASE Says(u.list, c)
  <2>1. got = [state |-> u, subscribed |-> TRUE]
    BY <1>2, <1>3, <1>4, <1>8, PlainMatch
  <2>6. t = u /\ got.subscribed = TRUE
    BY <2>1
  <2> HIDE DEF got
  <2>7. Says(t.list, c) = TRUE
    BY <1>8, <2>6 DEF Says
  <2>2. t = u /\ got.subscribed = Says(t.list, c)
    BY <2>6, <2>7
  <2>3. t \in SubsState /\ OnlyNew(t) /\ (~s.changed => ~t.changed)
    BY <1>2, <1>3, <2>2
  <2>4. \A d \in SubsChannels, v \in BOOLEAN :
          Keeps(s, d, v) => FileSays(t.file, d) = v /\ Says(t.list, d) = v
    BY <1>6, <2>2
  <2>5. ~t.changed => \A d \in SubsChannels : FileSays(t.file, d) = Says(t.list, d)
    BY <1>7, <2>2
  <2> QED
    BY <2>2, <2>3, <2>4, <2>5 DEF got
<1>9. CASE ~Says(u.list, c)
  <2>1. got = [state |-> Subs!Save(u, ok), subscribed |-> FALSE]
    BY <1>2, <1>4, <1>9
  <2>2. /\ t \in SubsState /\ OnlyNew(t) /\ t.list = u.list
        /\ t.changed = (u.changed /\ ~ok)
        /\ \A d \in SubsChannels : FileSays(t.file, d) =
             IF u.changed /\ ok THEN Says(u.list, d) ELSE FileSays(u.file, d)
        /\ got.subscribed = FALSE
    BY <1>2, <1>5, <2>1
  <2> HIDE DEF got
  <2>7. Says(t.list, c) = FALSE
    BY <1>9, <2>2 DEF Says
  <2>3. got.subscribed = Says(t.list, c)
    BY <2>2, <2>7
  <2>4. ~s.changed => ~t.changed
    BY <1>3, <2>2
  <2>5. ASSUME NEW d \in SubsChannels, NEW v \in BOOLEAN, Keeps(s, d, v)
        PROVE  FileSays(t.file, d) = v /\ Says(t.list, d) = v
    <3>1. FileSays(u.file, d) = v /\ Says(u.list, d) = v
      BY <1>6, <2>5
    <3>2. Says(t.list, d) = v
      BY <2>2, <3>1
    <3>3. FileSays(t.file, d) = v
      BY <2>2, <3>1
    <3> QED
      BY <3>2, <3>3
  <2>6. ASSUME ~t.changed, NEW d \in SubsChannels PROVE FileSays(t.file, d) = Says(t.list, d)
    <3>1. CASE u.changed /\ ok
      BY <2>2, <3>1
    <3>2. CASE ~(u.changed /\ ok)
      <4>1. ~u.changed
        BY <2>2, <2>6, <3>2
      <4>2. FileSays(t.file, d) = FileSays(u.file, d)
        BY <2>2, <3>2
      <4> QED
        BY <1>7, <2>2, <4>1, <4>2
    <3> QED
      BY <3>1, <3>2
  <2> QED
    BY <2>2, <2>3, <2>4, <2>5, <2>6 DEF got
<1> QED
  BY <1>8, <1>9

LEMMA PlainGetTells ==
  ASSUME now \in 0..3, oldFile = ABSENT, NEW s \in SubsState, Saved(s), OnlyNew(s),
         NEW c \in SubsChannels, NEW ok \in BOOLEAN,
         NEW d \in SubsChannels, NEW v \in BOOLEAN, Keeps(s, d, v)
  PROVE  /\ FileSays(Subs!GetStatus(s, c, ok).state.file, d) = v
         /\ Says(Subs!GetStatus(s, c, ok).state.list, d) = v
<1> DEFINE t == Subs!GetStatus(s, c, ok).state
<1>1. \A e \in SubsChannels, w \in BOOLEAN :
        Keeps(s, e, w) => FileSays(t.file, e) = w /\ Says(t.list, e) = w
  BY PlainGet
<1> HIDE DEF t
<1> QED
  BY <1>1 DEF t

\* What is put into the front of a list, and was not there.
LEMMA FirstOnce ==
  ASSUME NEW S, NEW s \in Seq(S), NEW e \in S, Once(s), e \notin Range(s)
  PROVE  Once(<<e>> \o s)
<1> DEFINE r == <<e>> \o s
<1>1. /\ Len(s) \in Nat /\ Len(r) = Len(s) + 1 /\ r[1] = e
      /\ \A k \in 1..Len(s) : s[k] # e
      /\ \A k \in 2..(Len(s) + 1) : r[k] = s[k - 1]
  BY DEF Range
<1> HIDE DEF r
<1>2. ASSUME NEW j \in 1..Len(r), NEW k \in 1..Len(r), r[j] = r[k] PROVE j = k
  <2>1. CASE j # 1 /\ k # 1
    <3>1. j - 1 \in 1..Len(s) /\ k - 1 \in 1..Len(s) /\ s[j - 1] = s[k - 1]
      BY <1>1, <1>2, <2>1
    <3>2. j - 1 = k - 1
      BY <3>1 DEF Once
    <3> QED
      BY <3>2
  <2>2. CASE j = 1 /\ k # 1
    <3>1. k - 1 \in 1..Len(s) /\ r[k] = s[k - 1]
      BY <1>1, <2>2
    <3> QED
      BY <1>1, <1>2, <2>2, <3>1
  <2>3. CASE j # 1 /\ k = 1
    <3>1. j - 1 \in 1..Len(s) /\ r[j] = s[j - 1]
      BY <1>1, <2>3
    <3> QED
      BY <1>1, <1>2, <2>3, <3>1
  <2> QED
    BY <2>1, <2>2, <2>3
<1> QED
  BY <1>2 DEF Once, r

\* The list that SetStatus saves tells of the channel what it was set to, and of others
\* what it told.
LEMMA PlainChanging ==
  ASSUME now \in 0..3, oldFile = ABSENT, NEW s \in SubsState, Saved(s), OnlyNew(s),
         NEW c \in SubsChannels, NEW subscribe \in BOOLEAN, NEW ok \in BOOLEAN
  PROVE  LET t == Subs!GetStatus(s, c, ok).state
             u == Changing(s, c, subscribe, ok)
         IN  /\ OnlyNew(u) /\ u.file = t.file /\ (u = t \/ u.changed)
             /\ Says(u.list, c) = subscribe
             /\ \A d \in SubsChannels \ {c} : Says(u.list, d) = Says(t.list, d)
<1> DEFINE got == Subs!GetStatus(s, c, ok)
           t == got.state
           u == Changing(s, c, subscribe, ok)
           i == Subs!FirstMatch(t, c)
<1>1. t \in SubsState /\ OnlyNew(t) /\ got.subscribed = Says(t.list, c)
  BY PlainGet
<1>2. /\ i # 0 <=> Says(t.list, c)
      /\ i # 0 => i \in DOMAIN t.list /\ t.list[i] = Subs!Entry(c)
  BY <1>1, PlainMatch
<1>3. u = IF got.subscribed /\ ~subscribe THEN [t EXCEPT !.list = RemoveAt(@, i), !.changed = TRUE]
          ELSE IF ~got.subscribed /\ subscribe
          THEN [t EXCEPT !.list = <<Subs!Entry(c)>> \o @, !.changed = TRUE]
          ELSE t
  BY DEF Changing
<1> HIDE DEF got, t, u, i
<1>4. t.list \in Seq(PlainEntries) /\ Once(t.list) /\ Subs!Entry(c) \in PlainEntries
  BY <1>1 DEF OnlyNew, PlainEntries
<1>5. \A d \in SubsChannels \ {c} : Subs!Entry(d) # Subs!Entry(c)
  BY DEF Subs!Entry
<1>6. CASE got.subscribed /\ ~subscribe
  <2> DEFINE new == RemoveAt(t.list, i)
  <2>1. i \in DOMAIN t.list /\ t.list[i] = Subs!Entry(c)
    BY <1>1, <1>2, <1>6
  <2>2. /\ new \in Seq(PlainEntries) /\ Once(new)
        /\ Range(new) = Range(t.list) \ {Subs!Entry(c)}
    BY <1>4, <2>1, RemovedAt, RemovedAtOnce
  <2>3. u = [t EXCEPT !.list = new, !.changed = TRUE]
    BY <1>3, <1>6
  <2> HIDE DEF new
  <2>4. u.list = new /\ u.file = t.file /\ u.changed
    BY <1>1, <2>3 DEF SubsState
  <2>5. OnlyNew(u)
    BY <1>1, <2>2, <2>4 DEF OnlyNew
  <2>6. Says(u.list, c) = FALSE
    BY <2>2, <2>4 DEF Says
  <2>7. \A d \in SubsChannels \ {c} : Says(u.list, d) = Says(t.list, d)
    BY <1>5, <2>2, <2>4 DEF Says
  <2>8. subscribe = FALSE
    BY <1>6
  <2> QED
    BY <2>4, <2>5, <2>6, <2>7, <2>8 DEF u, t, got
<1>7. CASE ~got.subscribed /\ subscribe
  <2> DEFINE new == <<Subs!Entry(c)>> \o t.list
  <2>1. Subs!Entry(c) \notin Range(t.list)
    BY <1>1, <1>7 DEF Says
  <2>2. Range(new) = {Subs!Entry(c)} \cup Range(t.list) /\ new \in Seq(PlainEntries)
    BY <1>4, TimesFirst
  <2>3. Once(new)
    BY <1>4, <2>1, FirstOnce
  <2>4. u = [t EXCEPT !.list = new, !.changed = TRUE]
    BY <1>3, <1>7
  <2> HIDE DEF new
  <2>5. u.list = new /\ u.file = t.file /\ u.changed
    BY <1>1, <2>4 DEF SubsState
  <2>6. OnlyNew(u)
    BY <1>1, <2>2, <2>3, <2>5 DEF OnlyNew
  <2>7. Says(u.list, c) = TRUE
    BY <2>2, <2>5 DEF Says
  <2>8. \A d \in SubsChannels \ {c} : Says(u.list, d) = Says(t.list, d)
    BY <1>5, <2>2, <2>5 DEF Says
  <2>9. subscribe = TRUE
    BY <1>7
  <2> QED
    BY <2>5, <2>6, <2>7, <2>8, <2>9 DEF u, t, got
<1>8. CASE got.subscribed = subscribe
  <2>1. u = t
    BY <1>3, <1>8
  <2> QED
    BY <1>1, <1>8, <2>1 DEF u, t, got
<1>9. got.subscribed \in BOOLEAN
  BY <1>1 DEF Says
<1> QED
  BY <1>6, <1>7, <1>8, <1>9

\* When it is set, the channel keeps that, if it could be saved, and others what they had.
LEMMA PlainSet ==
  ASSUME now \in 0..3, oldFile = ABSENT, NEW s \in SubsState, Saved(s), OnlyNew(s),
         NEW c \in SubsChannels, NEW subscribe \in BOOLEAN, NEW ok \in BOOLEAN
  PROVE  LET w == Subs!SetStatus(s, c, subscribe, ok)
         IN  /\ OnlyNew(w) /\ (ok => ~w.changed)
             /\ ~w.changed => Keeps(w, c, subscribe)
             /\ \A d \in SubsChannels \ {c}, v \in BOOLEAN : Keeps(s, d, v) => Keeps(w, d, v)
<1> DEFINE t == Subs!GetStatus(s, c, ok).state
           u == Changing(s, c, subscribe, ok)
           w == Subs!Save(u, ok)
<1>1. /\ t \in SubsState /\ OnlyNew(t)
      /\ \A d \in SubsChannels, v \in BOOLEAN :
           Keeps(s, d, v) => FileSays(t.file, d) = v /\ Says(t.list, d) = v
      /\ ~t.changed => \A d \in SubsChannels : FileSays(t.file, d) = Says(t.list, d)
  BY PlainGet
<1>2. /\ OnlyNew(u) /\ u.file = t.file /\ (u = t \/ u.changed)
      /\ Says(u.list, c) = subscribe
      /\ \A d \in SubsChannels \ {c} : Says(u.list, d) = Says(t.list, d)
  BY PlainChanging
<1>3. u \in SubsState /\ now \in Nat
  <2>1. oldFile \in NoFile \cup Seq({"o1", "o2"})
    BY DEF NoFile
  <2> QED
    BY <2>1, SetKeeps
<1> HIDE DEF t, u
<1>4. /\ OnlyNew(w) /\ w.list = u.list
      /\ w.changed = (u.changed /\ ~ok)
      /\ \A d \in SubsChannels :
           FileSays(w.file, d) = IF u.changed /\ ok THEN Says(u.list, d) ELSE FileSays(u.file, d)
  BY <1>2, <1>3, PlainSave
<1> HIDE DEF w
<1>5. ok => ~w.changed
  BY <1>4
<1>6. ASSUME ~w.changed PROVE Keeps(w, c, subscribe)
  <2>1. Says(w.list, c) = subscribe
    BY <1>2, <1>4
  <2>2. CASE u.changed
    <3>1. FileSays(w.file, c) = Says(u.list, c)
      BY <1>4, <1>6, <2>2
    <3> QED
      BY <1>2, <2>1, <3>1 DEF Keeps
  <2>3. CASE ~u.changed
    <3>1. u = t /\ FileSays(w.file, c) = FileSays(u.file, c)
      BY <1>2, <1>4, <2>3
    <3>2. FileSays(t.file, c) = Says(t.list, c)
      BY <1>1, <2>3, <3>1
    <3>3. FileSays(w.file, c) = subscribe
      BY <1>2, <3>1, <3>2
    <3> QED
      BY <2>1, <3>3 DEF Keeps
  <2> QED
    BY <2>2, <2>3
<1>7. ASSUME NEW d \in SubsChannels \ {c}, NEW v \in BOOLEAN, Keeps(s, d, v)
      PROVE  Keeps(w, d, v)
  <2>1. FileSays(t.file, d) = v /\ Says(t.list, d) = v
    BY <1>1, <1>7
  <2>2. Says(w.list, d) = v
    BY <1>2, <1>4, <2>1
  <2>3. CASE u.changed /\ ok
    <3>1. FileSays(w.file, d) = Says(u.list, d)
      BY <1>4, <2>3
    <3> QED
      BY <1>4, <2>2, <3>1 DEF Keeps
  <2>4. CASE ~(u.changed /\ ok)
    <3>1. FileSays(w.file, d) = FileSays(u.file, d)
      BY <1>4, <2>4
    <3> QED
      BY <1>2, <2>1, <2>2, <3>1 DEF Keeps
  <2> QED
    BY <2>3, <2>4
<1> QED
  BY <1>4, <1>5, <1>6, <1>7, SetChanges DEF w, u

-----------------------------------------------------------------------------
(* Subscriptions are kept *)

SubsHere == [file |-> file, list |-> list, changed |-> changed, tried |-> tried]

Statuses == [SubsChannels -> BOOLEAN \cup {UNKNOWN}]

SubsInv ==
  /\ now \in 0..3 /\ oldFile \in NoFile \cup Seq({"o1", "o2"})
  /\ SubsHere \in SubsState /\ Saved(SubsHere)
  /\ part # "subs imported" =>
       /\ oldFile = ABSENT /\ OnlyNew(SubsHere) /\ kept \in Statuses
       /\ \A c \in SubsChannels : kept[c] # UNKNOWN => Keeps(SubsHere, c, kept[c])
  /\ part = "subs saved" =>
       /\ ~changed /\ asked \in Statuses
       /\ \A c \in SubsChannels : asked[c] \in {UNKNOWN, kept[c]}

LEMMA BecomesHere ==
  ASSUME NEW s \in SubsState, Subs!Becomes(s)
  PROVE  SubsHere' = s
  BY DEF SubsState, Subs!Becomes, SubsHere

LEMMA SubsInvInit == ASSUME AllInit PROVE SubsInv
<1>1. Subs!Init /\ (part # "subs imported" => oldFile = ABSENT)
  BY DEF AllInit
<1>2. /\ file \in NewFiles /\ oldFile \in NoFile \cup {<<"o1">>, <<"o1", "o2">>}
      /\ list = <<>> /\ changed = FALSE /\ tried = FALSE /\ now = 0
      /\ asked = [c \in SubsChannels |-> UNKNOWN] /\ kept = [c \in SubsChannels |-> UNKNOWN]
  BY <1>1 DEF Subs!Init, NoFile, SubsChannels
<1>3. file \in NoFile \cup Seq(Subs!Entries)
  BY <1>2, SubsAssumed
<1>4. SubsHere \in SubsState /\ Saved(SubsHere)
  <2>0. list = <<>> /\ changed = FALSE /\ tried = FALSE
    BY <1>2
  <2>4. <<>> \in Seq(Subs!Entries)
    OBVIOUS
  <2>5. list \in Seq(Subs!Entries)
    BY <2>0, <2>4
  <2>1. list \in Seq(Subs!Entries) /\ changed \in BOOLEAN /\ tried \in BOOLEAN
    BY <2>0, <2>5, Zenon
  <2>2. SubsHere \in SubsState
    BY <1>3, <2>1 DEF SubsHere, SubsState
  <2>3. SubsHere.list = <<>>
    BY <1>2 DEF SubsHere
  <2> QED
    BY <2>2, <2>3 DEF Saved
<1>5. file \notin NoFile => file \in Seq(PlainEntries) /\ Once(file)
  <2> SUFFICES ASSUME file \notin NoFile PROVE file \in Seq(PlainEntries) /\ Once(file)
    OBVIOUS
  <2>1. file \in {<<>>, <<Entry("c1")>>, <<Entry("c2")>>, <<Entry("c1"), Entry("c2")>>}
    BY <1>2 DEF NewFiles, NoFile
  <2>2. Entry("c1") \in PlainEntries /\ Entry("c2") \in PlainEntries
    BY DEF PlainEntries, SubsChannels, Entry, Subs!Entry
  <2>3. Entry("c1") # Entry("c2")
    BY DEF Entry
  <2> HIDE <1>2
  <2>4. CASE file = <<>>
    BY <2>4 DEF Once
  <2>5. CASE file = <<Entry("c1")>>
    BY <2>2, <2>5 DEF Once
  <2>6. CASE file = <<Entry("c2")>>
    BY <2>2, <2>6 DEF Once
  <2>7. CASE file = <<Entry("c1"), Entry("c2")>>
    <3> DEFINE a == Entry("c1")
               b == Entry("c2")
    <3>1. a # b /\ a \in PlainEntries /\ b \in PlainEntries /\ file = <<a, b>>
      BY <2>2, <2>3, <2>7
    <3> HIDE DEF a, b
    <3> QED
      BY <3>1 DEF Once
  <2> QED
    BY <2>1, <2>4, <2>5, <2>6, <2>7
<1>6. OnlyNew(SubsHere)
  BY <1>2, <1>5 DEF OnlyNew, SubsHere, Once
<1>7. oldFile \in NoFile \cup Seq({"o1", "o2"}) /\ now \in 0..3 /\ ~changed
  <2>1. <<"o1">> \in Seq({"o1", "o2"}) /\ <<"o1", "o2">> \in Seq({"o1", "o2"})
    OBVIOUS
  <2>2. oldFile \in NoFile \cup {<<"o1">>, <<"o1", "o2">>}
    BY <1>2
  <2>3. now \in 0..3 /\ ~changed
    BY <1>2
  <2> QED
    BY <2>1, <2>2, <2>3
<1>8. asked \in Statuses /\ kept \in Statuses /\ \A c \in SubsChannels : kept[c] = UNKNOWN /\ asked[c] = UNKNOWN
  BY <1>2 DEF Statuses
<1> QED
  BY <1>1, <1>4, <1>6, <1>7, <1>8 DEF SubsInv

LEMMA GetStep ==
  ASSUME SubsInv, part' = part, NEW c \in SubsChannels, NEW ok \in BOOLEAN, Subs!Get(c, ok)
  PROVE  SubsInv'
<1> DEFINE t == Subs!GetStatus(SubsHere, c, ok).state
<1>1. Subs!Becomes(t) /\ UNCHANGED <<oldFile, now, asked, kept>>
  BY DEF Subs!Get, Subs!Here, SubsHere
<1>2. /\ now \in 0..3 /\ oldFile \in NoFile \cup Seq({"o1", "o2"})
      /\ SubsHere \in SubsState /\ Saved(SubsHere)
  BY DEF SubsInv
<1>3. t \in SubsState /\ Saved(t)
  BY <1>2, GetKeeps
<1>4. part # "subs imported" =>
        /\ OnlyNew(t) /\ (~changed => ~t.changed)
        /\ \A d \in SubsChannels : kept[d] # UNKNOWN => Keeps(t, d, kept[d])
  <2> SUFFICES ASSUME part # "subs imported"
               PROVE  /\ OnlyNew(t) /\ (~changed => ~t.changed)
                      /\ \A d \in SubsChannels : kept[d] # UNKNOWN => Keeps(t, d, kept[d])
    OBVIOUS
  <2>1. /\ oldFile = ABSENT /\ OnlyNew(SubsHere) /\ kept \in Statuses
        /\ \A d \in SubsChannels : kept[d] # UNKNOWN => Keeps(SubsHere, d, kept[d])
    BY DEF SubsInv
  <2>0. OnlyNew(t) /\ (~SubsHere.changed => ~t.changed)
    BY <1>2, <2>1, PlainGet
  <2>3. ASSUME NEW d \in SubsChannels, kept[d] # UNKNOWN PROVE Keeps(t, d, kept[d])
    <3>1. kept[d] \in BOOLEAN /\ Keeps(SubsHere, d, kept[d])
      BY <2>1, <2>3 DEF Statuses
    <3>2. FileSays(t.file, d) = kept[d] /\ Says(t.list, d) = kept[d]
      BY <1>2, <2>1, <3>1, PlainGetTells
    <3> HIDE DEF t
    <3> QED
      BY <3>2 DEF Keeps
  <2>4. SubsHere.changed = changed
    BY DEF SubsHere
  <2> QED
    BY <2>0, <2>3, <2>4
<1> HIDE DEF t
<1>5. SubsHere' = t /\ changed' = t.changed
  BY <1>1, <1>3, BecomesHere DEF Subs!Becomes
<1>6. Saved(SubsHere)'
  BY <1>1, <1>3, <1>5 DEF Saved
<1>7. part # "subs imported" =>
        OnlyNew(SubsHere)' /\ \A d \in SubsChannels : kept'[d] # UNKNOWN => Keeps(SubsHere, d, kept[d])'
  BY <1>1, <1>4, <1>5 DEF OnlyNew, Keeps
<1> QED
  BY <1>1, <1>3, <1>4, <1>5, <1>6, <1>7 DEF SubsInv

LEMMA SetStep ==
  ASSUME SubsInv, part' = part, NEW c \in SubsChannels, NEW subscribe \in BOOLEAN,
         NEW ok \in BOOLEAN, part = "subs saved" => ok, Subs!Set(c, subscribe, ok)
  PROVE  SubsInv'
<1> DEFINE w == Subs!SetStatus(SubsHere, c, subscribe, ok)
<1>1. /\ Subs!Becomes(w) /\ UNCHANGED <<oldFile, now>>
      /\ asked' = [asked EXCEPT ![c] = subscribe]
      /\ kept' = [kept EXCEPT ![c] = IF changed' THEN UNKNOWN ELSE subscribe]
  BY DEF Subs!Set, Subs!Here, SubsHere
<1>2. /\ now \in 0..3 /\ oldFile \in NoFile \cup Seq({"o1", "o2"})
      /\ SubsHere \in SubsState /\ Saved(SubsHere)
  BY DEF SubsInv
<1>3. w \in SubsState /\ Saved(w)
  BY <1>2, SetKeeps
<1>4. part # "subs imported" =>
        /\ OnlyNew(w) /\ (ok => ~w.changed)
        /\ ~w.changed => Keeps(w, c, subscribe)
        /\ \A d \in SubsChannels \ {c}, v \in BOOLEAN : Keeps(SubsHere, d, v) => Keeps(w, d, v)
  <2> SUFFICES ASSUME part # "subs imported"
               PROVE  /\ OnlyNew(w) /\ (ok => ~w.changed)
                      /\ ~w.changed => Keeps(w, c, subscribe)
                      /\ \A d \in SubsChannels \ {c}, v \in BOOLEAN :
                           Keeps(SubsHere, d, v) => Keeps(w, d, v)
    OBVIOUS
  <2>1. oldFile = ABSENT /\ OnlyNew(SubsHere)
    BY DEF SubsInv
  <2> QED
    BY <1>2, <2>1, PlainSet
<1> HIDE DEF w
<1>5. SubsHere' = w /\ changed' = w.changed
  BY <1>1, <1>3, BecomesHere DEF Subs!Becomes
<1>6. Saved(SubsHere)'
  BY <1>1, <1>3, <1>5 DEF Saved
<1>7. ASSUME part # "subs imported"
      PROVE  /\ OnlyNew(SubsHere)' /\ kept' \in Statuses
             /\ \A d \in SubsChannels : kept'[d] # UNKNOWN => Keeps(SubsHere, d, kept[d])'
  <2>1. /\ kept \in Statuses
        /\ \A d \in SubsChannels : kept[d] # UNKNOWN => Keeps(SubsHere, d, kept[d])
    BY <1>7 DEF SubsInv
  <2>2. kept' \in Statuses
    BY <1>1, <2>1 DEF Statuses
  <2>3. ASSUME NEW d \in SubsChannels, kept'[d] # UNKNOWN PROVE Keeps(w, d, kept'[d])
    <3>1. CASE d = c
      <4>1. kept'[c] = IF changed' THEN UNKNOWN ELSE subscribe
        BY <1>1, <2>1 DEF Statuses
      <4>2. ~changed' /\ kept'[c] = subscribe
        BY <2>3, <3>1, <4>1
      <4> QED
        BY <1>4, <1>5, <1>7, <3>1, <4>2
    <3>2. CASE d # c
      <4>1. kept'[d] = kept[d] /\ kept[d] \in BOOLEAN
        BY <1>1, <2>1, <2>3, <3>2 DEF Statuses
      <4> QED
        BY <1>4, <1>7, <2>1, <2>3, <3>2, <4>1
    <3> QED
      BY <3>1, <3>2
  <2>4. OnlyNew(SubsHere)'
    BY <1>4, <1>5, <1>7 DEF OnlyNew
  <2>5. ASSUME NEW d \in SubsChannels, kept'[d] # UNKNOWN PROVE Keeps(SubsHere, d, kept[d])'
    BY <1>5, <2>3, <2>5 DEF Keeps
  <2> QED
    BY <2>2, <2>4, <2>5
<1>8. ASSUME part = "subs saved"
      PROVE  /\ ~changed' /\ asked' \in Statuses
             /\ \A d \in SubsChannels : asked'[d] \in {UNKNOWN, kept'[d]}
  <2>1. /\ asked \in Statuses /\ kept \in Statuses
        /\ \A d \in SubsChannels : asked[d] \in {UNKNOWN, kept[d]}
    BY <1>8 DEF SubsInv
  <2>2. ~changed'
    BY <1>4, <1>5, <1>8
  <2>3. asked' \in Statuses
    BY <1>1, <2>1 DEF Statuses
  <2>4. ASSUME NEW d \in SubsChannels PROVE asked'[d] \in {UNKNOWN, kept'[d]}
    <3>1. CASE d = c
      <4>1. asked'[d] = subscribe /\ kept'[d] = subscribe
        BY <1>1, <2>1, <2>2, <3>1 DEF Statuses
      <4> QED
        BY <4>1
    <3>2. CASE d # c
      <4>1. asked'[d] = asked[d] /\ kept'[d] = kept[d]
        BY <1>1, <2>1, <3>2 DEF Statuses
      <4> QED
        BY <2>1, <4>1
    <3> QED
      BY <3>1, <3>2
  <2> QED
    BY <2>2, <2>3, <2>4
<1>9. /\ now' \in 0..3 /\ oldFile' \in NoFile \cup Seq({"o1", "o2"}) /\ SubsHere' \in SubsState
      /\ part # "subs imported" => oldFile' = ABSENT
  BY <1>1, <1>2, <1>3, <1>5 DEF SubsInv
<1> QED
  BY <1>6, <1>7, <1>8, <1>9 DEF SubsInv

LEMMA RestartStep == ASSUME SubsInv, part' = part, Subs!Restart PROVE SubsInv'
<1>1. /\ list' = <<>> /\ changed' = FALSE /\ tried' = FALSE
      /\ file' = file /\ oldFile' = oldFile /\ now' = now /\ kept' = kept
      /\ asked' = [c \in SubsChannels |-> UNKNOWN]
  BY DEF Subs!Restart, SubsChannels
<1>2. SubsHere' = [file |-> file, list |-> <<>>, changed |-> FALSE, tried |-> FALSE]
  BY <1>1 DEF SubsHere
<1>3. SubsHere \in SubsState /\ SubsHere.file = file /\ file \in NoFile \cup Seq(Subs!Entries)
  BY DEF SubsInv, SubsHere, SubsState
<1>4. SubsHere' \in SubsState
  BY <1>2, <1>3 DEF SubsState
<1>5. Saved(SubsHere)'
  BY <1>2 DEF Saved
<1>6. ASSUME part # "subs imported"
      PROVE  /\ OnlyNew(SubsHere)'
             /\ \A c \in SubsChannels : kept'[c] # UNKNOWN => Keeps(SubsHere, c, kept[c])'
  <2>1. /\ OnlyNew(SubsHere)
        /\ \A c \in SubsChannels : kept[c] # UNKNOWN => Keeps(SubsHere, c, kept[c])
    BY <1>6 DEF SubsInv
  <2>2. OnlyNew(SubsHere)'
    BY <1>2, <1>3, <2>1 DEF OnlyNew, Once
  <2>3. SubsHere'.list = <<>> /\ SubsHere'.file = SubsHere.file
    BY <1>2, <1>3
  <2>4. ASSUME NEW c \in SubsChannels, kept'[c] # UNKNOWN PROVE Keeps(SubsHere, c, kept[c])'
    <3>1. FileSays(SubsHere.file, c) = kept[c]
      BY <1>1, <2>1, <2>4 DEF Keeps
    <3> QED
      BY <1>1, <2>3, <3>1 DEF Keeps
  <2> QED
    BY <2>2, <2>4
<1>7. ASSUME NEW c \in SubsChannels PROVE asked'[c] \in {UNKNOWN, kept'[c]}
  BY <1>1
<1>8. asked' \in Statuses
  BY <1>1 DEF Statuses
<1>9. /\ now' \in 0..3 /\ oldFile' \in NoFile \cup Seq({"o1", "o2"})
      /\ part # "subs imported" => oldFile' = ABSENT /\ kept' \in Statuses
  BY <1>1 DEF SubsInv
<1>10. ~changed'
  BY <1>1
<1> QED
  BY <1>4, <1>5, <1>6, <1>7, <1>8, <1>9, <1>10 DEF SubsInv

LEMMA SubsTickStep == ASSUME SubsInv, part' = part, Subs!Tick PROVE SubsInv'
<1>1. /\ now < 3 /\ now' = now + 1
      /\ UNCHANGED <<file, list, changed, tried, oldFile, asked, kept>>
  BY DEF Subs!Tick, Subs!state
<1>2. now \in 0..3 /\ SubsHere \in SubsState /\ Saved(SubsHere) /\ SubsHere' = SubsHere
  BY <1>1 DEF SubsInv, SubsHere
<1>3. \A e \in Range(SubsHere.list) : e.seen \in Nat
  <2>1. \A e \in Range(SubsHere.list) : e \in Subs!Entries
    BY <1>2 DEF SubsState, Range
  <2>2. ASSUME NEW e \in Subs!Entries PROVE e.seen \in Nat
    <3>1. CASE e \in [id : {"c1", "c2"}, old : {FALSE}, seen : {0}]
      BY <3>1
    <3>2. CASE e \in [id : {"o1", "o2"}, old : {TRUE}, seen : 0..3]
      BY <3>2
    <3> QED
      BY <3>1, <3>2 DEF Subs!Entries
  <2> QED
    BY <2>1, <2>2
<1>4. Saved(SubsHere)'
  BY <1>1, <1>2, <1>3 DEF Saved
<1>5. now' \in 0..3
  BY <1>1, <1>2
<1>6. /\ OnlyNew(SubsHere)' = OnlyNew(SubsHere)
      /\ \A c \in SubsChannels : Keeps(SubsHere, c, kept[c])' = Keeps(SubsHere, c, kept[c])
  BY <1>1, <1>2 DEF OnlyNew, Keeps
<1> QED
  BY <1>1, <1>2, <1>4, <1>5, <1>6 DEF SubsInv

LEMMA SubsInvKept == ASSUME SubsInv, [AllNext]_allVars PROVE SubsInv'
<1>1. /\ part' = part
      /\ \/ part \in {"subs", "subs imported"} /\ Subs!Next
         \/ part = "subs saved" /\ Subs!NextWith({TRUE})
         \/ UNCHANGED subsVars
  BY DEF AllNext, allVars
<1>2. ASSUME NEW outcomes \in {BOOLEAN, {TRUE}}, Subs!NextWith(outcomes),
             part = "subs saved" => outcomes = {TRUE}
      PROVE  SubsInv'
  <2>1. \/ \E c \in SubsChannels, ok \in outcomes :
             Subs!Get(c, ok) \/ \E subscribe \in BOOLEAN : Subs!Set(c, subscribe, ok)
        \/ Subs!Restart \/ Subs!Tick
    BY <1>2 DEF Subs!NextWith, SubsChannels
  <2>2. ASSUME NEW c \in SubsChannels, NEW ok \in outcomes,
               Subs!Get(c, ok) \/ \E subscribe \in BOOLEAN : Subs!Set(c, subscribe, ok)
        PROVE  SubsInv'
    <3>1. ok \in BOOLEAN /\ (part = "subs saved" => ok)
      <4>1. ok = TRUE \/ (ok \in BOOLEAN /\ part # "subs saved")
        BY <1>2
      <4> QED
        BY <4>1
    <3>2. CASE Subs!Get(c, ok)
      BY <1>1, <3>1, <3>2, GetStep
    <3>3. CASE \E subscribe \in BOOLEAN : Subs!Set(c, subscribe, ok)
      BY <1>1, <3>1, <3>3, SetStep
    <3> QED
      BY <2>2, <3>2, <3>3
  <2> QED
    BY <1>1, <2>1, <2>2, RestartStep, SubsTickStep
<1>3. CASE UNCHANGED subsVars
  <2>1. SubsHere' = SubsHere /\ UNCHANGED <<now, oldFile, kept, asked, changed, part>>
    BY <1>1, <1>3 DEF subsVars, SubsHere
  <2> QED
    BY <2>1 DEF SubsInv, Saved, OnlyNew, Keeps
<1>4. Subs!Next => Subs!NextWith(BOOLEAN)
  BY DEF Subs!Next
<1> QED
  BY <1>1, <1>2, <1>3, <1>4

\* A status that is kept is the one that is seen.
LEMMA KeptSeen ==
  ASSUME SubsInv, part # "subs imported", NEW c \in SubsChannels, kept[c] # UNKNOWN
  PROVE  Subs!Subscribed(c) = kept[c]
<1> DEFINE got == Subs!GetStatus(SubsHere, c, TRUE)
<1>1. /\ now \in 0..3 /\ oldFile = ABSENT /\ SubsHere \in SubsState /\ Saved(SubsHere)
      /\ OnlyNew(SubsHere) /\ kept[c] \in BOOLEAN /\ Keeps(SubsHere, c, kept[c])
  BY DEF SubsInv, Statuses
<1>2. got.subscribed = Says(got.state.list, c)
  BY <1>1, PlainGet
<1>3. Says(got.state.list, c) = kept[c]
  BY <1>1, PlainGetTells
<1>4. Subs!Subscribed(c) = got.subscribed
  BY DEF Subs!Subscribed, Subs!Here, SubsHere
<1> QED
  BY <1>2, <1>3, <1>4

\* A channel has the status it was given, at once and, if it could be saved, for the next
\* process too; and the file tells what the list does (rc_subscription_set_status,
\* rc_subscription_save, rc_subscription_load).
THEOREM StatusIsAlwaysKept == AllSpec => []StatusIsKept
<1>1. SubsInv => StatusIsKept
  <2> SUFFICES ASSUME SubsInv PROVE StatusIsKept
    OBVIOUS
  <2>1. part = "subs" => Subs!KeptIsSeen
    BY KeptSeen DEF Subs!KeptIsSeen, SubsChannels
  <2>2. ASSUME part = "subs saved" PROVE Subs!AskedIsSeen
    <3>1. \A c \in SubsChannels : asked[c] \in {UNKNOWN, kept[c]}
      BY <2>2 DEF SubsInv
    <3>2. ASSUME NEW c \in SubsChannels PROVE asked[c] \in {UNKNOWN, Subs!Subscribed(c)}
      <4>1. CASE asked[c] = UNKNOWN
        BY <4>1
      <4>2. CASE asked[c] # UNKNOWN
        <5>1. asked[c] = kept[c] /\ kept[c] # UNKNOWN
          BY <3>1, <4>2
        <5> QED
          BY <2>2, <5>1, KeptSeen
      <4> QED
        BY <4>1, <4>2
    <3> QED
      BY <3>2 DEF Subs!AskedIsSeen, SubsChannels
  <2>3. Subs!TypeOK
    <3>1. now \in 0..3 /\ SubsHere \in SubsState
      BY DEF SubsInv
    <3>2. /\ file \in NoFile \cup Seq(Subs!Entries) /\ list \in Seq(Subs!Entries)
          /\ changed \in BOOLEAN /\ tried \in BOOLEAN
      BY <3>1 DEF SubsHere, SubsState
    <3> QED
      BY <3>1, <3>2 DEF Subs!TypeOK, NoFile
  <2>4. Subs!SavedUnlessChanged
    <3>1. Saved(SubsHere)
      BY DEF SubsInv
    <3>2. ~changed /\ list # <<>> =>
            /\ file \notin NoFile
            /\ Range(file) \subseteq Range(list)
            /\ \A e \in Range(list) \ Range(file) : e.old /\ now - e.seen > 1
      BY <3>1 DEF Saved, SubsHere
    <3>3. Subs!ToSet(file) = Range(file) /\ Subs!ToSet(list) = Range(list)
      BY DEF Subs!ToSet, Range
    <3> QED
      BY <3>2, <3>3 DEF Subs!SavedUnlessChanged, NoFile
  <2> QED
    BY <2>1, <2>2, <2>3, <2>4 DEF StatusIsKept
<1>2. SubsInv /\ [AllNext]_allVars => SubsInv'
  BY SubsInvKept
<1>3. AllInit => SubsInv
  BY SubsInvInit
<1> QED
  BY <1>1, <1>2, <1>3, PTL DEF AllSpec, allVars

=============================================================================
