---------------------------- MODULE Resolver_proofs ----------------------------
(***************************************************************************)
(* What holds of the resolver for every universe of packages, every world  *)
(* and every request: contexts and items keep their shape, what has been   *)
(* decided for a queue stays decided, what is split is down to branches,   *)
(* the solution that is offered is the first of the best ones found, and   *)
(* solutions do what was asked for, do not conflict, and have what they    *)
(* require.                                                                *)
(*                                                                         *)
(* The lemmas come first, about the world, about contexts and about items: *)
(* what the world is asked for is listed as it is there; operations keep a *)
(* context's shape and the decisions that it records; processing an item   *)
(* yields a context of the right shape that keeps the decisions made       *)
(* before, and well-formed new items.  The last two parts relate a context *)
(* to the items that are still to be processed: Good says what is decided  *)
(* or will be looked after of requests, locks and conflicts, Met says it   *)
(* of requirements.                                                        *)
(***************************************************************************)
EXTENDS ResolverProperties, FunctionTheorems, FiniteSetTheorems, NaturalsInduction,
        WellFoundedInduction, TLAPS

-----------------------------------------------------------------------------
(* Lists *)

\* A non-empty set of naturals has a smallest element.
LEMMA SmallestExists ==
  ASSUME NEW T \in SUBSET Nat, T # {}
  PROVE  \E i \in T : \A j \in T : i <= j
<1>1. PICK i \in T : \A j \in T : <<j, i>> \notin OpToRel(<, Nat)
  BY NatLessThanWellFounded, WFMin
<1>2. \A j \in T : ~(j < i)
  BY <1>1 DEF OpToRel
<1> QED
  BY <1>2

\* A finite set with pairwise different positions: its k-th element exists.
LEMMA NthExists ==
  ASSUME NEW placed, IsFiniteSet(placed),
         \A t \in placed : t[1] \in Int,
         \A t, u \in placed : t[1] = u[1] => t = u,
         NEW k \in 1..Cardinality(placed)
  PROVE  /\ Nth(placed, k) \in placed
         /\ Cardinality({u \in placed : u[1] <= Nth(placed, k)[1]}) = k
<1> DEFINE n == Cardinality(placed)
           Below(t) == {u \in placed : u[1] <= t[1]}
           rank == [t \in placed |-> Cardinality(Below(t))]
<1>1. n \in Nat /\ IsFiniteSet(1..n) /\ Cardinality(1..n) = n
  BY FS_CardinalityType, FS_Interval
<1>2. ASSUME NEW t \in placed
      PROVE  /\ Cardinality(Below(t)) \in 1..n
             /\ IsFiniteSet(Below(t))
  <2>1. Below(t) \in SUBSET placed /\ t \in Below(t)
    OBVIOUS
  <2>2. IsFiniteSet(Below(t)) /\ Cardinality(Below(t)) <= n /\ Cardinality(Below(t)) \in Nat
    BY <2>1, FS_Subset, FS_CardinalityType
  <2>3. Cardinality(Below(t)) # 0
    BY <2>1, <2>2, FS_EmptySet
  <2> QED
    BY <1>1, <2>2, <2>3
<1>3. ASSUME NEW t \in placed, NEW u \in placed, t[1] < u[1]
      PROVE  Cardinality(Below(t)) # Cardinality(Below(u))
  <2>1. Below(t) \in SUBSET Below(u) /\ u \in Below(u) /\ u \notin Below(t)
    BY <1>3
  <2> QED
    BY <2>1, <1>2, FS_Subset
<1>4. rank \in Injection(placed, 1..n)
  <2>1. rank \in [placed -> 1..n]
    BY <1>2
  <2>2. ASSUME NEW t \in placed, NEW u \in placed, rank[t] = rank[u]
        PROVE  t = u
    BY <1>3, <2>2
  <2> QED
    BY <2>1, <2>2 DEF Injection, IsInjective
<1>5. rank \in Surjection(placed, 1..n)
  BY <1>1, <1>4, FS_Injection
<1>6. PICK t \in placed : rank[t] = k
  BY <1>5 DEF Surjection
<1> QED
  BY <1>6 DEF Nth

\* A set is listed by its own elements.
LEMMA ListedType ==
  ASSUME NEW S, IsFiniteSet(S), NEW position,
         \A x \in S : position[x] \in Int,
         \A x, y \in S : position[x] = position[y] => x = y
  PROVE  Listed(S, position) \in Seq(S)
<1> DEFINE placed == {<<position[x], x>> : x \in S}
           place == [x \in S |-> <<position[x], x>>]
<1>1. place \in Surjection(S, placed)
  BY DEF Surjection
<1>2. IsFiniteSet(placed)
  BY <1>1, FS_Surjection
<1>3. Cardinality(placed) \in Nat
  BY <1>2, FS_CardinalityType
<1>4. ASSUME NEW k \in 1..Cardinality(placed)
      PROVE  Nth(placed, k)[2] \in S
  <2>1. \A t \in placed : t[1] \in Int /\ t[2] \in S
    OBVIOUS
  <2>2. \A t, u \in placed : t[1] = u[1] => t = u
    OBVIOUS
  <2>3. Nth(placed, k) \in placed
    BY <1>2, <2>1, <2>2, NthExists
  <2> QED
    BY <2>1, <2>3
<1> QED
  BY <1>3, <1>4 DEF Listed

\* A listing goes once through all elements of the set.
LEMMA ListedOnce ==
  ASSUME NEW S, IsFiniteSet(S), NEW position,
         \A x \in S : position[x] \in Int,
         \A x, y \in S : position[x] = position[y] => x = y
  PROVE  /\ Listed(S, position) \in [1..Cardinality(S) -> S]
         /\ \A j, k \in 1..Cardinality(S) :
              Listed(S, position)[j] = Listed(S, position)[k] => j = k
         /\ \A x \in S : \E k \in 1..Cardinality(S) : Listed(S, position)[k] = x
<1> DEFINE placed == {<<position[x], x>> : x \in S}
           place == [x \in S |-> <<position[x], x>>]
           n == Cardinality(S)
           f == Listed(S, position)
<1>1. place \in Bijection(S, placed)
  BY DEF Surjection, Injection, Bijection, IsInjective
<1>2. IsFiniteSet(placed) /\ Cardinality(placed) = n /\ n \in Nat
  BY <1>1, FS_Bijection, FS_CardinalityType, Fun_ExistsBij
<1>3. ASSUME NEW k \in 1..n
      PROVE  /\ Nth(placed, k) \in placed
             /\ Cardinality({u \in placed : u[1] <= Nth(placed, k)[1]}) = k
             /\ f[k] \in S /\ Nth(placed, k) = <<position[f[k]], f[k]>>
  <2>1. \A t \in placed : t[1] \in Int /\ t[2] \in S /\ t = <<position[t[2]], t[2]>>
    OBVIOUS
  <2>2. \A t, u \in placed : t[1] = u[1] => t = u
    OBVIOUS
  <2>3. /\ Nth(placed, k) \in placed
        /\ Cardinality({u \in placed : u[1] <= Nth(placed, k)[1]}) = k
    BY <1>2, <2>1, <2>2, NthExists
  <2>4. f[k] = Nth(placed, k)[2]
    BY <1>2 DEF Listed
  <2> QED
    BY <2>1, <2>3, <2>4
<1>4. f \in [1..n -> S]
  BY <1>2, <1>3 DEF Listed
<1>5. ASSUME NEW j \in 1..n, NEW k \in 1..n, f[j] = f[k]
      PROVE  j = k
  <2>1. Nth(placed, j) = Nth(placed, k)
    BY <1>3, <1>5
  <2> HIDE DEF placed
  <2> QED
    BY <1>3, <2>1
<1>6. f \in Injection(1..n, S)
  BY <1>4, <1>5 DEF Injection, IsInjective
<1>7. IsFiniteSet(1..n) /\ Cardinality(1..n) = n
  BY <1>2, FS_Interval
<1>8. f \in Surjection(1..n, S)
  BY <1>6, <1>7, FS_Injection
<1> QED
  BY <1>4, <1>5, <1>8 DEF Surjection

-----------------------------------------------------------------------------
(* Contexts *)

\* Every package and every dependency has a position of its own.
LEMMA PositionsDiffer ==
  /\ \A p \in Pkg : PkgPosition[p] \in DOMAIN PkgSeq /\ PkgSeq[PkgPosition[p]] = p
  /\ \A d \in Dep : DepPosition[d] \in DOMAIN DepSeq /\ DepSeq[DepPosition[d]] = d
BY DEF Pkg, Dep, PkgPosition, DepPosition

\* There are finitely many packages and dependencies.
LEMMA UniverseIsFinite == IsFiniteSet(Pkg) /\ IsFiniteSet(Dep)
<1>1. IsFiniteSet(DOMAIN PkgSeq) /\ IsFiniteSet(DOMAIN DepSeq)
  <2>1. Len(PkgSeq) \in Nat /\ DOMAIN PkgSeq = 1..Len(PkgSeq)
    BY UniverseAssumption
  <2>2. Len(DepSeq) \in Nat /\ DOMAIN DepSeq = 1..Len(DepSeq)
    BY UniverseAssumption
  <2> QED
    BY <2>1, <2>2, FS_Interval
<1>2. PkgSeq \in Surjection(DOMAIN PkgSeq, Pkg) /\ DepSeq \in Surjection(DOMAIN DepSeq, Dep)
  BY UniverseAssumption DEF Surjection, Pkg, Dep
<1> QED
  BY <1>1, <1>2, FS_Surjection

\* A set of packages in the order of the world is a sequence of them.
LEMMA InOrderType == ASSUME NEW S \in SUBSET Pkg PROVE InOrder(S) \in Seq(S)
<1>1. IsFiniteSet(S)
  BY UniverseIsFinite, FS_Subset
<1>2. DOMAIN PkgSeq \subseteq Int
  BY UniverseAssumption
<1>3. /\ \A x \in S : PkgPosition[x] \in Int
      /\ \A x, y \in S : PkgPosition[x] = PkgPosition[y] => x = y
  BY <1>2, PositionsDiffer
<1> QED
  BY <1>1, <1>3, ListedType DEF InOrder

\* A set of dependencies in the order of the arrays is a sequence of them.
LEMMA DepsInOrderType == ASSUME NEW D \in SUBSET Dep PROVE DepsInOrder(D) \in Seq(D)
<1>1. IsFiniteSet(D)
  BY UniverseIsFinite, FS_Subset
<1>2. DOMAIN DepSeq \subseteq Int
  BY UniverseAssumption
<1>3. /\ \A x \in D : DepPosition[x] \in Int
      /\ \A x, y \in D : DepPosition[x] = DepPosition[y] => x = y
  BY <1>2, PositionsDiffer
<1> QED
  BY <1>1, <1>3, ListedType DEF DepsInOrder

\* Listed in their order, packages and dependencies are all there.
LEMMA InOrderAll == ASSUME NEW S \in SUBSET Pkg PROVE ToSet(InOrder(S)) = S
<1> DEFINE n == Cardinality(S)
<1>1. IsFiniteSet(S)
  BY UniverseIsFinite, FS_Subset
<1>2. DOMAIN PkgSeq \subseteq Int
  BY UniverseAssumption
<1>3. /\ \A x \in S : PkgPosition[x] \in Int
      /\ \A x, y \in S : PkgPosition[x] = PkgPosition[y] => x = y
  BY <1>2, PositionsDiffer
<1>4. InOrder(S) = Listed(S, PkgPosition)
  BY DEF InOrder
<1>5. /\ InOrder(S) \in [1..n -> S]
      /\ \A x \in S : \E k \in 1..n : InOrder(S)[k] = x
  BY <1>1, <1>3, <1>4, ListedOnce
<1> HIDE DEF n
<1> QED
  BY <1>5 DEF ToSet

LEMMA DepsInOrderAll == ASSUME NEW D \in SUBSET Dep PROVE ToSet(DepsInOrder(D)) = D
<1> DEFINE n == Cardinality(D)
<1>1. IsFiniteSet(D)
  BY UniverseIsFinite, FS_Subset
<1>2. DOMAIN DepSeq \subseteq Int
  BY UniverseAssumption
<1>3. /\ \A x \in D : DepPosition[x] \in Int
      /\ \A x, y \in D : DepPosition[x] = DepPosition[y] => x = y
  BY <1>2, PositionsDiffer
<1>4. DepsInOrder(D) = Listed(D, DepPosition)
  BY DEF DepsInOrder
<1>5. /\ DepsInOrder(D) \in [1..n -> D]
      /\ \A x \in D : \E k \in 1..n : DepsInOrder(D)[k] = x
  BY <1>1, <1>3, <1>4, ListedOnce
<1> HIDE DEF n
<1> QED
  BY <1>5 DEF ToSet

\* What a sequence that was reversed, or put together, is made of.
LEMMA ReverseAll == ASSUME NEW S, NEW s \in Seq(S) PROVE ToSet(Reverse(s)) = ToSet(s)
<1> DEFINE t == Reverse(s)  n == Len(s)
<1>1. n \in Nat /\ DOMAIN s = 1..n /\ DOMAIN t = 1..n /\ \A i \in 1..n : t[i] = s[(n - i) + 1]
  BY DEF Reverse
<1> HIDE DEF t, n
<1>2. \A i \in 1..n : (n - i) + 1 \in 1..n /\ t[(n - i) + 1] = s[i]
  <2> TAKE i \in 1..n
  <2>1. (n - i) + 1 \in 1..n /\ (n - ((n - i) + 1)) + 1 = i
    BY <1>1
  <2> QED
    BY <1>1, <2>1
<1>3. \A i \in 1..n : t[i] = s[(n - i) + 1]
  BY <1>1
<1>4. /\ \A x \in ToSet(s) : x \in ToSet(t)
      /\ \A x \in ToSet(t) : x \in ToSet(s)
  BY <1>1, <1>2, <1>3 DEF ToSet
<1>5. ToSet(t) = ToSet(s)
  BY <1>4
<1> QED
  BY <1>5 DEF t

LEMMA ConcatAll ==
  ASSUME NEW S, NEW s \in Seq(S), NEW t \in Seq(S)
  PROVE  ToSet(s \o t) = ToSet(s) \cup ToSet(t)
<1> DEFINE u == s \o t
<1>1. /\ Len(s) \in Nat /\ Len(t) \in Nat /\ DOMAIN s = 1..Len(s) /\ DOMAIN t = 1..Len(t)
      /\ DOMAIN u = 1..(Len(s) + Len(t))
      /\ \A i \in 1..Len(s) : u[i] = s[i] /\ i \in DOMAIN u
      /\ \A i \in 1..Len(t) : u[Len(s) + i] = t[i] /\ Len(s) + i \in DOMAIN u
      /\ \A i \in DOMAIN u : i \in 1..Len(s) \/ i - Len(s) \in 1..Len(t)
  OBVIOUS
<1> HIDE DEF u
<1>2. ASSUME NEW i \in DOMAIN u PROVE u[i] \in ToSet(s) \cup ToSet(t)
  <2>1. CASE i \in 1..Len(s)
    BY <1>1, <2>1 DEF ToSet
  <2>2. CASE i - Len(s) \in 1..Len(t)
    <3>1. Len(s) + (i - Len(s)) = i
      BY <1>1
    <3>2. u[i] = t[i - Len(s)]
      BY <1>1, <2>2, <3>1
    <3> QED
      BY <1>1, <2>2, <3>2 DEF ToSet
  <2> QED
    BY <1>1, <2>1, <2>2
<1>3. \A i \in DOMAIN s : s[i] \in ToSet(u)
  BY <1>1 DEF ToSet
<1>4. \A i \in DOMAIN t : t[i] \in ToSet(u)
  BY <1>1 DEF ToSet
<1>5. \A x \in ToSet(u) : x \in ToSet(s) \cup ToSet(t)
  BY <1>2 DEF ToSet
<1>6. \A x \in ToSet(s) \cup ToSet(t) : x \in ToSet(u)
  BY <1>3, <1>4 DEF ToSet
<1>7. ToSet(u) = ToSet(s) \cup ToSet(t)
  BY <1>5, <1>6
<1> QED
  BY <1>7 DEF u

\* Positions in a table of rows of n columns.
LEMMA RowAndColumn ==
  ASSUME NEW n \in Nat, NEW a \in Nat, NEW b \in Nat, NEW c \in 1..n, NEW d \in 1..n,
         a * (n + 1) + c = b * (n + 1) + d
  PROVE  a = b /\ c = d
<1>1. ASSUME NEW x \in Nat, NEW y \in Nat, NEW u \in 1..n, NEW v \in 1..n, x < y
      PROVE  x * (n + 1) + u < y * (n + 1) + v
  <2>1. PICK k \in Nat : y = x + 1 + k
    <3>1. y - x - 1 \in Nat /\ y = x + 1 + (y - x - 1)
      BY <1>1
    <3> QED
      BY <3>1
  <2>2. y * (n + 1) = x * (n + 1) + (n + 1) + k * (n + 1)
    BY <2>1
  <2>3. k * (n + 1) \in Nat /\ x * (n + 1) \in Nat /\ y * (n + 1) \in Nat
    BY <2>1
  <2> QED
    BY <2>2, <2>3
<1>2. ~(a < b) /\ ~(b < a)
  BY <1>1
<1> QED
  BY <1>2

\* So has every package with one dependency.
LEMMA PairsDiffer ==
  ASSUME NEW X \in SUBSET (Pkg \X Dep)
  PROVE  /\ IsFiniteSet(X) /\ \A x \in X : PairPosition[x] \in Int
         /\ \A x, y \in X : PairPosition[x] = PairPosition[y] => x = y
<1> DEFINE n == Len(DepSeq)
<1>1. n \in Nat /\ DOMAIN DepSeq = 1..n /\ DOMAIN PkgSeq \subseteq Nat
  BY UniverseAssumption
<1>2. IsFiniteSet(X)
  BY UniverseIsFinite, FS_Product, FS_Subset
<1>3. ASSUME NEW x \in X
      PROVE  /\ PkgPosition[x[1]] \in Nat /\ DepPosition[x[2]] \in 1..n
             /\ PairPosition[x] = PkgPosition[x[1]] * (n + 1) + DepPosition[x[2]]
  BY <1>1, PositionsDiffer DEF PairPosition
<1>4. \A x \in X : PairPosition[x] \in Int
  BY <1>1, <1>3
<1>5. ASSUME NEW x \in X, NEW y \in X, PairPosition[x] = PairPosition[y]
      PROVE  x = y
  <2>1. PkgPosition[x[1]] = PkgPosition[y[1]] /\ DepPosition[x[2]] = DepPosition[y[2]]
    <3> DEFINE at(a, c) == a * (n + 1) + c
    <3>1. \A a, b \in Nat : \A c, d \in 1..n : at(a, c) = at(b, d) => a = b /\ c = d
      BY <1>1, RowAndColumn
    <3>2. at(PkgPosition[x[1]], DepPosition[x[2]]) = at(PkgPosition[y[1]], DepPosition[y[2]])
      BY <1>3, <1>5
    <3> HIDE DEF at
    <3> QED
      BY <1>3, <3>1, <3>2
  <2>2. x[1] = y[1] /\ x[2] = y[2]
    BY <2>1, PositionsDiffer
  <2> QED
    BY <2>2
<1> QED
  BY <1>2, <1>4, <1>5

\* So a set of them is a sequence, too, and in their order they are all there.
LEMMA PairsInOrderType == ASSUME NEW X \in SUBSET (Pkg \X Dep) PROVE PairsInOrder(X) \in Seq(X)
BY PairsDiffer, ListedType DEF PairsInOrder

LEMMA PairsInOrderAll ==
  ASSUME NEW X \in SUBSET (Pkg \X Dep)
  PROVE  \A x \in X : \E i \in DOMAIN PairsInOrder(X) : PairsInOrder(X)[i] = x
<1> DEFINE m == Cardinality(X)
<1>1. /\ IsFiniteSet(X) /\ \A x \in X : PairPosition[x] \in Int
      /\ \A x, y \in X : PairPosition[x] = PairPosition[y] => x = y
  BY PairsDiffer
<1>2. PairsInOrder(X) = Listed(X, PairPosition)
  BY DEF PairsInOrder
<1>3. /\ PairsInOrder(X) \in [1..m -> X]
      /\ \A x \in X : \E k \in 1..m : PairsInOrder(X)[k] = x
  BY <1>1, <1>2, ListedOnce
<1> HIDE DEF m
<1> QED
  BY <1>3

\* A set of packages that is not empty has a first element.
LEMMA FirstOfType == ASSUME NEW S \in SUBSET Pkg, S # {} PROVE FirstOf(S) \in S
<1> DEFINE placed == {<<PkgPosition[p], p>> : p \in S}
           place == [p \in S |-> <<PkgPosition[p], p>>]
<1>1. \A p \in S : PkgPosition[p] \in Int
  <2>1. DOMAIN PkgSeq \subseteq Int
    BY UniverseAssumption
  <2> QED
    BY <2>1, PositionsDiffer
<1>2. IsFiniteSet(placed)
  <2>1. place \in Surjection(S, placed)
    BY DEF Surjection
  <2> QED
    BY <2>1, UniverseIsFinite, FS_Subset, FS_Surjection
<1>3. 1 \in 1..Cardinality(placed)
  <2>1. placed # {}
    OBVIOUS
  <2> QED
    BY <1>2, <2>1, FS_EmptySet, FS_CardinalityType
<1>4. /\ \A t \in placed : t[1] \in Int
      /\ \A t, u \in placed : t[1] = u[1] => t = u
  BY <1>1, PositionsDiffer
<1> DEFINE first == Nth(placed, 1)
           below == {u \in placed : u[1] <= first[1]}
<1>5. first \in placed /\ Cardinality(below) = 1
  BY <1>2, <1>3, <1>4, NthExists
<1>6. below = {first}
  <2>1. IsFiniteSet(below)
    BY <1>2, FS_Subset
  <2>2. PICK x : below = {x}
    BY <1>5, <2>1, FS_Singleton
  <2>3. first \in below
    BY <1>4, <1>5
  <2> QED
    BY <2>2, <2>3
<1>7. \A q \in S : PkgPosition[first[2]] <= PkgPosition[q]
  <2>1. ASSUME NEW q \in S, ~(first[1] <= PkgPosition[q])
        PROVE  FALSE
    <3>1. <<PkgPosition[q], q>> \in below
      BY <1>1, <1>4, <1>5, <2>1
    <3> QED
      BY <1>1, <1>4, <1>6, <2>1, <3>1
  <2> QED
    BY <1>5, <2>1
<1>8. first[2] \in S
  BY <1>5
<1> HIDE DEF first
<1> QED
  BY <1>7, <1>8 DEF FirstOf

\* The installed version of a package is a package or none.
LEMMA InstalledVersionType ==
  ASSUME world \in WorldType, NEW p \in Pkg
  PROVE  FindInstalledVersion(p) \in Pkg \cup {NONE}
BY FirstOfType DEF FindInstalledVersion, WorldType

\* The single provider of a dependency is a package or none.
LEMMA SingleProviderType ==
  ASSUME world \in WorldType, NEW d \in Dep, SingleProvider(d) # NONE
  PROVE  SingleProvider(d) \in Pkg
BY FirstOfType DEF SingleProvider, WorldType

-----------------------------------------------------------------------------
\* rc_resolver_context_get_status returns a status, never the absence of one.
LEMMA StatusType ==
  ASSUME NEW c \in ContextType, NEW p \in Pkg
  PROVE  GetStatus(c, p) \in PackageStatus
<1> DEFINE marked == {i \in DOMAIN c.chain : c.chain[i][p] # "UNKNOWN"}
<1>1. CASE marked = {}
  BY <1>1 DEF GetStatus, PackageStatus
<1>2. CASE marked # {}
  <2>1. c.chain \in Seq([Pkg -> Mark])
    BY DEF ContextType
  <2>2. marked \in SUBSET Nat
    BY <2>1
  <2>3. \E i \in marked : \A j \in marked : i <= j
    BY <1>2, <2>2, SmallestExists
  <2>4. (CHOOSE i \in marked : \A j \in marked : i <= j) \in marked
    BY <2>3
  <2>5. \A i \in marked : c.chain[i][p] \in PackageStatus
    BY <2>1 DEF Mark
  <2> QED
    BY <1>2, <2>4, <2>5 DEF GetStatus
<1> QED
  BY <1>1, <1>2

\* Marking a package keeps the shape of a context.
LEMMA SetStatusType ==
  ASSUME NEW c \in ContextType, NEW p, NEW status \in Mark
  PROVE  SetStatus(c, p, status) \in ContextType
BY DEF SetStatus, ContextType

\* An error keeps the shape of a context.
LEMMA AddErrorType == ASSUME NEW c \in ContextType PROVE AddError(c) \in ContextType
BY DEF AddError, ContextType

\* A new context is one.
LEMMA NewContextType == ASSUME NEW v \in BOOLEAN PROVE NewContext(v) \in ContextType
BY MaxIntAssumption DEF NewContext, ContextType, Unmarked, Mark

\* The child of a context is one.
LEMMA NewChildType == ASSUME NEW c \in ContextType PROVE NewChild(c) \in ContextType
<1>1. <<Unmarked>> \in Seq([Pkg -> Mark])
  BY DEF Unmarked, Mark
<1>2. c.chain \in Seq([Pkg -> Mark])
  BY DEF ContextType
<1>3. <<Unmarked>> \o c.chain \in Seq([Pkg -> Mark])
  BY <1>1, <1>2
<1> QED
  BY <1>3 DEF NewChild, ContextType

\* Charging a context for a package keeps its figures numbers.
LEMMA ChargeType ==
  ASSUME NEW c \in ContextType, NEW p \in Pkg, NEW penalty \in Int, NEW disk \in Nat
  PROVE  Charge(c, p, penalty, disk) \in ContextType
<1>1. SizeOf[p] \in Nat /\ PriorityOf[p] \in Nat
  BY UniverseAssumption
<1>2. /\ c.download + SizeOf[p] \in Nat /\ c.disk + disk \in Nat
      /\ c.minPriority \in Nat /\ c.penalties + penalty \in Int
  BY <1>1 DEF ContextType
<1>3. \A n \in Nat : n % SizeModulus \in Nat
  BY ModulusAssumption
<1>4. (c.download + SizeOf[p]) % SizeModulus \in Nat /\ (c.disk + disk) % SizeModulus \in Nat
  BY <1>2, <1>3, Zenon
<1>5. \A m \in Nat : [c EXCEPT !.download = (@ + SizeOf[p]) % SizeModulus,
                               !.disk = (@ + disk) % SizeModulus,
                               !.minPriority = m, !.penalties = @ + penalty] \in ContextType
  BY <1>2, <1>4 DEF ContextType
<1> QED
  BY <1>1, <1>2, <1>5 DEF Charge

\* Installing a package keeps the shape of a context.
LEMMA InstallPackageType ==
  ASSUME NEW c \in ContextType, NEW p \in Pkg, NEW penalty \in Int
  PROVE  InstallPackage(c, p, penalty) \in ContextType
<1>1. DiskSizeOf[p] \in Nat
  BY UniverseAssumption
<1>2. \A status \in Mark : SetStatus(c, p, status) \in ContextType
  BY SetStatusType
<1>3. \A s \in ContextType : Charge(s, p, penalty, DiskSizeOf[p]) \in ContextType
  BY <1>1, ChargeType
<1>4. AddError(c) \in ContextType
  BY AddErrorType
<1> QED
  BY <1>2, <1>3, <1>4 DEF InstallPackage, Mark, PackageStatus, ToBeInstalled

\* Upgrading to a package keeps the shape of a context.
LEMMA UpgradePackageType ==
  ASSUME NEW c \in ContextType, NEW p \in Pkg, NEW penalty \in Int
  PROVE  UpgradePackage(c, p, penalty) \in ContextType
<1>1. \A status \in Mark : SetStatus(c, p, status) \in ContextType
  BY SetStatusType
<1>2. \A s \in ContextType : Charge(s, p, penalty, 0) \in ContextType
  BY ChargeType
<1> QED
  BY <1>1, <1>2 DEF UpgradePackage, Mark, PackageStatus, ToBeInstalled

\* Uninstalling a package keeps the shape of a context.
LEMMA UninstallPackageType ==
  ASSUME NEW c \in ContextType, NEW p, NEW obsolete, NEW unlink
  PROVE  UninstallPackage(c, p, obsolete, unlink) \in ContextType
<1>1. \A status \in Mark : SetStatus(c, p, status) \in ContextType
  BY SetStatusType
<1>2. AddError(c) \in ContextType
  BY AddErrorType
<1> QED
  BY <1>1, <1>2 DEF UninstallPackage, Mark, PackageStatus, ToBeUninstalled

-----------------------------------------------------------------------------
(* Decisions: a package that is to be installed or removed stays so.       *)

Decided == {"TO_BE_INSTALLED", "TO_BE_UNINSTALLED", "DUE_TO_OBSOLETE"}

KeepsDecisions(c, after) ==
  \A p \in Pkg : GetStatus(c, p) \in Decided => GetStatus(after, p) = GetStatus(c, p)

\* Contexts that agree on a package at every level give it one status.
LEMMA SameLevelsSameStatus ==
  ASSUME NEW c \in ContextType, NEW e \in ContextType, NEW p \in Pkg,
         DOMAIN e.chain = DOMAIN c.chain,
         \A i \in DOMAIN c.chain : e.chain[i][p] = c.chain[i][p]
  PROVE  GetStatus(e, p) = GetStatus(c, p)
<1> DEFINE Marked(x) == {i \in DOMAIN x.chain : x.chain[i][p] # "UNKNOWN"}
           level == CHOOSE i \in Marked(c) : \A j \in Marked(c) : i <= j
<1>1. Marked(e) = Marked(c)
  OBVIOUS
<1>2. CASE Marked(c) = {}
  BY <1>1, <1>2 DEF GetStatus
<1>3. CASE Marked(c) # {}
  <2>1. Marked(c) \in SUBSET Nat
    BY DEF ContextType
  <2>2. \E i \in Marked(c) : \A j \in Marked(c) : i <= j
    BY <1>3, <2>1, SmallestExists
  <2>3. level \in DOMAIN c.chain
    BY <2>2
  <2>4. GetStatus(c, p) = c.chain[level][p]
    BY <1>3 DEF GetStatus
  <2>5. GetStatus(e, p) = e.chain[level][p]
    BY <1>1, <1>3 DEF GetStatus
  <2> QED
    BY <2>3, <2>4, <2>5
<1> QED
  BY <1>2, <1>3

\* Marking a package leaves the status of the others.
LEMMA SetStatusOfOthers ==
  ASSUME NEW c \in ContextType, NEW p, NEW q \in Pkg, q # p, NEW status \in Mark
  PROVE  GetStatus(SetStatus(c, p, status), q) = GetStatus(c, q)
<1>1. SetStatus(c, p, status) \in ContextType
  BY SetStatusType
<1>2. /\ DOMAIN SetStatus(c, p, status).chain = DOMAIN c.chain
      /\ \A i \in DOMAIN c.chain : SetStatus(c, p, status).chain[i][q] = c.chain[i][q]
  BY DEF SetStatus, ContextType
<1> QED
  BY <1>1, <1>2, SameLevelsSameStatus

\* Marking a package that is not decided takes back no decision.
LEMMA SetStatusKeeps ==
  ASSUME NEW c \in ContextType, NEW p, NEW status \in Mark,
         GetStatus(c, p) \notin Decided
  PROVE  KeepsDecisions(c, SetStatus(c, p, status))
BY SetStatusOfOthers DEF KeepsDecisions

\* What touches no mark takes back no decision.
LEMMA SameChainKeeps ==
  ASSUME NEW c \in ContextType, NEW e \in ContextType, e.chain = c.chain
  PROVE  KeepsDecisions(c, e)
BY SameLevelsSameStatus DEF KeepsDecisions

\* An error takes back no decision.
LEMMA AddErrorKeeps == ASSUME NEW c \in ContextType PROVE KeepsDecisions(c, AddError(c))
<1>1. AddError(c).chain = c.chain
  BY DEF AddError, ContextType
<1> QED
  BY <1>1, AddErrorType, SameChainKeeps

\* A charge takes back no decision.
LEMMA ChargeKeeps ==
  ASSUME NEW c \in ContextType, NEW e \in ContextType, KeepsDecisions(c, e),
         NEW p \in Pkg, NEW penalty \in Int, NEW disk \in Nat
  PROVE  KeepsDecisions(c, Charge(e, p, penalty, disk))
<1>1. Charge(e, p, penalty, disk).chain = e.chain
  BY DEF Charge, ContextType
<1>2. \A q \in Pkg : GetStatus(Charge(e, p, penalty, disk), q) = GetStatus(e, q)
  BY <1>1, ChargeType, SameLevelsSameStatus
<1> QED
  BY <1>2 DEF KeepsDecisions

\* Installing a package takes back no decision.
LEMMA InstallPackageKeeps ==
  ASSUME NEW c \in ContextType, NEW p \in Pkg, NEW penalty \in Int
  PROVE  KeepsDecisions(c, InstallPackage(c, p, penalty))
<1> DEFINE status == GetStatus(c, p)
<1>1. status \in PackageStatus /\ DiskSizeOf[p] \in Nat
  BY StatusType, UniverseAssumption
<1>2. CASE status \in ToBeUninstalled \ {"DUE_TO_UNLINK"} \/ status \in ToBeInstalled
  <2>1. InstallPackage(c, p, penalty) \in {c, AddError(c)}
    BY <1>2 DEF InstallPackage, ToBeInstalled, ToBeUninstalled
  <2> QED
    BY <2>1, AddErrorKeeps DEF KeepsDecisions
<1>3. CASE status \notin ToBeUninstalled \ {"DUE_TO_UNLINK"} /\ status \notin ToBeInstalled
  <2>1. status \notin Decided
    BY <1>3 DEF Decided, ToBeInstalled, ToBeUninstalled
  <2>2. \A s \in Mark : /\ SetStatus(c, p, s) \in ContextType
                        /\ KeepsDecisions(c, SetStatus(c, p, s))
    BY <2>1, SetStatusType, SetStatusKeeps
  <2>3. \A s \in Mark : KeepsDecisions(c, Charge(SetStatus(c, p, s), p, penalty, DiskSizeOf[p]))
    BY <1>1, <2>2, ChargeKeeps
  <2>4. KeepsDecisions(c, AddError(c))
    BY AddErrorKeeps
  <2> QED
    BY <1>3, <2>2, <2>3, <2>4 DEF InstallPackage, Mark, PackageStatus, ToBeInstalled
<1> QED
  BY <1>2, <1>3

\* Upgrading to a package takes back no decision.
LEMMA UpgradePackageKeeps ==
  ASSUME NEW c \in ContextType, NEW p \in Pkg, NEW penalty \in Int
  PROVE  KeepsDecisions(c, UpgradePackage(c, p, penalty))
<1> DEFINE status == GetStatus(c, p)
<1>1. CASE status \in ToBeUninstalled \cup ToBeInstalled
  <2>1. UpgradePackage(c, p, penalty) = c
    BY <1>1 DEF UpgradePackage, ToBeInstalled, ToBeUninstalled
  <2> QED
    BY <2>1 DEF KeepsDecisions
<1>2. CASE status \notin ToBeUninstalled \cup ToBeInstalled
  <2>1. status \notin Decided
    BY <1>2 DEF Decided, ToBeInstalled, ToBeUninstalled
  <2>2. \A s \in Mark : /\ SetStatus(c, p, s) \in ContextType
                        /\ KeepsDecisions(c, SetStatus(c, p, s))
    BY <2>1, SetStatusType, SetStatusKeeps
  <2>3. \A s \in Mark : KeepsDecisions(c, Charge(SetStatus(c, p, s), p, penalty, 0))
    BY <2>2, ChargeKeeps
  <2> QED
    BY <1>2, <2>2, <2>3 DEF UpgradePackage, Mark, PackageStatus, ToBeInstalled
<1> QED
  BY <1>1, <1>2

\* Uninstalling a package takes back no decision.
LEMMA UninstallPackageKeeps ==
  ASSUME NEW c \in ContextType, NEW p, NEW obsolete, NEW unlink
  PROVE  KeepsDecisions(c, UninstallPackage(c, p, obsolete, unlink))
<1> DEFINE status == GetStatus(c, p)
<1>1. CASE status \in Decided
  <2>1. UninstallPackage(c, p, obsolete, unlink) \in {c, AddError(c)}
    BY <1>1 DEF UninstallPackage, Decided, ToBeUninstalled
  <2> QED
    BY <2>1, AddErrorKeeps DEF KeepsDecisions
<1>2. CASE status \notin Decided
  <2>1. \A s \in Mark : KeepsDecisions(c, SetStatus(c, p, s))
    BY <1>2, SetStatusKeeps
  <2>2. KeepsDecisions(c, c)
    BY DEF KeepsDecisions
  <2> QED
    BY <1>2, <2>1, <2>2, AddErrorKeeps
       DEF UninstallPackage, Mark, PackageStatus, ToBeUninstalled, Decided
<1> QED
  BY <1>1, <1>2

-----------------------------------------------------------------------------
(* What the operations make of the statuses                                *)

\* A context that can be marked: it has a level of its own and no error.
IsUsable(c) == c \in ContextType /\ c.chain # <<>> /\ ~c.invalid

\* The first mark on the way up is the status.
LEMMA TopLevelCounts ==
  ASSUME NEW c \in ContextType, NEW p \in Pkg, c.chain # <<>>, c.chain[1][p] # "UNKNOWN"
  PROVE  GetStatus(c, p) = c.chain[1][p]
<1> DEFINE marked == {i \in DOMAIN c.chain : c.chain[i][p] # "UNKNOWN"}
<1>1. DOMAIN c.chain \subseteq Nat \ {0} /\ 1 \in DOMAIN c.chain
  BY DEF ContextType
<1>2. 1 \in marked /\ \A j \in marked : j \in Nat /\ 1 <= j
  BY <1>1
<1> HIDE DEF marked
<1>3. \A i \in marked : (\A j \in marked : i <= j) => i = 1
  BY <1>2
<1>4. (CHOOSE i \in marked : \A j \in marked : i <= j) = 1
  BY <1>2, <1>3
<1> QED
  BY <1>2, <1>4 DEF GetStatus, marked

\* A package that is marked has the status that it is marked with.
LEMMA SetStatusGives ==
  ASSUME NEW c, IsUsable(c), NEW p \in Pkg, NEW status \in PackageStatus
  PROVE  GetStatus(SetStatus(c, p, status), p) = status
<1> DEFINE e == [c EXCEPT !.chain[1][p] = status]
<1>1. CASE GetStatus(c, p) = status
  BY <1>1 DEF SetStatus
<1>2. CASE GetStatus(c, p) # status
  <2>1. SetStatus(c, p, status) = e
    BY <1>2 DEF SetStatus, IsUsable
  <2>2. e \in ContextType
    BY <2>1, SetStatusType DEF IsUsable, Mark
  <2>3. 1 \in DOMAIN c.chain /\ c.chain[1] \in [Pkg -> Mark]
    BY DEF IsUsable, ContextType
  <2>4. e.chain = [c.chain EXCEPT ![1] = [c.chain[1] EXCEPT ![p] = status]]
    BY DEF IsUsable, ContextType
  <2>5. e.chain[1][p] = status /\ e.chain # <<>>
    BY <2>3, <2>4
  <2>6. status # "UNKNOWN"
    BY DEF PackageStatus, ToBeInstalled, ToBeUninstalled
  <2> HIDE DEF e
  <2> QED
    BY <2>1, <2>2, <2>5, <2>6, TopLevelCounts
<1> QED
  BY <1>1, <1>2

\* A mark costs nothing but the mark.
LEMMA SetStatusLeaves ==
  ASSUME NEW c, IsUsable(c), NEW p, NEW status \in Mark
  PROVE  /\ IsUsable(SetStatus(c, p, status))
         /\ SetStatus(c, p, status).verifying = c.verifying
<1> DEFINE e == [c EXCEPT !.chain[1][p] = status]
<1>1. 1 \in DOMAIN c.chain /\ c \in ContextType
  BY DEF IsUsable, ContextType
<1>2. e.verifying = c.verifying /\ e.invalid = c.invalid /\ DOMAIN e.chain = DOMAIN c.chain
  BY <1>1 DEF ContextType
<1>3. e.chain # <<>>
  BY <1>1, <1>2
<1>4. e = SetStatus(c, p, status) \/ c = SetStatus(c, p, status)
  BY DEF SetStatus
<1>5. SetStatus(c, p, status) \in ContextType
  BY <1>1, SetStatusType
<1> HIDE DEF e
<1> QED
  BY <1>2, <1>3, <1>4, <1>5 DEF IsUsable

\* An error is one, and nothing else.
LEMMA AddErrorIsError == ASSUME NEW c \in ContextType PROVE AddError(c).invalid
BY DEF AddError, ContextType

\* What touches neither marks nor flags leaves the statuses and the use of a
\* context.
LEMMA ChargeLeaves ==
  ASSUME NEW c, IsUsable(c), NEW p \in Pkg, NEW penalty \in Int, NEW disk \in Nat
  PROVE  /\ IsUsable(Charge(c, p, penalty, disk))
         /\ Charge(c, p, penalty, disk).verifying = c.verifying
         /\ \A q \in Pkg : GetStatus(Charge(c, p, penalty, disk), q) = GetStatus(c, q)
<1> DEFINE e == Charge(c, p, penalty, disk)
<1>1. c \in ContextType /\ e \in ContextType
  BY ChargeType DEF IsUsable
<1>2. e.chain = c.chain /\ e.verifying = c.verifying /\ e.invalid = c.invalid
  BY <1>1 DEF Charge, ContextType
<1> HIDE DEF e
<1>3. \A q \in Pkg : GetStatus(e, q) = GetStatus(c, q)
  BY <1>1, <1>2, SameLevelsSameStatus
<1> QED
  BY <1>1, <1>2, <1>3 DEF IsUsable, e

\* At the start every package has the status that it has in the world.
LEMMA NewContextStatus ==
  ASSUME NEW v \in BOOLEAN, NEW p \in Pkg
  PROVE  /\ IsUsable(NewContext(v)) /\ NewContext(v).verifying = v
         /\ GetStatus(NewContext(v), p) = IF p \in world.installed THEN "INSTALLED" ELSE "UNINSTALLED"
<1>1. NewContext(v).chain = <<Unmarked>> /\ ~NewContext(v).invalid /\ NewContext(v).verifying = v
  BY DEF NewContext
<1>2. \A i \in DOMAIN <<Unmarked>> : <<Unmarked>>[i][p] = "UNKNOWN"
  BY DEF Unmarked
<1> QED
  BY <1>1, <1>2, NewContextType DEF IsUsable, GetStatus

\* A branch starts from what has been decided.
LEMMA NewChildStatus ==
  ASSUME NEW c, IsUsable(c), NEW p \in Pkg
  PROVE  /\ IsUsable(NewChild(c)) /\ NewChild(c).verifying = c.verifying
         /\ GetStatus(NewChild(c), p) = GetStatus(c, p)
<1> DEFINE e == NewChild(c)
           Marked(x) == {i \in DOMAIN x.chain : x.chain[i][p] # "UNKNOWN"}
           First(T) == CHOOSE i \in T : \A j \in T : i <= j
<1>1. c \in ContextType /\ e \in ContextType /\ c.chain \in Seq([Pkg -> Mark])
  BY NewChildType DEF IsUsable, ContextType
<1>2. e.chain = <<Unmarked>> \o c.chain /\ e.verifying = c.verifying /\ e.invalid = FALSE
  BY <1>1 DEF NewChild, ContextType
<1>3. /\ DOMAIN c.chain \subseteq Nat \ {0} /\ DOMAIN e.chain \subseteq Nat \ {0}
      /\ \A i \in DOMAIN c.chain : i + 1 \in DOMAIN e.chain /\ e.chain[i + 1] = c.chain[i]
      /\ \A i \in DOMAIN e.chain : i # 1 => i - 1 \in DOMAIN c.chain /\ e.chain[i] = c.chain[i - 1]
      /\ e.chain[1] = Unmarked /\ e.chain # <<>>
  BY <1>1, <1>2
<1>4. Unmarked[p] = "UNKNOWN"
  BY DEF Unmarked
<1>5. /\ \A i \in Marked(c) : i \in Nat /\ i + 1 \in Marked(e)
      /\ \A i \in Marked(e) : i \in Nat /\ i - 1 \in Marked(c)
  BY <1>3, <1>4
<1> HIDE DEF e
<1>6. CASE Marked(c) = {}
  <2>1. Marked(e) = {}
    BY <1>5, <1>6
  <2> QED
    BY <1>1, <1>2, <1>3, <1>6, <2>1 DEF GetStatus, IsUsable, e
<1>7. CASE Marked(c) # {}
  <2>1. PICK i \in Marked(c) : \A j \in Marked(c) : i <= j
    BY <1>5, <1>7, SmallestExists
  <2>2. i \in Nat /\ i + 1 \in Marked(e) /\ i + 1 \in Nat
    BY <1>5
  <2>3. ASSUME NEW j \in Marked(e)
        PROVE  i + 1 <= j
    BY <1>5, <2>1, <2>2
  <2>4. (\A j \in Marked(c) : j \in Nat) /\ (\A j \in Marked(e) : j \in Nat)
    BY <1>5
  <2>5. First(Marked(c)) = i
    <3> DEFINE T == Marked(c)
    <3>1. \A k \in T : (\A j \in T : k <= j) => k = i
      BY <2>1, <2>2, <2>4
    <3> HIDE DEF T
    <3> QED
      BY <2>1, <3>1 DEF T
  <2>6. First(Marked(e)) = i + 1
    <3> DEFINE T == Marked(e)
    <3>1. \A k \in T : (\A j \in T : k <= j) => k = i + 1
      BY <2>2, <2>3, <2>4
    <3>2. \E k \in T : \A j \in T : k <= j
      BY <2>2, <2>3
    <3> HIDE DEF T
    <3>3. (CHOOSE k \in T : \A j \in T : k <= j) = i + 1
      BY <3>1, <3>2
    <3> QED
      BY <3>3 DEF T
  <2>7. GetStatus(c, p) = c.chain[i][p] /\ GetStatus(e, p) = e.chain[i + 1][p]
    BY <1>7, <2>2, <2>5, <2>6 DEF GetStatus
  <2> QED
    BY <1>1, <1>2, <1>3, <2>1, <2>7 DEF IsUsable, e
<1> QED
  BY <1>6, <1>7

\* What an install does that succeeds (rc_resolver_context_install_package).
LEMMA InstallPackageEffect ==
  ASSUME NEW c, IsUsable(c), NEW p \in Pkg, NEW penalty \in Int,
         NEW e, e = InstallPackage(c, p, penalty), ~e.invalid
  PROVE  /\ IsUsable(e) /\ e.verifying = c.verifying
         /\ \A q \in Pkg : q # p => GetStatus(e, q) = GetStatus(c, q)
         /\ GetStatus(c, p) \in ToBeInstalled => e = c
         /\ GetStatus(c, p) \notin ToBeInstalled =>
              /\ GetStatus(c, p) \notin {"TO_BE_UNINSTALLED", "DUE_TO_OBSOLETE"}
              /\ ~IsParallelInstall(c, p)
              /\ GetStatus(e, p) = CASE c.verifying -> "TO_BE_INSTALLED_SOFT"
                                     [] ~c.verifying /\ GetStatus(c, p) = "DUE_TO_UNLINK" -> "INSTALLED"
                                     [] OTHER -> "TO_BE_INSTALLED"
<1> DEFINE status == GetStatus(c, p)
           new    == CASE c.verifying -> "TO_BE_INSTALLED_SOFT"
                       [] ~c.verifying /\ status = "DUE_TO_UNLINK" -> "INSTALLED"
                       [] OTHER -> "TO_BE_INSTALLED"
           marked == SetStatus(c, p, new)
<1>1. c \in ContextType /\ DiskSizeOf[p] \in Nat
  BY UniverseAssumption DEF IsUsable
<1>2. AddError(c).invalid
  BY <1>1, AddErrorIsError
<1>3. new \in PackageStatus /\ new \in Mark
  BY DEF PackageStatus, Mark, ToBeInstalled
<1>4. /\ IsUsable(marked) /\ marked.verifying = c.verifying
      /\ GetStatus(marked, p) = new
      /\ \A q \in Pkg : q # p => GetStatus(marked, q) = GetStatus(c, q)
  <2> HIDE DEF new
  <2>1. IsUsable(marked) /\ marked.verifying = c.verifying
    BY <1>3, SetStatusLeaves
  <2>2. GetStatus(marked, p) = new
    BY <1>3, SetStatusGives
  <2> QED
    BY <1>1, <1>3, <2>1, <2>2, SetStatusOfOthers
<1>5. /\ IsUsable(Charge(marked, p, penalty, DiskSizeOf[p]))
      /\ Charge(marked, p, penalty, DiskSizeOf[p]).verifying = c.verifying
      /\ \A q \in Pkg : GetStatus(Charge(marked, p, penalty, DiskSizeOf[p]), q) = GetStatus(marked, q)
  <2> HIDE DEF marked
  <2> QED
    BY <1>1, <1>4, ChargeLeaves
<1>6. /\ status \in ToBeUninstalled \ {"DUE_TO_UNLINK"} => e = AddError(c)
      /\ status \notin ToBeUninstalled \ {"DUE_TO_UNLINK"} /\ status \in ToBeInstalled => e = c
      /\ status \notin ToBeUninstalled \ {"DUE_TO_UNLINK"} /\ status \notin ToBeInstalled =>
           IF IsParallelInstall(c, p) THEN e = AddError(c)
           ELSE e \in {Charge(marked, p, penalty, DiskSizeOf[p]), marked}
  BY DEF InstallPackage, ToBeInstalled, ToBeUninstalled
<1> HIDE DEF marked, new
<1>7. status \notin ToBeUninstalled \ {"DUE_TO_UNLINK"}
  BY <1>2, <1>6
<1>8. status \notin {"TO_BE_UNINSTALLED", "DUE_TO_OBSOLETE"}
  BY <1>7 DEF ToBeUninstalled
<1>9. CASE status \in ToBeInstalled
  BY <1>6, <1>7, <1>9
<1>10. CASE status \notin ToBeInstalled
  <2>1. ~IsParallelInstall(c, p) /\ e \in {Charge(marked, p, penalty, DiskSizeOf[p]), marked}
    BY <1>2, <1>6, <1>7, <1>10
  <2>2. /\ IsUsable(e) /\ e.verifying = c.verifying
        /\ \A q \in Pkg : GetStatus(e, q) = GetStatus(marked, q)
    BY <1>4, <1>5, <2>1
  <2> QED
    BY <1>4, <1>8, <1>10, <2>1, <2>2 DEF new
<1> QED
  BY <1>9, <1>10

\* What an upgrade does (rc_resolver_context_upgrade_package).
LEMMA UpgradePackageEffect ==
  ASSUME NEW c, IsUsable(c), NEW p \in Pkg, NEW penalty \in Int,
         NEW e, e = UpgradePackage(c, p, penalty)
  PROVE  /\ IsUsable(e) /\ e.verifying = c.verifying
         /\ \A q \in Pkg : q # p => GetStatus(e, q) = GetStatus(c, q)
         /\ GetStatus(c, p) \in ToBeUninstalled \cup ToBeInstalled => e = c
         /\ GetStatus(c, p) \notin ToBeUninstalled \cup ToBeInstalled =>
              GetStatus(e, p) = IF c.verifying THEN "TO_BE_INSTALLED_SOFT" ELSE "TO_BE_INSTALLED"
<1> DEFINE status == GetStatus(c, p)
           new    == IF c.verifying THEN "TO_BE_INSTALLED_SOFT" ELSE "TO_BE_INSTALLED"
           marked == SetStatus(c, p, new)
<1>1. c \in ContextType
  BY DEF IsUsable
<1>3. new \in PackageStatus /\ new \in Mark
  BY DEF PackageStatus, Mark, ToBeInstalled
<1> HIDE DEF new
<1>4. /\ IsUsable(marked) /\ marked.verifying = c.verifying
      /\ GetStatus(marked, p) = new
      /\ \A q \in Pkg : q # p => GetStatus(marked, q) = GetStatus(c, q)
  <2>1. IsUsable(marked) /\ marked.verifying = c.verifying
    BY <1>3, SetStatusLeaves
  <2>2. GetStatus(marked, p) = new
    BY <1>3, SetStatusGives
  <2> QED
    BY <1>1, <1>3, <2>1, <2>2, SetStatusOfOthers
<1>5. /\ IsUsable(Charge(marked, p, penalty, 0))
      /\ Charge(marked, p, penalty, 0).verifying = c.verifying
      /\ \A q \in Pkg : GetStatus(Charge(marked, p, penalty, 0), q) = GetStatus(marked, q)
  <2> HIDE DEF marked
  <2> QED
    BY <1>1, <1>4, ChargeLeaves
<1>6. /\ status \in ToBeUninstalled \cup ToBeInstalled => e = c
      /\ status \notin ToBeUninstalled \cup ToBeInstalled =>
           e \in {Charge(marked, p, penalty, 0), marked}
  BY DEF UpgradePackage, new, ToBeInstalled, ToBeUninstalled
<1> HIDE DEF marked
<1>7. CASE status \notin ToBeUninstalled \cup ToBeInstalled
  <2>1. e \in {Charge(marked, p, penalty, 0), marked}
    BY <1>6, <1>7
  <2>2. /\ IsUsable(e) /\ e.verifying = c.verifying
        /\ \A q \in Pkg : GetStatus(e, q) = GetStatus(marked, q)
    BY <1>4, <1>5, <2>1
  <2> QED
    BY <1>4, <1>7, <2>2 DEF new
<1> QED
  BY <1>6, <1>7

\* What an uninstall does that succeeds (rc_resolver_context_uninstall_package).
LEMMA UninstallPackageEffect ==
  ASSUME NEW c, IsUsable(c), NEW p \in Pkg, NEW obsolete, NEW unlink,
         NEW e, e = UninstallPackage(c, p, obsolete, unlink), ~e.invalid
  PROVE  /\ IsUsable(e) /\ e.verifying = c.verifying
         /\ \A q \in Pkg : q # p => GetStatus(e, q) = GetStatus(c, q)
         /\ GetStatus(c, p) # "TO_BE_INSTALLED"
         /\ GetStatus(c, p) \in {"TO_BE_UNINSTALLED", "DUE_TO_OBSOLETE"} => e = c
         /\ GetStatus(c, p) \notin {"TO_BE_UNINSTALLED", "DUE_TO_OBSOLETE"} =>
              GetStatus(e, p) = IF obsolete THEN "DUE_TO_OBSOLETE"
                                ELSE IF unlink THEN "DUE_TO_UNLINK" ELSE "TO_BE_UNINSTALLED"
<1> DEFINE status == GetStatus(c, p)
           new    == IF obsolete THEN "DUE_TO_OBSOLETE"
                     ELSE IF unlink THEN "DUE_TO_UNLINK" ELSE "TO_BE_UNINSTALLED"
           marked == SetStatus(c, p, new)
<1>1. c \in ContextType
  BY DEF IsUsable
<1>2. AddError(c).invalid
  BY <1>1, AddErrorIsError
<1>3. new \in PackageStatus /\ new \in Mark
  BY DEF PackageStatus, Mark, ToBeUninstalled
<1>4. ToBeUninstalled \ {"DUE_TO_UNLINK"} = {"TO_BE_UNINSTALLED", "DUE_TO_OBSOLETE"}
  BY DEF ToBeUninstalled
<1>5. /\ status # "TO_BE_INSTALLED"
      /\ status \in {"TO_BE_UNINSTALLED", "DUE_TO_OBSOLETE"} => e = c
      /\ status \notin {"TO_BE_UNINSTALLED", "DUE_TO_OBSOLETE"} => e = marked
  BY <1>2, <1>4 DEF UninstallPackage
<1> HIDE DEF new
<1>6. /\ IsUsable(marked) /\ marked.verifying = c.verifying
      /\ GetStatus(marked, p) = new
      /\ \A q \in Pkg : q # p => GetStatus(marked, q) = GetStatus(c, q)
  <2>1. IsUsable(marked) /\ marked.verifying = c.verifying
    BY <1>3, SetStatusLeaves
  <2>2. GetStatus(marked, p) = new
    BY <1>3, SetStatusGives
  <2> QED
    BY <1>1, <1>3, <2>1, <2>2, SetStatusOfOthers
<1> HIDE DEF marked
<1> QED
  BY <1>5, <1>6 DEF new

-----------------------------------------------------------------------------
(* Items *)

OutcomeType ==
  [context : ContextType, items : Seq(ItemType), did : BOOLEAN, aborted : BOOLEAN]

\* What processing may do to a context.
Follows(c, out) == out \in OutcomeType /\ KeepsDecisions(c, out.context)

\* What is recorded as an outcome follows, if the context and the items do.
LEMMA OutcomeFollows ==
  ASSUME NEW c \in ContextType, NEW e \in ContextType, KeepsDecisions(c, e),
         NEW items \in Seq(ItemType)
  PROVE  Follows(c, Outcome(e, items))
BY DEF Follows, Outcome, OutcomeType

\* Leaving the context alone takes nothing back.
LEMMA NothingFollows ==
  ASSUME NEW c \in ContextType, NEW items \in Seq(ItemType)
  PROVE  Follows(c, Outcome(c, items))
BY OutcomeFollows DEF KeepsDecisions

\* An item that is done without effect takes nothing back.
LEMMA DoneFollows == ASSUME NEW c \in ContextType PROVE Follows(c, Outcome(c, <<>>))
<1>1. <<>> \in Seq(ItemType)
  OBVIOUS
<1> QED
  BY <1>1, NothingFollows

\* An error makes the context invalid and takes nothing back.
LEMMA ErrorFollows == ASSUME NEW c \in ContextType PROVE Follows(c, Outcome(AddError(c), <<>>))
<1>1. <<>> \in Seq(ItemType)
  OBVIOUS
<1> QED
  BY <1>1, AddErrorType, AddErrorKeeps, OutcomeFollows

\* Mapping a sequence yields a sequence of the images.
LEMMA MappedType ==
  ASSUME NEW S, NEW s \in Seq(S), NEW T, NEW f,
         f = [i \in DOMAIN s |-> f[i]], \A i \in DOMAIN s : f[i] \in T
  PROVE  f \in Seq(T)
<1>1. DOMAIN s = 1..Len(s) /\ Len(s) \in Nat
  OBVIOUS
<1> QED
  BY <1>1

\* The reverse of a sequence has the same elements.
LEMMA ReverseType == ASSUME NEW S, NEW s \in Seq(S) PROVE Reverse(s) \in Seq(S)
BY DEF Reverse

\* What a sequence over a set yields is in the set.
LEMMA ElementsOfSequence ==
  ASSUME NEW S, NEW s \in Seq(S) PROVE \A i \in DOMAIN s : s[i] \in S
OBVIOUS

-----------------------------------------------------------------------------
(* New items *)

\* An install item is an item.
LEMMA InstallItemType ==
  ASSUME NEW p \in Pkg, NEW old \in Pkg \cup {NONE}, NEW neededBy \in SUBSET Pkg,
         NEW explicit \in BOOLEAN
  PROVE  InstallItem(p, old, neededBy, explicit) \in SimpleItemType
BY DEF InstallItem, SimpleItemType, InstallItems

\* A new install item, which looks up what it upgrades, is an item.
LEMMA NewInstallType ==
  ASSUME world \in WorldType, NEW p \in Pkg, NEW neededBy \in SUBSET Pkg, NEW explicit \in BOOLEAN
  PROVE  NewInstall(p, neededBy, explicit) \in SimpleItemType
BY InstalledVersionType, InstallItemType DEF NewInstall

\* A require item is an item.
LEMMA RequireItemType ==
  ASSUME NEW d \in Dep, NEW r \in Pkg \cup {NONE}, NEW isChild \in BOOLEAN,
         NEW removeOnly \in BOOLEAN, NEW upgraded \in Pkg \cup {NONE}
  PROVE  RequireItem(d, r, isChild, removeOnly, upgraded) \in SimpleItemType
BY DEF RequireItem, SimpleItemType, RequireItems

\* A conflict item is an item.
LEMMA ConflictItemType ==
  ASSUME NEW d \in Dep, NEW p \in Pkg \cup {NONE}, NEW isObsolete \in BOOLEAN
  PROVE  ConflictItem(d, p, isObsolete) \in SimpleItemType
BY DEF ConflictItem, SimpleItemType, ConflictItems

\* An uninstall item is an item, with every flag that the handlers set.
LEMMA UninstallItemType ==
  ASSUME NEW p \in Pkg
  PROVE  /\ UninstallItem(p) \in SimpleItemType
         /\ [UninstallItem(p) EXCEPT !.unlink = TRUE] \in SimpleItemType
         /\ \A b \in BOOLEAN : [UninstallItem(p) EXCEPT !.removeOnly = b] \in SimpleItemType
         /\ \A b \in BOOLEAN : [UninstallItem(p) EXCEPT !.obsolete = b] \in SimpleItemType
         /\ \A q \in Pkg, b \in BOOLEAN :
              [UninstallItem(p) EXCEPT !.upgradedTo = q, !.explicit = b] \in SimpleItemType
         /\ [UninstallItem(p) EXCEPT !.explicit = TRUE, !.removeOnly = TRUE] \in SimpleItemType
BY DEF UninstallItem, SimpleItemType, UninstallItems

\* An install creates items.
LEMMA InstallConsequencesType ==
  ASSUME world \in WorldType, NEW c \in ContextType, NEW p \in Pkg
  PROVE  InstallConsequences(c, p) \in Seq(ItemType)
<1> DEFINE unmet     == DepsInOrder({d \in world.requires[p] : ~RequirementIsMet(c, d, FALSE)})
           unmetKids == DepsInOrder({d \in world.children[p] : ~RequirementIsMet(c, d, TRUE)})
           opposed   == DepsInOrder(world.conflicts[p])
           replaced  == DepsInOrder(world.obsoletes[p])
           against   == Reverse(InOrder({q \in Conflicting(p) : ~SameSpec(q, p)}))
           first     == [i \in DOMAIN unmet |-> RequireItem(unmet[i], p, FALSE, FALSE, NONE)]
           second    == [i \in DOMAIN unmetKids |-> RequireItem(unmetKids[i], p, TRUE, FALSE, NONE)]
           third     == [i \in DOMAIN opposed |-> ConflictItem(opposed[i], p, FALSE)]
           fourth    == [i \in DOMAIN replaced |-> ConflictItem(replaced[i], p, TRUE)]
           fifth     == [i \in DOMAIN against |-> UninstallItem(against[i])]
<1>1. /\ world.requires[p] \in SUBSET Dep /\ world.children[p] \in SUBSET Dep
      /\ world.conflicts[p] \in SUBSET Dep /\ world.obsoletes[p] \in SUBSET Dep
  BY DEF WorldType
<1>2. /\ unmet \in Seq(Dep) /\ unmetKids \in Seq(Dep)
      /\ opposed \in Seq(Dep) /\ replaced \in Seq(Dep)
  <2>1. \A D \in SUBSET Dep : DepsInOrder(D) \in Seq(Dep)
    BY DepsInOrderType
  <2> QED
    BY <1>1, <2>1
<1>3. against \in Seq(Pkg)
  <2>1. {q \in Conflicting(p) : ~SameSpec(q, p)} \in SUBSET Pkg
    BY DEF Conflicting
  <2>2. InOrder({q \in Conflicting(p) : ~SameSpec(q, p)}) \in Seq(Pkg)
    BY <2>1, InOrderType
  <2> QED
    BY <2>2, ReverseType
<1> HIDE DEF unmet, unmetKids, opposed, replaced, against
<1>4. first \in Seq(ItemType) /\ second \in Seq(ItemType)
  <2>1. \A i \in DOMAIN unmet : first[i] \in ItemType
    BY <1>2, ElementsOfSequence, RequireItemType DEF ItemType
  <2>2. \A i \in DOMAIN unmetKids : second[i] \in ItemType
    BY <1>2, ElementsOfSequence, RequireItemType DEF ItemType
  <2> QED
    BY <1>2, <2>1, <2>2, MappedType
<1>5. third \in Seq(ItemType) /\ fourth \in Seq(ItemType)
  <2>1. \A i \in DOMAIN opposed : third[i] \in ItemType
    BY <1>2, ElementsOfSequence, ConflictItemType DEF ItemType
  <2>2. \A i \in DOMAIN replaced : fourth[i] \in ItemType
    BY <1>2, ElementsOfSequence, ConflictItemType DEF ItemType
  <2> QED
    BY <1>2, <2>1, <2>2, MappedType
<1>6. fifth \in Seq(ItemType)
  <2>1. \A i \in DOMAIN against : fifth[i] \in ItemType
    BY <1>3, ElementsOfSequence, UninstallItemType DEF ItemType
  <2> QED
    BY <1>3, <2>1, MappedType
<1>7. InstallConsequences(c, p) = first \o second \o third \o fourth \o fifth
  BY DEF InstallConsequences, Map, unmet, unmetKids, opposed, replaced, against
<1> HIDE DEF first, second, third, fourth, fifth
<1> QED
  BY <1>4, <1>5, <1>6, <1>7

\* An uninstall creates items.
LEMMA UninstallConsequencesType ==
  ASSUME world \in WorldType, NEW c \in ContextType, NEW item \in UninstallItems
  PROVE  UninstallConsequences(c, item) \in Seq(ItemType)
<1> DEFINE p       == item.package
           lost(x) == IsPresent(c, x[1]) /\ ~RequirementIsMet(c, x[2], FALSE)
           users   == PairsInOrder({x \in Requiring(p) : lost(x)})
           parents == PairsInOrder({x \in Parents(p) : lost(x)})
           losers  == users \o parents
           only    == DepsInOrder({d \in world.children[p] : SingleProvider(d) # NONE})
           asked   == [i \in DOMAIN losers |->
                         RequireItem(losers[i][2], losers[i][1], FALSE, item.removeOnly, item.upgradedTo)]
           freed   == [i \in DOMAIN only |-> [UninstallItem(SingleProvider(only[i])) EXCEPT !.unlink = TRUE]]
<1>1. /\ p \in Pkg /\ item.removeOnly \in BOOLEAN /\ item.upgradedTo \in Pkg \cup {NONE}
  BY DEF UninstallItems
<1>2. losers \in Seq(Pkg \X Dep)
  <2>1. /\ {x \in Requiring(p) : lost(x)} \in SUBSET (Pkg \X Dep)
        /\ {x \in Parents(p) : lost(x)} \in SUBSET (Pkg \X Dep)
    BY DEF Requiring, Parents
  <2>2. \A X \in SUBSET (Pkg \X Dep) : PairsInOrder(X) \in Seq(Pkg \X Dep)
    BY PairsInOrderType
  <2>3. users \in Seq(Pkg \X Dep) /\ parents \in Seq(Pkg \X Dep)
    BY <2>1, <2>2
  <2> QED
    BY <2>3
<1> DEFINE orphans == {d \in world.children[p] : SingleProvider(d) # NONE}
<1>3. only \in Seq(orphans) /\ orphans \in SUBSET Dep
  <2>1. orphans \in SUBSET Dep
    BY <1>1 DEF WorldType
  <2> QED
    BY <2>1, DepsInOrderType
<1> HIDE DEF losers, only
<1>4. asked \in Seq(ItemType)
  <2>1. \A i \in DOMAIN losers : losers[i][1] \in Pkg /\ losers[i][2] \in Dep
    BY <1>2
  <2>2. \A i \in DOMAIN losers : asked[i] \in ItemType
    BY <1>1, <2>1, RequireItemType DEF ItemType
  <2> QED
    BY <1>2, <2>2, MappedType
<1>5. freed \in Seq(ItemType)
  <2>1. \A i \in DOMAIN only : only[i] \in orphans
    BY <1>3
  <2>2. \A i \in DOMAIN only : SingleProvider(only[i]) \in Pkg
    BY <1>3, <2>1, SingleProviderType
  <2>3. \A i \in DOMAIN only : freed[i] \in ItemType
    BY <2>2, UninstallItemType DEF ItemType
  <2> QED
    BY <1>3, <2>3, MappedType
<1>6. UninstallConsequences(c, item) = asked \o freed
  BY DEF UninstallConsequences, Map, losers, only
<1> HIDE DEF asked, freed
<1> QED
  BY <1>4, <1>5, <1>6

-----------------------------------------------------------------------------
(* Processing *)

\* Processing an install leaves well-formed results and takes nothing back.
LEMMA ProcessInstallFollows ==
  ASSUME world \in WorldType, NEW c \in ContextType, NEW item \in InstallItems
  PROVE  Follows(c, ProcessInstall(c, item))
<1> DEFINE p       == item.package
           status  == GetStatus(c, p)
           upgrade == item.upgrades # NONE
           after   == IF upgrade THEN UpgradePackage(c, p, item.penalty)
                                 ELSE InstallPackage(c, p, item.penalty)
           removal == IF upgrade
                      THEN <<[UninstallItem(item.upgrades) EXCEPT !.upgradedTo = p,
                                                                  !.explicit = item.explicit]>>
                      ELSE <<>>
           needers == InOrder(item.neededBy)
           removals == [i \in DOMAIN needers |-> UninstallItem(needers[i])]
           effects == removal \o IF status \in {"UNINSTALLED", "DUE_TO_UNLINK"}
                                 THEN InstallConsequences(after, p) ELSE <<>>
<1>1. /\ p \in Pkg /\ item.penalty \in Int /\ item.explicit \in BOOLEAN
      /\ item.upgrades \in Pkg \cup {NONE} /\ item.neededBy \in SUBSET Pkg
  BY DEF InstallItems
<1>2. Follows(c, Outcome(c, <<>>))
  BY DoneFollows
<1>3. Follows(c, Outcome(c, removals))
  <2>1. needers \in Seq(Pkg)
    BY <1>1, InOrderType
  <2>2. \A i \in DOMAIN needers : removals[i] \in ItemType
    BY <2>1, ElementsOfSequence, UninstallItemType DEF ItemType
  <2>3. removals \in Seq(ItemType)
    BY <2>1, <2>2, MappedType
  <2> QED
    BY <2>3, NothingFollows
<1>4. Follows(c, Outcome(after, effects))
  <2>1. after \in ContextType /\ KeepsDecisions(c, after)
    BY <1>1, UpgradePackageType, InstallPackageType, UpgradePackageKeeps, InstallPackageKeeps
  <2>2. removal \in Seq(ItemType)
    <3>1. CASE upgrade
      <4>1. [UninstallItem(item.upgrades) EXCEPT !.upgradedTo = p, !.explicit = item.explicit] \in ItemType
        BY <1>1, <3>1, UninstallItemType DEF ItemType
      <4> QED
        BY <3>1, <4>1
    <3>2. CASE ~upgrade
      BY <3>2
    <3> QED
      BY <3>1, <3>2
  <2>3. InstallConsequences(after, p) \in Seq(ItemType)
    BY <1>1, <2>1, InstallConsequencesType
  <2> HIDE DEF after, removal
  <2>4. effects \in Seq(ItemType)
    BY <2>2, <2>3
  <2> QED
    BY <2>1, <2>4, OutcomeFollows
<1>5. ProcessInstall(c, item) \in {Outcome(c, <<>>), Outcome(c, removals), Outcome(after, effects)}
  BY DEF ProcessInstall, Map
<1> QED
  BY <1>2, <1>3, <1>4, <1>5

\* So does replacing or removing a package whose requirement cannot be met.
LEMMA ReplaceRequirerFollows ==
  ASSUME world \in WorldType, NEW c \in ContextType, NEW item \in RequireItems
  PROVE  Follows(c, ReplaceRequirer(c, item))
<1> DEFINE r        == item.requiring
           upgrades == IF item.upgraded # NONE /\ r # NONE THEN Upgrades(r) ELSE {}
           possible == {u \in upgrades : PackageIsPossible(c, u)}
           settled  == \E u \in possible : \A d \in world.requires[u] : RequirementIsMet(c, d, FALSE)
           removal  == IF r # NONE /\ (c.verifying \/ ~settled)
                       THEN <<[UninstallItem(r) EXCEPT !.removeOnly = item.removeOnly]>> ELSE <<>>
           listed   == InOrder(possible)
           installs == [i \in DOMAIN listed |-> InstallItem(listed[i], r, {}, FALSE)]
<1>1. r \in Pkg \cup {NONE} /\ item.removeOnly \in BOOLEAN
  BY DEF RequireItems
<1>2. removal \in Seq(SimpleItemType)
  <2> HIDE DEF settled, possible, upgrades
  <2>1. CASE r # NONE /\ (c.verifying \/ ~settled)
    <3>1. [UninstallItem(r) EXCEPT !.removeOnly = item.removeOnly] \in SimpleItemType
      BY <1>1, <2>1, UninstallItemType
    <3> QED
      BY <2>1, <3>1
  <2>2. CASE ~(r # NONE /\ (c.verifying \/ ~settled))
    BY <2>2
  <2> QED
    BY <2>1, <2>2
<1>3. upgrades # {} => installs \in Seq(SimpleItemType)
  <2> SUFFICES ASSUME upgrades # {} PROVE installs \in Seq(SimpleItemType)
    OBVIOUS
  <2>1. r \in Pkg
    BY <1>1
  <2>2. possible \in SUBSET Pkg
    BY DEF Upgrades
  <2>3. listed \in Seq(Pkg)
    BY <2>2, InOrderType
  <2> HIDE DEF listed
  <2>4. \A i \in DOMAIN listed : installs[i] \in SimpleItemType
    BY <2>1, <2>3, ElementsOfSequence, InstallItemType
  <2> QED
    BY <2>3, <2>4, MappedType
<1>4. ReplaceRequirer(c, item) =
        CASE upgrades # {} -> Outcome(c, <<BranchItem(installs \o removal)>>)
          [] upgrades = {} /\ removal # <<>> -> Outcome(c, removal)
          [] OTHER -> Outcome(AddError(c), <<>>)
  BY DEF ReplaceRequirer, Map
<1> HIDE DEF upgrades, removal, installs
<1>5. CASE upgrades # {}
  <2>1. installs \o removal \in Seq(SimpleItemType)
    BY <1>2, <1>3, <1>5
  <2>2. BranchItem(installs \o removal) \in ItemType
    BY <2>1 DEF BranchItem, BranchItems, ItemType
  <2>3. <<BranchItem(installs \o removal)>> \in Seq(ItemType)
    BY <2>2
  <2> QED
    BY <1>4, <1>5, <2>3, NothingFollows
<1>6. CASE upgrades = {} /\ removal # <<>>
  <2>1. removal \in Seq(ItemType)
    BY <1>2 DEF ItemType
  <2> QED
    BY <1>4, <1>6, <2>1, NothingFollows
<1>7. CASE upgrades = {} /\ removal = <<>>
  BY <1>4, <1>7, ErrorFollows
<1> QED
  BY <1>5, <1>6, <1>7

\* The providers that are considered for a requirement are packages without a
\* lock.
LEMMA InstallableProvidersType ==
  ASSUME world \in WorldType, NEW c \in ContextType, NEW item \in RequireItems
  PROVE  InstallableProviders(c, item) \in Seq(Pkg \ world.locked)
<1> DEFINE providers == (IF item.isChild THEN ExactProviders ELSE Providers)[item.dep]
           free == {p \in providers : p \notin world.locked}
<1>1. providers \in SUBSET Pkg
  BY UniverseAssumption DEF RequireItems
<1>2. \A S \in SUBSET free : InOrder(S) \in Seq(Pkg \ world.locked)
  BY <1>1, InOrderType
<1> HIDE DEF providers
<1>3. <<>> \in Seq(Pkg \ world.locked)
  OBVIOUS
<1> QED
  BY <1>2, <1>3 DEF InstallableProviders, providers

\* Processing a require leaves well-formed results and takes nothing back.
LEMMA ProcessRequireFollows ==
  ASSUME world \in WorldType, NEW c \in ContextType, NEW item \in RequireItems
  PROVE  Follows(c, ProcessRequire(c, item))
<1> DEFINE providers == InstallableProviders(c, item)
           neededBy  == {item.requiring} \ {NONE}
           installs  == [i \in DOMAIN providers |-> NewInstall(providers[i], neededBy, FALSE)]
<1>1. neededBy \in SUBSET Pkg
  BY DEF RequireItems
<1>2. installs \in Seq(SimpleItemType)
  <2>1. providers \in Seq(Pkg)
    BY InstallableProvidersType
  <2> HIDE DEF providers, neededBy
  <2>2. \A i \in DOMAIN providers : installs[i] \in SimpleItemType
    BY <1>1, <2>1, ElementsOfSequence, NewInstallType
  <2> QED
    BY <2>1, <2>2, MappedType
<1>3. ProcessRequire(c, item) \in {Outcome(c, <<>>), ReplaceRequirer(c, item), Outcome(c, installs),
                                  Outcome(c, <<BranchItem(installs)>>)}
  BY DEF ProcessRequire, Map
<1> HIDE DEF installs
<1>4. Follows(c, Outcome(c, installs))
  <2>1. installs \in Seq(ItemType)
    BY <1>2 DEF ItemType
  <2> QED
    BY <2>1, NothingFollows
<1>5. Follows(c, Outcome(c, <<BranchItem(installs)>>))
  <2>1. BranchItem(installs) \in ItemType
    BY <1>2 DEF BranchItem, BranchItems, ItemType
  <2>2. <<BranchItem(installs)>> \in Seq(ItemType)
    BY <2>1
  <2> QED
    BY <2>2, NothingFollows
<1> QED
  BY <1>3, <1>4, <1>5, DoneFollows, ReplaceRequirerFollows

\* Ruling out what is not installed takes back no decision.
LEMMA ProcessConflictFollows ==
  ASSUME world \in WorldType, NEW c \in ContextType, NEW item \in ConflictItems
  PROVE  Follows(c, ProcessConflict(c, item))
<1> DEFINE match == {p \in (IF item.obsolete THEN OwnProviders ELSE Providers)[item.dep] :
                       item.conflicting = NONE \/ ~SameSpec(p, item.conflicting)}
           of(S) == {p \in match : GetStatus(c, p) \in S}
           going == InOrder(of({"INSTALLED", "TO_BE_INSTALLED_SOFT"}))
           remove == [i \in DOMAIN going |-> [UninstallItem(going[i]) EXCEPT !.obsolete = item.obsolete]]
           marked == [c EXCEPT !.chain[1] =
                        [p \in Pkg |-> IF p \in of({"UNINSTALLED"}) THEN "TO_BE_UNINSTALLED" ELSE @[p]]]
           after == IF of({"TO_BE_INSTALLED"}) # {} THEN AddError(c) ELSE marked
<1>1. item.dep \in Dep /\ item.obsolete \in BOOLEAN
  BY DEF ConflictItems
<1>2. match \in SUBSET Pkg
  BY <1>1, UniverseAssumption
<1>3. remove \in Seq(ItemType)
  <2>1. of({"INSTALLED", "TO_BE_INSTALLED_SOFT"}) \in SUBSET Pkg
    BY <1>2
  <2>2. going \in Seq(Pkg)
    BY <2>1, InOrderType
  <2> HIDE DEF going
  <2>3. \A i \in DOMAIN going : remove[i] \in ItemType
    BY <1>1, <2>2, ElementsOfSequence, UninstallItemType DEF ItemType
  <2> QED
    BY <2>2, <2>3, MappedType
<1> HIDE DEF match
<1>4. marked \in ContextType /\ KeepsDecisions(c, marked)
  <2>1. marked \in ContextType
    BY DEF ContextType, Mark, PackageStatus, ToBeUninstalled
  <2>2. ASSUME NEW p \in Pkg, GetStatus(c, p) \in Decided
        PROVE  GetStatus(marked, p) = GetStatus(c, p)
    <3>1. p \notin of({"UNINSTALLED"})
      BY <2>2 DEF Decided
    <3>2. /\ DOMAIN marked.chain = DOMAIN c.chain
          /\ \A i \in DOMAIN c.chain : marked.chain[i][p] = c.chain[i][p]
      BY <3>1 DEF ContextType
    <3> HIDE DEF marked
    <3> QED
      BY <2>1, <3>2, SameLevelsSameStatus
  <2> QED
    BY <2>1, <2>2 DEF KeepsDecisions
<1>5. after \in ContextType /\ KeepsDecisions(c, after)
  BY <1>4, AddErrorType, AddErrorKeeps
<1>6. ProcessConflict(c, item) = [Outcome(after, remove) EXCEPT !.aborted = of({"DUE_TO_UNLINK"}) # {}]
  BY DEF ProcessConflict, Map, match
<1> HIDE DEF after, remove
<1> QED
  BY <1>3, <1>5, <1>6 DEF Follows, Outcome, OutcomeType

\* Processing an uninstall, the unlink check included, leaves well-formed
\* results and takes nothing back.
LEMMA ProcessUninstallFollows ==
  ASSUME world \in WorldType, NEW c \in ContextType, NEW item \in UninstallItems
  PROVE  Follows(c, ProcessUninstall(c, item))
<1> DEFINE p       == item.package
           checked == IF item.unlink THEN AfterUnlinkCheck(c, p) ELSE c
           after   == UninstallPackage(checked, p, item.obsolete, item.unlink)
<1>1. checked \in ContextType /\ KeepsDecisions(c, checked)
  <2>1. "TO_BE_UNINSTALLED" \in Mark /\ "INSTALLED" \in Mark
    BY DEF Mark, PackageStatus, ToBeUninstalled
  <2>2. CASE GetStatus(c, p) = "INSTALLED"
    <3> DEFINE without == SetStatus(c, p, "TO_BE_UNINSTALLED")
    <3>1. without \in ContextType
      BY <2>1, SetStatusType
    <3>2. SetStatus(without, p, "INSTALLED") \in ContextType
      BY <2>1, <3>1, SetStatusType
    <3> HIDE DEF without
    <3>3. ASSUME NEW q \in Pkg, GetStatus(c, q) \in Decided
          PROVE  GetStatus(SetStatus(without, p, "INSTALLED"), q) = GetStatus(c, q)
      <4>1. q # p
        BY <2>2, <3>3 DEF Decided
      <4>2. GetStatus(without, q) = GetStatus(c, q)
        BY <2>1, <4>1, SetStatusOfOthers DEF without
      <4> QED
        BY <2>1, <3>1, <4>1, <4>2, SetStatusOfOthers
    <3>4. checked \in {c, SetStatus(without, p, "INSTALLED")}
      BY DEF AfterUnlinkCheck, without
    <3> HIDE DEF checked
    <3> QED
      BY <3>2, <3>3, <3>4 DEF KeepsDecisions
  <2>3. CASE GetStatus(c, p) # "INSTALLED"
    <3>1. checked = c
      BY <2>3 DEF AfterUnlinkCheck
    <3> QED
      BY <3>1 DEF KeepsDecisions
  <2> QED
    BY <2>2, <2>3
<1> HIDE DEF checked
<1>2. after \in ContextType /\ KeepsDecisions(checked, after)
  BY <1>1, UninstallPackageType, UninstallPackageKeeps
<1> HIDE DEF after
<1>3. /\ KeepsDecisions(c, after)
      /\ AddError(after) \in ContextType /\ KeepsDecisions(c, AddError(after))
  BY <1>1, <1>2, AddErrorType, AddErrorKeeps DEF KeepsDecisions
<1>4. <<>> \in Seq(ItemType) /\ UninstallConsequences(after, item) \in Seq(ItemType)
  BY <1>2, UninstallConsequencesType
<1>5. ProcessUninstall(c, item) \in
        {Outcome(checked, <<>>), Outcome(after, <<>>), Outcome(AddError(after), <<>>),
         Outcome(after, UninstallConsequences(after, item))}
  BY DEF ProcessUninstall, checked, after
<1> QED
  BY <1>1, <1>2, <1>3, <1>4, <1>5, OutcomeFollows

\* So does processing any item that is not a branch.
LEMMA ProcessSimpleFollows ==
  ASSUME world \in WorldType, NEW c \in ContextType, NEW item \in SimpleItemType
  PROVE  Follows(c, ProcessSimple(c, item))
<1>1. CASE item \in InstallItems
  <2>1. ProcessSimple(c, item) = ProcessInstall(c, item)
    BY <1>1 DEF ProcessSimple, InstallItems
  <2> QED
    BY <1>1, <2>1, ProcessInstallFollows
<1>2. CASE item \in RequireItems
  <2>1. ProcessSimple(c, item) = ProcessRequire(c, item)
    BY <1>2 DEF ProcessSimple, RequireItems
  <2> QED
    BY <1>2, <2>1, ProcessRequireFollows
<1>3. CASE item \in ConflictItems
  <2>1. ProcessSimple(c, item) = ProcessConflict(c, item)
    BY <1>3 DEF ProcessSimple, ConflictItems
  <2> QED
    BY <1>3, <2>1, ProcessConflictFollows
<1>4. CASE item \in UninstallItems
  <2>1. ProcessSimple(c, item) = ProcessUninstall(c, item)
    BY <1>4 DEF ProcessSimple, UninstallItems
  <2> QED
    BY <1>4, <2>1, ProcessUninstallFollows
<1> QED
  BY <1>1, <1>2, <1>3, <1>4 DEF SimpleItemType

\* Processing an item leaves well-formed results and takes nothing back.
LEMMA ProcessItemFollows ==
  ASSUME world \in WorldType, NEW c \in ContextType, NEW item \in ItemType
  PROVE  Follows(c, ProcessItem(c, item))
<1>1. CASE item.type # "branch"
  <2>1. item \in SimpleItemType
    BY <1>1 DEF ItemType, BranchItems
  <2> QED
    BY <1>1, <2>1, ProcessSimpleFollows DEF ProcessItem
<1>2. CASE item.type = "branch"
  <2>1. item \in BranchItems
    BY <1>2 DEF ItemType, SimpleItemType, InstallItems, RequireItems, ConflictItems, UninstallItems
  <2>2. item.possible \in Seq(SimpleItemType)
    BY <2>1 DEF BranchItems
  <2>3. CASE Len(item.possible) = 1
    <3>1. item.possible[1] \in SimpleItemType
      BY <2>2, <2>3
    <3>2. Follows(c, ProcessSimple(c, item.possible[1]))
      BY <3>1, ProcessSimpleFollows
    <3>3. ProcessItem(c, item) \in {Outcome(c, <<>>), ProcessSimple(c, item.possible[1])}
      BY <1>2, <2>3 DEF ProcessItem, ProcessBranch
    <3> QED
      BY <3>2, <3>3, DoneFollows
  <2>4. CASE Len(item.possible) # 1
    <3>1. ProcessItem(c, item) \in {Outcome(c, <<>>), [Outcome(c, <<item>>) EXCEPT !.did = FALSE]}
      BY <1>2, <2>4 DEF ProcessItem, ProcessBranch
    <3>2. <<item>> \in Seq(ItemType)
      OBVIOUS
    <3>3. Follows(c, Outcome(c, <<item>>))
      BY <3>2, NothingFollows
    <3>4. Follows(c, [Outcome(c, <<item>>) EXCEPT !.did = FALSE])
      BY <3>3 DEF Follows, OutcomeType, Outcome
    <3> QED
      BY <3>1, <3>4, DoneFollows
  <2> QED
    BY <2>3, <2>4
<1> QED
  BY <1>1, <1>2

-----------------------------------------------------------------------------
(* Progress *)

\* What is recorded as an outcome counts as progress, with or without an
\* assertion that failed.
LEMMA OutcomeDid ==
  ASSUME NEW c, NEW items, NEW out,
         out = Outcome(c, items) \/ \E b : out = [Outcome(c, items) EXCEPT !.aborted = b]
  PROVE  out.did = TRUE
BY DEF Outcome

\* An item that is not a branch gets somewhere whatever it does.
LEMMA SimpleGetsSomewhere ==
  ASSUME NEW c, NEW item \in SimpleItemType
  PROVE  ProcessSimple(c, item).did = TRUE
<1>1. CASE item \in InstallItems
  <2>1. ProcessSimple(c, item) = ProcessInstall(c, item)
    BY <1>1 DEF ProcessSimple, InstallItems
  <2>2. \E e, items : ProcessInstall(c, item) = Outcome(e, items)
    BY DEF ProcessInstall
  <2> QED
    BY <2>1, <2>2, OutcomeDid
<1>2. CASE item \in RequireItems
  <2>1. ProcessSimple(c, item) = ProcessRequire(c, item)
    BY <1>2 DEF ProcessSimple, RequireItems
  <2>2. \E e, items : ReplaceRequirer(c, item) = Outcome(e, items)
    BY DEF ReplaceRequirer
  <2>3. \E e, items : ProcessRequire(c, item) = Outcome(e, items)
    BY <2>2 DEF ProcessRequire
  <2> QED
    BY <2>1, <2>3, OutcomeDid
<1>3. CASE item \in ConflictItems
  <2>1. ProcessSimple(c, item) = ProcessConflict(c, item)
    BY <1>3 DEF ProcessSimple, ConflictItems
  <2>2. \E e, items, b : ProcessConflict(c, item) = [Outcome(e, items) EXCEPT !.aborted = b]
    BY DEF ProcessConflict
  <2> QED
    BY <2>1, <2>2, OutcomeDid
<1>4. CASE item \in UninstallItems
  <2>1. ProcessSimple(c, item) = ProcessUninstall(c, item)
    BY <1>4 DEF ProcessSimple, UninstallItems
  <2>2. \E e, items : ProcessUninstall(c, item) = Outcome(e, items)
    BY DEF ProcessUninstall
  <2> QED
    BY <2>1, <2>2, OutcomeDid
<1> QED
  BY <1>1, <1>2, <1>3, <1>4 DEF SimpleItemType

\* Only a branch gets nowhere, and all it does then is to pass itself on.
LEMMA OnlyBranchesGetNowhere ==
  ASSUME NEW c, NEW item \in ItemType, ProcessItem(c, item).did # TRUE
  PROVE  item \in BranchItems /\ ProcessItem(c, item).items = <<item>>
<1>1. item \in BranchItems
  <2> SUFFICES ASSUME item \in SimpleItemType PROVE FALSE
    BY DEF ItemType
  <2>1. item.type # "branch"
    BY DEF SimpleItemType, InstallItems, RequireItems, ConflictItems, UninstallItems
  <2> QED
    BY <2>1, SimpleGetsSomewhere DEF ProcessItem
<1>2. item.type = "branch" /\ item.possible \in Seq(SimpleItemType)
  BY <1>1 DEF BranchItems
<1>3. ProcessItem(c, item) = ProcessBranch(c, item)
  BY <1>2 DEF ProcessItem
<1>4. Outcome(c, <<>>).did = TRUE
  BY DEF Outcome
<1>5. CASE Len(item.possible) = 1
  <2>1. item.possible[1] \in SimpleItemType
    BY <1>2, <1>5
  <2>2. ProcessSimple(c, item.possible[1]).did = TRUE
    BY <2>1, SimpleGetsSomewhere
  <2>3. ProcessBranch(c, item) \in {Outcome(c, <<>>), ProcessSimple(c, item.possible[1])}
    BY <1>5 DEF ProcessBranch
  <2> QED
    BY <1>3, <1>4, <2>2, <2>3
<1>6. CASE Len(item.possible) # 1
  <2>1. ProcessBranch(c, item) \in {Outcome(c, <<>>), [Outcome(c, <<item>>) EXCEPT !.did = FALSE]}
    BY <1>6 DEF ProcessBranch
  <2>2. ProcessBranch(c, item) = [Outcome(c, <<item>>) EXCEPT !.did = FALSE]
    BY <1>3, <1>4, <2>1
  <2> QED
    BY <1>1, <1>3, <2>2 DEF Outcome
<1> QED
  BY <1>5, <1>6

-----------------------------------------------------------------------------
(* The initial queue                                                       *)

\* What a verification looks at is a sequence of packages, kinds and
\* dependencies, and all of them: no two share a position.
LEMMA VerifyListType ==
  ASSUME world \in WorldType, NEW arrays
  PROVE  /\ Listed(ToVerify(arrays), VerifyPosition) \in Seq(Pkg \X (1..3) \X Dep)
         /\ ToSet(Listed(ToVerify(arrays), VerifyPosition)) = ToVerify(arrays)
<1> DEFINE T == Pkg \X (1..3) \X Dep
           S == ToVerify(arrays)
           n == Len(DepSeq)
<1>1. n \in Nat /\ DOMAIN DepSeq = 1..n /\ DOMAIN PkgSeq \subseteq Nat
  BY UniverseAssumption
<1>2. S \in SUBSET T
  BY DEF ToVerify, WorldType
<1>3. IsFiniteSet(S)
  <2>1. IsFiniteSet(1..3)
    <3>1. \A k \in Int : IsFiniteSet(1..k)
      BY FS_Interval
    <3>2. 3 \in Int
      OBVIOUS
    <3> QED
      BY <3>1, <3>2, Zenon
  <2>2. IsFiniteSet(Pkg \X (1..3))
    BY <2>1, UniverseIsFinite, FS_Product
  <2>3. IsFiniteSet((Pkg \X (1..3)) \X Dep)
    BY <2>2, UniverseIsFinite, FS_Product
  <2> DEFINE join == [x \in (Pkg \X (1..3)) \X Dep |-> <<x[1][1], x[1][2], x[2]>>]
  <2>4. join \in Surjection((Pkg \X (1..3)) \X Dep, T)
    <3>1. join \in [(Pkg \X (1..3)) \X Dep -> T]
      OBVIOUS
    <3>2. ASSUME NEW t \in T
          PROVE  \E x \in (Pkg \X (1..3)) \X Dep : join[x] = t
      <4>1. <<<<t[1], t[2]>>, t[3]>> \in (Pkg \X (1..3)) \X Dep
        OBVIOUS
      <4>2. join[<<<<t[1], t[2]>>, t[3]>>] = t
        BY <4>1
      <4> QED
        BY <4>1, <4>2
    <3> QED
      BY <3>1, <3>2 DEF Surjection
  <2>5. IsFiniteSet(T)
    BY <2>3, <2>4, FS_Surjection
  <2> QED
    BY <1>2, <2>5, FS_Subset
<1>4. ASSUME NEW x \in S
      PROVE  /\ x[1] \in Pkg /\ x[2] \in 1..3 /\ x[3] \in Dep /\ x = <<x[1], x[2], x[3]>>
             /\ PkgPosition[x[1]] \in Nat /\ DepPosition[x[3]] \in 1..n
             /\ VerifyPosition[x] = (PkgPosition[x[1]] * 3 + x[2]) * (n + 1) + DepPosition[x[3]]
  <2>1. x \in T
    BY <1>2
  <2>2. PkgPosition[x[1]] \in Nat /\ DepPosition[x[3]] \in 1..n
    BY <1>1, <2>1, PositionsDiffer
  <2> HIDE DEF S
  <2> QED
    BY <2>1, <2>2 DEF VerifyPosition
<1>5. \A x \in S : VerifyPosition[x] \in Int
  BY <1>1, <1>4
<1>6. ASSUME NEW x \in S, NEW y \in S, VerifyPosition[x] = VerifyPosition[y]
      PROVE  x = y
  <2> DEFINE at(a, c) == a * (n + 1) + c
             in(a, k) == a * 3 + k
  <2>1. \A a, b \in Nat : \A c, d \in 1..n : at(a, c) = at(b, d) => a = b /\ c = d
    BY <1>1, RowAndColumn
  <2>2. \A a, b \in Nat : \A k, l \in 1..3 : in(a, k) = in(b, l) => a = b /\ k = l
    OBVIOUS
  <2>3. at(in(PkgPosition[x[1]], x[2]), DepPosition[x[3]]) = at(in(PkgPosition[y[1]], y[2]), DepPosition[y[3]])
    BY <1>4, <1>6
  <2>7. \A a \in Nat : \A k \in 1..3 : in(a, k) \in Nat
    OBVIOUS
  <2>8. /\ PkgPosition[x[1]] \in Nat /\ x[2] \in 1..3 /\ DepPosition[x[3]] \in 1..n
        /\ PkgPosition[y[1]] \in Nat /\ y[2] \in 1..3 /\ DepPosition[y[3]] \in 1..n
    BY <1>4
  <2> HIDE DEF at, in, S, n
  <2>9. in(PkgPosition[x[1]], x[2]) \in Nat /\ in(PkgPosition[y[1]], y[2]) \in Nat
    BY <2>7, <2>8
  <2>4. in(PkgPosition[x[1]], x[2]) = in(PkgPosition[y[1]], y[2]) /\ DepPosition[x[3]] = DepPosition[y[3]]
    BY <2>1, <2>3, <2>8, <2>9
  <2>5. PkgPosition[x[1]] = PkgPosition[y[1]] /\ x[2] = y[2]
    BY <2>2, <2>4, <2>8
  <2>6. x[1] = y[1] /\ x[3] = y[3]
    BY <1>4, <2>4, <2>5, PositionsDiffer
  <2> QED
    BY <1>4, <2>5, <2>6
<1>7. Listed(S, VerifyPosition) \in Seq(S)
  BY <1>3, <1>5, <1>6, ListedType
<1>8. ToSet(Listed(S, VerifyPosition)) = S
  <2> DEFINE m == Cardinality(S)
  <2>1. /\ Listed(S, VerifyPosition) \in [1..m -> S]
        /\ \A x \in S : \E k \in 1..m : Listed(S, VerifyPosition)[k] = x
    BY <1>3, <1>5, <1>6, ListedOnce
  <2> HIDE DEF m, S
  <2> QED
    BY <2>1 DEF ToSet
<1> HIDE DEF S
<1> QED
  BY <1>2, <1>7, <1>8 DEF S

\* A verification queues items.
LEMMA VerificationsType ==
  ASSUME world \in WorldType, NEW r
  PROVE  Verifications(r) \in Seq(ItemType)
<1> DEFINE listed == Listed(ToVerify(<<world.requires, world.children, world.conflicts>>), VerifyPosition)
           items == [i \in DOMAIN listed |-> VerifyItem(listed[i])]
<1>1. listed \in Seq(Pkg \X (1..3) \X Dep)
  BY VerifyListType
<1>2. Verifications(r) \in {items, <<>>}
  BY DEF Verifications, Map
<1> HIDE DEF listed
<1>3. \A i \in DOMAIN listed : items[i] \in ItemType
  <2>1. \A i \in DOMAIN listed : listed[i][1] \in Pkg /\ listed[i][3] \in Dep
    BY <1>1
  <2> QED
    BY <2>1, ConflictItemType, RequireItemType DEF VerifyItem, ItemType
<1>4. items \in Seq(ItemType) /\ <<>> \in Seq(ItemType)
  BY <1>1, <1>3, MappedType
<1> QED
  BY <1>2, <1>4

\* The requested installs and removals are items.
LEMMA RequestedType ==
  ASSUME world \in WorldType, NEW r \in RequestType, NEW c \in ContextType
  PROVE  RequestedInstalls(r, c) \in Seq(ItemType) /\ RequestedRemovals(r, c) \in Seq(ItemType)
<1> DEFINE wanted   == InOrder({p \in r.install : ~IsPresent(c, p)})
           unwanted == InOrder({p \in r.remove : ~IsAbsent(c, p)})
           installs == [i \in DOMAIN wanted |-> NewInstall(wanted[i], {}, TRUE)]
           removals == [i \in DOMAIN unwanted |->
                          [UninstallItem(unwanted[i]) EXCEPT !.explicit = TRUE, !.removeOnly = TRUE]]
<1>1. wanted \in Seq(Pkg) /\ unwanted \in Seq(Pkg)
  <2>1. /\ {p \in r.install : ~IsPresent(c, p)} \in SUBSET Pkg
        /\ {p \in r.remove : ~IsAbsent(c, p)} \in SUBSET Pkg
    BY DEF RequestType
  <2>2. \A S \in SUBSET Pkg : InOrder(S) \in Seq(Pkg)
    BY InOrderType
  <2> QED
    BY <2>1, <2>2
<1>2. RequestedInstalls(r, c) = installs /\ RequestedRemovals(r, c) = removals
  BY DEF RequestedInstalls, RequestedRemovals, Map
<1> HIDE DEF wanted, unwanted
<1>3. \A i \in DOMAIN wanted : installs[i] \in ItemType
  <2>1. \A p \in Pkg : NewInstall(p, {}, TRUE) \in ItemType
    BY NewInstallType DEF ItemType
  <2> QED
    BY <1>1, <2>1, ElementsOfSequence
<1>4. \A i \in DOMAIN unwanted : removals[i] \in ItemType
  BY <1>1, ElementsOfSequence, UninstallItemType DEF ItemType
<1>5. installs \in Seq(ItemType)
  BY <1>1, <1>3, MappedType
<1>6. removals \in Seq(ItemType)
  BY <1>1, <1>4, MappedType
<1> QED
  BY <1>2, <1>5, <1>6

\* The extra dependencies and conflicts are items.
LEMMA ExtrasType ==
  ASSUME NEW r \in RequestType
  PROVE  Extras(r) \in Seq(ItemType)
<1> DEFINE deps      == DepsInOrder(r.extraDeps)
           opposed   == DepsInOrder(r.extraConflicts)
           requires  == [i \in DOMAIN deps |-> RequireItem(deps[i], NONE, FALSE, FALSE, NONE)]
           conflicts == [i \in DOMAIN opposed |-> ConflictItem(opposed[i], NONE, FALSE)]
<1>1. deps \in Seq(Dep) /\ opposed \in Seq(Dep)
  <2>1. r.extraDeps \in SUBSET Dep /\ r.extraConflicts \in SUBSET Dep
    BY DEF RequestType
  <2>2. \A D \in SUBSET Dep : DepsInOrder(D) \in Seq(Dep)
    BY DepsInOrderType
  <2> QED
    BY <2>1, <2>2
<1>2. Extras(r) = requires \o conflicts
  BY DEF Extras, Map
<1> HIDE DEF deps, opposed
<1>3. requires \in Seq(ItemType)
  <2>1. \A i \in DOMAIN deps : requires[i] \in ItemType
    BY <1>1, ElementsOfSequence, RequireItemType DEF ItemType
  <2> QED
    BY <1>1, <2>1, MappedType
<1>4. conflicts \in Seq(ItemType)
  <2>1. \A i \in DOMAIN opposed : conflicts[i] \in ItemType
    BY <1>1, ElementsOfSequence, ConflictItemType DEF ItemType
  <2> QED
    BY <1>1, <2>1, MappedType
<1> HIDE DEF requires, conflicts
<1> QED
  BY <1>2, <1>3, <1>4

\* The queue that a request becomes is a queue.
LEMMA InitialQueueType ==
  ASSUME world \in WorldType, NEW r \in RequestType
  PROVE  InitialQueue(r) \in QueueType
<1> DEFINE c == NewContext(r.verifying)
           items == RequestedInstalls(r, c) \o RequestedRemovals(r, c) \o Verifications(r) \o Extras(r)
<1>1. c \in ContextType
  BY NewContextType DEF RequestType
<1>2. items \in Seq(ItemType)
  BY <1>1, RequestedType, VerificationsType, ExtrasType
<1>3. Reverse(items) \in Seq(ItemType)
  BY <1>2, ReverseType
<1>4. InitialQueue(r) = [context |-> c, items |-> Reverse(items)]
  BY DEF InitialQueue, Queue
<1> HIDE DEF c, items
<1> QED
  BY <1>1, <1>3, <1>4 DEF QueueType

-----------------------------------------------------------------------------
(* The queues that passes and splits leave *)

\* Indices of a sequence, listed, are indices of the sequence.
LEMMA ListedIndices ==
  ASSUME NEW s, NEW n \in Nat, DOMAIN s = 1..n, NEW I \in SUBSET DOMAIN s
  PROVE  Listed(I, [i \in DOMAIN s |-> i]) \in Seq(DOMAIN s)
<1>1. IsFiniteSet(I)
  BY FS_Interval, FS_Subset
<1>2. Listed(I, [i \in DOMAIN s |-> i]) \in Seq(I)
  BY <1>1, ListedType
<1> QED
  BY <1>2

\* A pass leaves items of those that it was given.
LEMMA NextItemsType == ASSUME NEW S, NEW new \in Seq(S) PROVE NextItems(new) \in Seq(S)
<1> DEFINE items == Reverse(new)
           contains(i, j) == /\ items[i].type = "branch" /\ items[j].type = "branch"
                             /\ BranchContains(items[i], items[j])
           dropped == {i \in DOMAIN items : \E j \in DOMAIN items \ {i} :
                         contains(i, j) /\ (i < j \/ ~contains(j, i))}
           kept == Listed(DOMAIN items \ dropped, [i \in DOMAIN items |-> i])
           next == [k \in DOMAIN kept |-> items[kept[k]]]
<1>1. items \in Seq(S)
  BY ReverseType
<1>2. NextItems(new) = next
  BY DEF NextItems
<1> HIDE DEF items, dropped
<1>3. kept \in Seq(DOMAIN items)
  <2>1. DOMAIN items = 1..Len(items) /\ Len(items) \in Nat
    BY <1>1
  <2> QED
    BY <2>1, ListedIndices
<1> HIDE DEF kept
<1>4. \A k \in DOMAIN kept : next[k] \in S
  BY <1>1, <1>3, ElementsOfSequence
<1> QED
  BY <1>2, <1>3, <1>4, MappedType

\* A copy of an item of the other kinds differs in a flag at most.
LEMMA CopyOfOthers ==
  ASSUME NEW item \in RequireItems \cup ConflictItems \cup UninstallItems
  PROVE  /\ CopyItem(item) \in RequireItems \cup ConflictItems \cup UninstallItems
         /\ CopyItem(item).type = item.type /\ item.type \in {"require", "conflict", "uninstall"}
         /\ item.type = "require" =>
              /\ CopyItem(item).dep = item.dep /\ CopyItem(item).requiring = item.requiring
              /\ CopyItem(item).upgraded = item.upgraded /\ CopyItem(item).isChild = FALSE
         /\ item.type = "uninstall" => CopyItem(item) = item
<1>1. CASE item \in RequireItems
  <2> DEFINE copy == [item EXCEPT !.isChild = FALSE]
  <2>1. CopyItem(item) = copy
    BY <1>1 DEF CopyItem, RequireItems
  <2>2. /\ copy \in RequireItems /\ copy.type = "require" /\ item.type = "require"
        /\ copy.dep = item.dep /\ copy.requiring = item.requiring
        /\ copy.upgraded = item.upgraded /\ copy.isChild = FALSE
    BY <1>1 DEF RequireItems
  <2> HIDE DEF copy
  <2> QED
    BY <2>1, <2>2
<1>2. CASE item \in ConflictItems
  <2> DEFINE copy == [item EXCEPT !.obsolete = FALSE]
  <2>1. CopyItem(item) = copy
    BY <1>2 DEF CopyItem, ConflictItems
  <2>2. copy \in ConflictItems /\ copy.type = "conflict" /\ item.type = "conflict"
    BY <1>2 DEF ConflictItems
  <2> HIDE DEF copy
  <2> QED
    BY <2>1, <2>2
<1>3. CASE item \in UninstallItems
  <2>1. item.type = "uninstall"
    BY <1>3 DEF UninstallItems
  <2>2. CopyItem(item) = item
    BY <2>1 DEF CopyItem
  <2> QED
    BY <1>3, <2>1, <2>2
<1> QED
  BY <1>1, <1>2, <1>3

\* The copy of an item is an item.
LEMMA CopyItemType == ASSUME NEW item \in ItemType PROVE CopyItem(item) \in ItemType
<1>1. CASE item \in BranchItems
  <2>1. Reverse(item.possible) \in Seq(SimpleItemType)
    BY <1>1, ReverseType DEF BranchItems
  <2>2. [item EXCEPT !.possible = Reverse(@)] \in BranchItems
    BY <1>1, <2>1 DEF BranchItems
  <2> QED
    BY <1>1, <2>2 DEF CopyItem, ItemType, BranchItems
<1>2. CASE item \in InstallItems
  <2>1. [item EXCEPT !.explicit = FALSE] \in InstallItems
    BY <1>2 DEF InstallItems
  <2> QED
    BY <1>2, <2>1 DEF CopyItem, ItemType, SimpleItemType, InstallItems
<1>3. CASE item \in RequireItems \cup ConflictItems \cup UninstallItems
  BY <1>3, CopyOfOthers DEF ItemType, SimpleItemType
<1> QED
  BY <1>1, <1>2, <1>3 DEF ItemType, SimpleItemType

\* The queue of an alternative is a queue.
LEMMA AlternativeType ==
  ASSUME cur \in WorkingType, NEW item \in SimpleItemType
  PROVE  Alternative(item) \in QueueType
<1> DEFINE copy  == CopyItem(item)
           paid  == IF copy.type = "install"
                    THEN [copy EXCEPT !.penalty = -PriorityOf[copy.package]] ELSE copy
           items == [i \in DOMAIN cur.items |-> IF i = FirstBranch THEN paid ELSE CopyItem(cur.items[i])]
<1>1. copy \in ItemType
  BY CopyItemType DEF ItemType
<1>2. paid \in ItemType
  <2>1. CASE copy.type = "install"
    <3>1. copy \in InstallItems
      BY <1>1, <2>1 DEF ItemType, SimpleItemType, RequireItems, ConflictItems, UninstallItems, BranchItems
    <3>2. copy.package \in Pkg
      BY <3>1 DEF InstallItems
    <3>3. -PriorityOf[copy.package] \in Int
      BY <3>2, UniverseAssumption
    <3> HIDE DEF copy
    <3>4. [copy EXCEPT !.penalty = -PriorityOf[copy.package]] \in InstallItems
      BY <3>1, <3>3 DEF InstallItems
    <3> QED
      BY <2>1, <3>4 DEF ItemType, SimpleItemType
  <2>2. CASE copy.type # "install"
    BY <1>1, <2>2
  <2> QED
    BY <2>1, <2>2
<1>3. cur.items \in Seq(ItemType) /\ cur.context \in ContextType
  BY DEF WorkingType
<1> HIDE DEF paid
<1>4. items \in Seq(ItemType)
  <2>1. \A i \in DOMAIN cur.items : items[i] \in ItemType
    BY <1>2, <1>3, ElementsOfSequence, CopyItemType
  <2> QED
    BY <1>3, <2>1, MappedType
<1>5. Alternative(item) = [context |-> NewChild(cur.context), items |-> items]
  BY DEF Alternative, Queue, paid
<1> HIDE DEF items
<1> QED
  BY <1>3, <1>4, <1>5, NewChildType DEF QueueType

-----------------------------------------------------------------------------
(* Types *)

\* Sequences over a set, put together.
LEMMA SequenceSteps ==
  ASSUME NEW S, NEW s \in Seq(S), NEW t \in Seq(S), NEW x \in S
  PROVE  <<x>> \o s \in Seq(S) /\ s \o t \in Seq(S) /\ <<>> \in Seq(S) /\ <<x>> \in Seq(S)
<1>1. <<x>> \in Seq(S)
  OBVIOUS
<1> QED
  BY <1>1

\* In a turn of the loop what was put in its place stays in its place.
LEMMA TurnType ==
  ASSUME TypeOK, NEW P \in Seq(QueueType), NEW D \in Seq(QueueType), NEW C \in Seq(ContextType),
         Turn(P, D, C)
  PROVE  /\ world' \in WorldType /\ request' \in RequestType
         /\ pending' \in Seq(QueueType) /\ deferred' \in Seq(QueueType)
         /\ cur' \in WorkingType
         /\ complete' \in Seq(ContextType)
         /\ timedOut' \in BOOLEAN
         /\ pc' \in {"loop", "process", "classify", "done", "aborted"}
<1>1. ASSUME D # <<>>
      PROVE  <<Head(D)>> \in Seq(QueueType) /\ Tail(D) \in Seq(QueueType)
  <2>1. Head(D) \in QueueType /\ Tail(D) \in Seq(QueueType)
    BY <1>1
  <2> QED
    BY <2>1
<1>2. /\ pending' \in {P, <<Head(D)>>} /\ deferred' \in {D, Tail(D)}
      /\ (pending' = P \/ D # <<>>) /\ (deferred' = D \/ D # <<>>)
  BY DEF Turn
<1>3. pending' \in Seq(QueueType) /\ deferred' \in Seq(QueueType)
  BY <1>1, <1>2
<1> QED
  BY <1>3 DEF Turn, TypeOK

\* The resolver starts with everything in shape.
LEMMA InitType == Init => TypeOK
<1> SUFFICES ASSUME Init PROVE TypeOK
  OBVIOUS
<1>1. world \in WorldType /\ request \in RequestType
  BY UniverseAssumption, RequestAssumption DEF Init
<1>2. pending \in Seq(QueueType)
  <2>1. InitialQueue(request) \in QueueType
    BY <1>1, InitialQueueType
  <2> QED
    BY <2>1 DEF Init
<1>3. cur \in WorkingType
  <2>1. NewContext(request.verifying) \in ContextType
    BY <1>1, NewContextType DEF RequestType
  <2>2. \A c \in ContextType : Working(c, <<>>, FALSE) \in WorkingType
    BY DEF Working, WorkingType
  <2>3. cur = Working(NewContext(request.verifying), <<>>, FALSE)
    BY DEF Init
  <2> QED
    BY <2>1, <2>2, <2>3
<1>4. /\ deferred \in Seq(QueueType) /\ complete \in Seq(ContextType)
      /\ pruned \in Seq(ContextType) /\ invalid \in Seq(ContextType)
      /\ best \in Seq(ContextType) /\ Len(best) <= 1
  <2>1. \A S : <<>> \in Seq(S)
    OBVIOUS
  <2>2. Len(<<>>) <= 1
    OBVIOUS
  <2>3. /\ deferred = <<>> /\ complete = <<>> /\ pruned = <<>> /\ invalid = <<>> /\ best = <<>>
    BY DEF Init
  <2> QED
    BY <2>1, <2>2, <2>3
<1>5. timedOut \in BOOLEAN /\ pc \in {"loop", "process", "classify", "done", "aborted"}
  BY DEF Init
<1> QED
  BY <1>1, <1>2, <1>3, <1>4, <1>5 DEF TypeOK

\* There is a next item as long as there are items.
LEMMA NextItemExists ==
  ASSUME cur.items \in Seq(ItemType), cur.items # <<>>
  PROVE  NextItem \in DOMAIN cur.items
<1> DEFINE urgent == {i \in DOMAIN cur.items : Priority(cur.items[i]) = 100}
<1>1. \A i \in DOMAIN cur.items : Priority(cur.items[i]) \in {0, 100}
  BY DEF Priority
<1>2. DOMAIN cur.items = 1..Len(cur.items) /\ Len(cur.items) \in Nat \ {0}
  OBVIOUS
<1>3. \E i \in DOMAIN cur.items :
        /\ \A j \in DOMAIN cur.items : Priority(cur.items[j]) <= Priority(cur.items[i])
        /\ \A j \in 1..(i - 1) : Priority(cur.items[j]) < Priority(cur.items[i])
  <2>1. CASE urgent # {}
    <3>1. urgent \in SUBSET Nat
      BY <1>2
    <3> HIDE DEF urgent
    <3>2. PICK i \in urgent : \A j \in urgent : i <= j
      BY <2>1, <3>1, SmallestExists
    <3> USE DEF urgent
    <3>3. \A j \in 1..(i - 1) : j \in DOMAIN cur.items /\ j \notin urgent
      BY <1>2, <3>2
    <3> QED
      BY <1>1, <3>2, <3>3
  <2>2. CASE urgent = {}
    <3>1. 1 \in DOMAIN cur.items /\ 1..(1 - 1) = {}
      BY <1>2
    <3> QED
      BY <1>1, <2>2, <3>1
  <2> QED
    BY <2>1, <2>2
<1> QED
  BY <1>3 DEF NextItem

\* Taking an item off the queue leaves a queue.
LEMMA RemoveAtType ==
  ASSUME NEW S, NEW s \in Seq(S), NEW i \in DOMAIN s
  PROVE  RemoveAt(s, i) \in Seq(S)
<1>1. i \in 1..Len(s) /\ Len(s) \in Nat
  OBVIOUS
<1>2. SubSeq(s, 1, i - 1) \in Seq(S) /\ SubSeq(s, i + 1, Len(s)) \in Seq(S)
  BY <1>1
<1> QED
  BY <1>2 DEF RemoveAt

\* Processing an item keeps the types, and its outcome takes nothing back.
LEMMA StepType ==
  ASSUME TypeOK, NEW type, Step(type)
  PROVE  TypeOK' /\ Follows(cur.context, ProcessItem(cur.context, cur.items[NextItem]))
<1> DEFINE item == cur.items[NextItem]
           out == ProcessItem(cur.context, item)
<1>1. /\ cur.context \in ContextType /\ cur.items \in Seq(ItemType)
      /\ cur.new \in Seq(ItemType) /\ cur.did \in BOOLEAN
  BY DEF TypeOK, WorkingType
<1>2. NextItem \in DOMAIN cur.items
  BY <1>1, NextItemExists DEF Step
<1>3. item \in ItemType /\ RemoveAt(cur.items, NextItem) \in Seq(ItemType)
  BY <1>1, <1>2, ElementsOfSequence, RemoveAtType
<1>4. Follows(cur.context, out)
  BY <1>1, <1>3, ProcessItemFollows DEF TypeOK
<1>5. out \in OutcomeType
  BY <1>4 DEF Follows
<1> HIDE DEF out
<1>6. cur.new \o out.items \in Seq(ItemType)
  BY <1>1, <1>5 DEF OutcomeType
<1>7. cur' = [context |-> out.context, items |-> RemoveAt(cur.items, NextItem),
              new |-> cur.new \o out.items, did |-> cur.did \/ out.did]
  BY DEF Step, out
<1>8. cur' \in WorkingType
  BY <1>1, <1>3, <1>5, <1>6, <1>7 DEF WorkingType, OutcomeType
<1>9. pc' \in {"loop", "process", "classify", "done", "aborted"}
  BY DEF Step, TypeOK
<1>10. UNCHANGED <<world, request, pending, deferred, complete, pruned, invalid, best, timedOut>>
  BY DEF Step
<1>11. TypeOK'
  BY <1>8, <1>9, <1>10 DEF TypeOK
<1> QED
  BY <1>4, <1>11 DEF out

\* Splitting a branch keeps the types.
LEMMA SplitType == ASSUME TypeOK, Split PROVE TypeOK'
<1> DEFINE alternatives == IF Branches = {} THEN <<>> ELSE cur.items[FirstBranch].possible
           unlikely     == ToDefer(alternatives)
           order(I)     == Reverse(Listed(I, [i \in DOMAIN alternatives |-> i]))
           queues(s)    == [k \in DOMAIN s |-> Alternative(alternatives[s[k]])]
           P == queues(order(DOMAIN alternatives \ unlikely)) \o pending
           D == queues(order(unlikely)) \o deferred
<1>1. cur \in WorkingType /\ cur.items \in Seq(ItemType)
  BY DEF TypeOK, WorkingType
<1>2. alternatives \in Seq(SimpleItemType)
  <2>1. CASE Branches = {}
    BY <2>1
  <2>2. CASE Branches # {}
    <3>1. Branches \in SUBSET Nat
      BY <1>1 DEF Branches
    <3>2. \E i \in Branches : \A j \in Branches : i <= j
      BY <2>2, <3>1, SmallestExists
    <3>3. FirstBranch \in Branches
      BY <3>2 DEF FirstBranch
    <3>4. cur.items[FirstBranch] \in ItemType /\ cur.items[FirstBranch].type = "branch"
      BY <1>1, <3>3 DEF Branches
    <3>5. cur.items[FirstBranch] \in BranchItems
      BY <3>4 DEF ItemType, SimpleItemType, InstallItems, RequireItems, ConflictItems, UninstallItems
    <3> QED
      BY <2>2, <3>5 DEF BranchItems
  <2> QED
    BY <2>1, <2>2
<1>3. unlikely \in SUBSET DOMAIN alternatives
  BY DEF ToDefer
<1>4. Turn(P, D, complete) /\ UNCHANGED <<pruned, invalid, best>>
  BY DEF Split
<1> HIDE DEF alternatives, unlikely
<1>5. ASSUME NEW I \in SUBSET DOMAIN alternatives
      PROVE  queues(order(I)) \in Seq(QueueType)
  <2>1. DOMAIN alternatives = 1..Len(alternatives) /\ Len(alternatives) \in Nat
    BY <1>2
  <2>2. Listed(I, [i \in DOMAIN alternatives |-> i]) \in Seq(DOMAIN alternatives)
    BY <2>1, ListedIndices
  <2>3. order(I) \in Seq(DOMAIN alternatives)
    BY <2>2, ReverseType
  <2> HIDE DEF order
  <2>4. \A k \in DOMAIN order(I) : alternatives[order(I)[k]] \in SimpleItemType
    BY <1>2, <2>3, ElementsOfSequence
  <2>5. \A k \in DOMAIN order(I) : queues(order(I))[k] \in QueueType
    BY <1>1, <2>4, AlternativeType
  <2> QED
    BY <2>3, <2>5, MappedType
<1> HIDE DEF order, queues
<1>6. P \in Seq(QueueType) /\ D \in Seq(QueueType)
  <2>1. /\ queues(order(DOMAIN alternatives \ unlikely)) \in Seq(QueueType)
        /\ queues(order(unlikely)) \in Seq(QueueType)
    BY <1>3, <1>5
  <2> QED
    BY <2>1 DEF TypeOK
<1> HIDE DEF P, D
<1> QED
  BY <1>4, <1>6, TurnType DEF TypeOK

\* The end of a pass keeps the types.
LEMMA EndPassType == ASSUME TypeOK, EndPass PROVE TypeOK'
<1> DEFINE items == NextItems(cur.new)
<1>1. cur.context \in ContextType /\ cur.new \in Seq(ItemType)
  BY DEF TypeOK, WorkingType
<1>2. items \in Seq(ItemType)
  BY <1>1, NextItemsType
<1>3. /\ cur' = Working(cur.context, items, FALSE)
      /\ pc' \in {"process", "classify"}
      /\ UNCHANGED <<world, request, pending, deferred, complete, pruned, invalid, best, timedOut>>
  BY DEF EndPass
<1> HIDE DEF items
<1>4. cur' \in WorkingType
  BY <1>1, <1>2, <1>3 DEF Working, WorkingType
<1> QED
  BY <1>3, <1>4 DEF TypeOK

\* Taking up a queue keeps the types.
LEMMA PopQueueType == ASSUME TypeOK, PopQueue PROVE TypeOK'
<1>1. Head(pending) \in QueueType /\ Tail(pending) \in Seq(QueueType)
  BY DEF TypeOK, PopQueue
<1>2. Head(pending).context \in ContextType /\ Head(pending).items \in Seq(ItemType)
  BY <1>1 DEF QueueType
<1>3. cur' = Working(Head(pending).context, Head(pending).items, FALSE)
  BY DEF PopQueue
<1>4. cur' \in WorkingType
  BY <1>2, <1>3 DEF Working, WorkingType
<1> QED
  BY <1>1, <1>4 DEF TypeOK, PopQueue

\* Rejecting a queue keeps the types.
LEMMA RejectType == ASSUME TypeOK, Reject PROVE TypeOK'
<1>1. /\ pending \in Seq(QueueType) /\ deferred \in Seq(QueueType) /\ complete \in Seq(ContextType)
      /\ invalid \in Seq(ContextType) /\ cur.context \in ContextType
  BY DEF TypeOK, WorkingType
<1>2. Turn(pending, deferred, complete) /\ invalid' = <<cur.context>> \o invalid
      /\ UNCHANGED <<pruned, best>>
  BY DEF Reject
<1>3. invalid' \in Seq(ContextType)
  BY <1>1, <1>2, SequenceSteps
<1> QED
  BY <1>1, <1>2, <1>3, TurnType DEF TypeOK

\* Completing a solution keeps the types.
LEMMA CompleteType == ASSUME TypeOK, Complete PROVE TypeOK'
<1>1. /\ pending \in Seq(QueueType) /\ deferred \in Seq(QueueType) /\ complete \in Seq(ContextType)
      /\ cur.context \in ContextType
  BY DEF TypeOK, WorkingType
<1>2. /\ Turn(pending, deferred, <<cur.context>> \o complete)
      /\ best' \in {<<cur.context>>, best} /\ UNCHANGED <<pruned, invalid>>
  BY DEF Complete
<1>3. <<cur.context>> \o complete \in Seq(ContextType)
  BY <1>1, SequenceSteps
<1>4. best' \in Seq(ContextType) /\ Len(best') <= 1
  <2>1. <<cur.context>> \in Seq(ContextType) /\ Len(<<cur.context>>) <= 1
    BY <1>1
  <2> QED
    BY <1>2, <2>1 DEF TypeOK
<1> QED
  BY <1>1, <1>2, <1>3, <1>4, TurnType DEF TypeOK

\* Pruning a queue keeps the types.
LEMMA PruneType == ASSUME TypeOK, Prune PROVE TypeOK'
<1>1. /\ pending \in Seq(QueueType) /\ deferred \in Seq(QueueType) /\ complete \in Seq(ContextType)
      /\ pruned \in Seq(ContextType) /\ cur.context \in ContextType
  BY DEF TypeOK, WorkingType
<1>2. Turn(pending, deferred, complete) /\ pruned' = <<cur.context>> \o pruned
      /\ UNCHANGED <<invalid, best>>
  BY DEF Prune
<1>3. pruned' \in Seq(ContextType)
  BY <1>1, <1>2, SequenceSteps
<1> QED
  BY <1>1, <1>2, <1>3, TurnType DEF TypeOK

\* Every step keeps the types, so they hold always (the shape of contexts,
\* items and queues that the code's structs prescribe).
THEOREM TypeCorrect == Spec => []TypeOK
<1>1. Init => TypeOK
  BY InitType
<1>2. TypeOK /\ [Next]_vars => TypeOK'
  <2> SUFFICES ASSUME TypeOK, [Next]_vars PROVE TypeOK'
    OBVIOUS
  <2>1. CASE PopQueue
    BY <2>1, PopQueueType
  <2>2. CASE Timeout
    BY <2>2 DEF Timeout, TypeOK
  <2>3. CASE InstallStep
    BY <2>3, StepType DEF InstallStep
  <2>4. CASE RequireStep
    BY <2>4, StepType DEF RequireStep
  <2>5. CASE ConflictStep
    BY <2>5, StepType DEF ConflictStep
  <2>6. CASE UninstallStep
    BY <2>6, StepType DEF UninstallStep
  <2>7. CASE BranchStep
    BY <2>7, StepType DEF BranchStep
  <2>8. CASE EndPass
    BY <2>8, EndPassType
  <2>9. CASE Reject
    BY <2>9, RejectType
  <2>10. CASE Complete
    BY <2>10, CompleteType
  <2>11. CASE Prune
    BY <2>11, PruneType
  <2>12. CASE Split
    BY <2>12, SplitType
  <2>13. CASE Finish
    BY <2>13 DEF Finish, TypeOK
  <2>14. CASE UNCHANGED vars
    BY <2>14 DEF vars, resolverVars, TypeOK
  <2> QED
    BY <2>1, <2>2, <2>3, <2>4, <2>5, <2>6, <2>7, <2>8, <2>9, <2>10, <2>11, <2>12, <2>13, <2>14
       DEF Next, Work, Terminated
<1> QED
  BY <1>1, <1>2, PTL DEF Spec

-----------------------------------------------------------------------------
(* Decisions *)

\* A decision is only ever made once: no step of the processing of a queue
\* takes back what an earlier step decided for that queue.
THEOREM DecisionsAreKept == Spec => DecisionsStand
<1>1. ASSUME TypeOK, Next, pc = "process", NEW p \in Pkg, IsDecided(GetStatus(cur.context, p))
      PROVE  GetStatus(cur'.context, p) = GetStatus(cur.context, p)
  <2>1. GetStatus(cur.context, p) \in Decided
    BY <1>1 DEF IsDecided, Decided
  <2>2. ASSUME NEW type, Step(type)
        PROVE  GetStatus(cur'.context, p) = GetStatus(cur.context, p)
    <3> DEFINE out == ProcessItem(cur.context, cur.items[NextItem])
    <3>1. KeepsDecisions(cur.context, out.context)
      BY <1>1, <2>2, StepType DEF Follows
    <3>2. cur'.context = out.context
      BY <2>2 DEF Step
    <3> HIDE DEF out
    <3> QED
      BY <2>1, <3>1, <3>2 DEF KeepsDecisions
  <2>3. CASE EndPass
    <3>1. cur'.context = cur.context
      BY <2>3 DEF EndPass, Working
    <3> QED
      BY <3>1
  <2>4. pc \notin {"loop", "classify", "done", "aborted"}
    BY <1>1
  <2> QED
    BY <1>1, <2>2, <2>3, <2>4
       DEF Next, Work, PopQueue, Timeout, InstallStep, RequireStep, ConflictStep, UninstallStep,
           BranchStep, Reject, Complete, Prune, Split, Finish, Terminated
<1>2. TypeOK /\ Next =>
        (pc = "process" => \A p \in Pkg : IsDecided(GetStatus(cur.context, p))
                            => GetStatus(cur'.context, p) = GetStatus(cur.context, p))
  BY <1>1
<1> QED
  BY <1>2, TypeCorrect, PTL DEF Spec, DecisionsStand

-----------------------------------------------------------------------------
(* Branches *)

\* A pass that has got nowhere so far has only passed on branches.
PassInv ==
  /\ TypeOK
  /\ pc = "process" /\ ~cur.did => cur.new \in Seq(BranchItems)
  /\ OnlyBranchesAreSplit

\* A queue of branches is what may be split.
LEMMA AllAreBranches ==
  ASSUME cur'.items \in Seq(BranchItems)
  PROVE  Branches' = DOMAIN cur'.items
<1>1. \A i \in DOMAIN cur'.items : cur'.items[i] \in BranchItems
  BY ElementsOfSequence
<1>2. \A item \in BranchItems : item.type = "branch"
  BY DEF BranchItems
<1> QED
  BY <1>1, <1>2 DEF Branches

\* Processing an item keeps it that way: items that get somewhere are noted.
LEMMA StepPasses == ASSUME PassInv, NEW type, Step(type) PROVE PassInv'
<1> DEFINE item == cur.items[NextItem]
           out  == ProcessItem(cur.context, item)
<1>1. TypeOK'
  BY StepType DEF PassInv
<1>2. cur.context \in ContextType /\ cur.items \in Seq(ItemType) /\ cur.did \in BOOLEAN
  BY DEF PassInv, TypeOK, WorkingType
<1>3. item \in ItemType
  BY <1>2, NextItemExists, ElementsOfSequence DEF Step
<1>4. out.did \in BOOLEAN
  BY StepType DEF PassInv, Follows, OutcomeType
<1>5. out.did # TRUE => item \in BranchItems /\ out.items = <<item>>
  BY <1>3, OnlyBranchesGetNowhere
<1> HIDE DEF item
<1>6. /\ cur'.new = cur.new \o out.items /\ cur'.did = (cur.did \/ out.did)
      /\ pc = "process" /\ pc' \in {"process", "aborted"}
  BY DEF Step, item
<1> HIDE DEF out
<1>7. ASSUME ~cur'.did PROVE cur'.new \in Seq(BranchItems)
  <2>1. ~cur.did /\ out.did # TRUE
    BY <1>2, <1>4, <1>6, <1>7
  <2>2. cur.new \in Seq(BranchItems) /\ <<item>> \in Seq(BranchItems)
    BY <1>5, <1>6, <2>1 DEF PassInv
  <2> QED
    BY <1>5, <1>6, <2>1, <2>2
<1> QED
  BY <1>1, <1>6, <1>7 DEF PassInv, OnlyBranchesAreSplit

\* So does the end of a pass: only one that got nowhere is the last one of a
\* queue that still has items.
LEMMA EndPassPasses == ASSUME PassInv, EndPass PROVE PassInv'
<1> DEFINE items == NextItems(cur.new)
<1>1. TypeOK' /\ cur.did \in BOOLEAN
  BY EndPassType DEF PassInv, TypeOK, WorkingType
<1>2. ~cur.did => items \in Seq(BranchItems)
  BY NextItemsType DEF PassInv, EndPass
<1>3. /\ cur' = Working(cur.context, items, FALSE)
      /\ pc' = IF cur.did /\ ~cur.context.invalid /\ items # <<>> THEN "process" ELSE "classify"
  BY DEF EndPass
<1> HIDE DEF items
<1>4. cur'.context = cur.context /\ cur'.items = items /\ cur'.new = <<>>
  BY <1>3 DEF Working
<1>5. cur'.new \in Seq(BranchItems)
  BY <1>4
<1>6. ASSUME pc' = "classify", ~cur'.context.invalid PROVE Branches' = DOMAIN cur'.items
  <2>1. ~cur.did \/ items = <<>>
    BY <1>3, <1>4, <1>6
  <2>2. <<>> \in Seq(BranchItems)
    OBVIOUS
  <2>3. cur'.items \in Seq(BranchItems)
    BY <1>2, <1>4, <2>1, <2>2
  <2> QED
    BY <2>3, AllAreBranches
<1> QED
  BY <1>1, <1>5, <1>6 DEF PassInv, OnlyBranchesAreSplit

\* A queue that is neither invalid nor a solution is down to nothing but
\* branches when it is split (the comment in rc_resolver_resolve_dependencies
\* at the call of rc_resolver_queue_split_first_branch).
THEOREM OnlyBranchesRemain == Spec => []OnlyBranchesAreSplit
<1>1. Init => PassInv
  BY InitType DEF Init, PassInv, OnlyBranchesAreSplit
<1>2. TypeOK' /\ PassInv /\ [Next]_vars => PassInv'
  <2> SUFFICES ASSUME TypeOK', PassInv, [Next]_vars PROVE PassInv'
    OBVIOUS
  <2>1. CASE PopQueue
    <3>1. pc' = "process" /\ cur'.new = <<>>
      BY <2>1 DEF PopQueue, Working
    <3>2. cur'.new \in Seq(BranchItems)
      BY <3>1
    <3> QED
      BY <3>1, <3>2 DEF PassInv, OnlyBranchesAreSplit
  <2>2. ASSUME NEW type, Step(type) PROVE PassInv'
    BY <2>2, StepPasses
  <2>3. CASE EndPass
    BY <2>3, EndPassPasses
  <2>4. CASE Reject \/ Complete \/ Prune \/ Split \/ Timeout \/ Finish
    <3>1. pc' \in {"loop", "done"}
      BY <2>4 DEF Reject, Complete, Prune, Split, Turn, Timeout, Finish
    <3> QED
      BY <3>1 DEF PassInv, OnlyBranchesAreSplit
  <2>5. CASE UNCHANGED vars
    BY <2>5 DEF vars, resolverVars, PassInv, OnlyBranchesAreSplit, Branches
  <2> QED
    BY <2>1, <2>2, <2>3, <2>4, <2>5
       DEF Next, Work, InstallStep, RequireStep, ConflictStep, UninstallStep, BranchStep, Terminated
<1>3. PassInv => OnlyBranchesAreSplit
  BY DEF PassInv
<1> QED
  BY <1>1, <1>2, <1>3, TypeCorrect, PTL DEF Spec

-----------------------------------------------------------------------------
(* The best solution *)

\* The churn of a solution is a number.
LEMMA ChurnType == ASSUME NEW c \in ContextType PROVE ChurnFactor(c) \in Int
<1>1. IsFiniteSet(MarkedPackages(c))
  <2>1. DOMAIN c.chain = 1..Len(c.chain) /\ Len(c.chain) \in Int
    BY DEF ContextType
  <2>2. IsFiniteSet(1..Len(c.chain))
    <3>1. \A n \in Int : IsFiniteSet(1..n)
      BY FS_Interval
    <3> QED
      BY <2>1, <3>1
  <2>3. IsFiniteSet((DOMAIN c.chain) \X Pkg)
    BY <2>1, <2>2, UniverseIsFinite, FS_Product
  <2>4. MarkedPackages(c) \subseteq (DOMAIN c.chain) \X Pkg
    BY DEF MarkedPackages
  <2> QED
    BY <2>3, <2>4, FS_Subset
<1>2. /\ InstallMarks(c) \subseteq MarkedPackages(c)
      /\ UpgradeMarks(c) \subseteq MarkedPackages(c)
      /\ UninstallMarks(c) \subseteq MarkedPackages(c)
  BY DEF InstallMarks, UpgradeMarks, UninstallMarks
<1>3. /\ IsFiniteSet(InstallMarks(c)) /\ IsFiniteSet(UpgradeMarks(c))
      /\ IsFiniteSet(UninstallMarks(c))
  BY <1>1, <1>2, FS_Subset
<1>4. /\ Cardinality(InstallMarks(c)) \in Nat /\ Cardinality(UpgradeMarks(c)) \in Nat
      /\ Cardinality(UninstallMarks(c)) \in Nat
  BY <1>3, FS_CardinalityType
<1> QED
  BY <1>4 DEF ChurnFactor

\* Solutions are compared lexicographically, so the comparison is a strict
\* weak order.
LEMMA BetterIsOrder ==
  ASSUME NEW a \in ContextType, NEW b \in ContextType, NEW c \in ContextType, Better(a, b)
  PROVE  /\ Better(b, c) => Better(a, c)
         /\ ~Better(c, b) => Better(a, c)
<1>1. /\ ChurnFactor(a) \in Int /\ ChurnFactor(b) \in Int /\ ChurnFactor(c) \in Int
  BY ChurnType
<1>2. \A x \in {a, b, c} : /\ x.minPriority \in Int /\ x.penalties \in Int
                           /\ x.download \in Int /\ x.disk \in Int
  BY DEF ContextType
<1> QED
  BY <1>1, <1>2 DEF Better, PartiallyBetter

\* As long as the world stays, solutions compare the same way.
LEMMA BetterUnmoved ==
  ASSUME world' = world
  PROVE  \A a, b : Better(a, b)' <=> Better(a, b)
<1>1. \A p : FindInstalledVersion(p)' = FindInstalledVersion(p)
  BY DEF FindInstalledVersion
<1>2. \A c : UpgradeMarks(c)' = UpgradeMarks(c) /\ InstallMarks(c)' = InstallMarks(c)
  BY <1>1 DEF UpgradeMarks, InstallMarks
<1>3. \A c : UninstallMarks(c)' = UninstallMarks(c)
  BY <1>2 DEF UninstallMarks
<1>4. \A c : ChurnFactor(c)' = ChurnFactor(c)
  BY <1>2, <1>3 DEF ChurnFactor
<1>5. \A a, b : PartiallyBetter(a, b)' <=> PartiallyBetter(a, b)
  BY <1>4 DEF PartiallyBetter
<1> QED
  BY <1>5 DEF Better

\* Of the solutions found, the last one first, the i-th is the first best one.
FirstOfBest(found, i) ==
  \A j \in DOMAIN found : /\ j < i => ~Better(found[j], found[i])
                          /\ j > i => Better(found[i], found[j])

\* A new solution that is better than the best is better than all.
LEMMA NewBest ==
  ASSUME NEW x \in ContextType, NEW found \in Seq(ContextType), NEW i \in DOMAIN found,
         FirstOfBest(found, i), Better(x, found[i])
  PROVE  FirstOfBest(<<x>> \o found, 1)
<1> DEFINE all == <<x>> \o found
<1>1. /\ all[1] = x /\ \A j \in DOMAIN all : j # 1 => j - 1 \in DOMAIN found /\ all[j] = found[j - 1]
      /\ DOMAIN all \subseteq Nat \ {0} /\ DOMAIN found \subseteq Nat
  OBVIOUS
<1>2. ASSUME NEW j \in DOMAIN found
      PROVE  Better(x, found[j])
  <2>1. found[i] \in ContextType /\ found[j] \in ContextType
    BY ElementsOfSequence
  <2>2. CASE j = i
    BY <2>2
  <2>3. CASE j < i
    BY <2>1, <2>3, BetterIsOrder DEF FirstOfBest
  <2>4. CASE j > i
    BY <2>1, <2>4, BetterIsOrder DEF FirstOfBest
  <2> QED
    BY <1>1, <2>2, <2>3, <2>4
<1> HIDE DEF all
<1>3. FirstOfBest(all, 1)
  BY <1>1, <1>2 DEF FirstOfBest
<1> QED
  BY <1>3 DEF all

\* A new solution that is not better leaves the best one where it was.
LEMMA OldBest ==
  ASSUME NEW x \in ContextType, NEW found \in Seq(ContextType), NEW i \in DOMAIN found,
         FirstOfBest(found, i), ~Better(x, found[i])
  PROVE  /\ i + 1 \in DOMAIN (<<x>> \o found) /\ (<<x>> \o found)[i + 1] = found[i]
         /\ FirstOfBest(<<x>> \o found, i + 1)
<1> DEFINE all == <<x>> \o found
<1>1. /\ all[1] = x /\ \A j \in DOMAIN all : j # 1 => j - 1 \in DOMAIN found /\ all[j] = found[j - 1]
      /\ DOMAIN all \subseteq Nat \ {0} /\ DOMAIN found \subseteq Nat
      /\ i + 1 \in DOMAIN all /\ all[i + 1] = found[i]
  OBVIOUS
<1> HIDE DEF all
<1>2. ASSUME NEW j \in DOMAIN all
      PROVE  /\ j < i + 1 => ~Better(all[j], found[i])
             /\ j > i + 1 => Better(found[i], all[j])
  <2>1. CASE j = 1
    BY <1>1, <2>1
  <2>2. CASE j # 1
    <3>1. j - 1 \in DOMAIN found /\ all[j] = found[j - 1] /\ j \in Nat /\ i \in Nat
      BY <1>1, <2>2
    <3>2. (j < i + 1 <=> j - 1 < i) /\ (j > i + 1 <=> j - 1 > i)
      BY <3>1
    <3> QED
      BY <3>1, <3>2 DEF FirstOfBest
  <2> QED
    BY <2>1, <2>2
<1>3. FirstOfBest(all, i + 1)
  BY <1>1, <1>2 DEF FirstOfBest
<1> QED
  BY <1>1, <1>3 DEF all

\* The solution that is offered is the first of the best ones found, as the
\* comment in the resolver's loop has it, whatever is found in whatever order.
THEOREM BestIsOffered == Spec => []BestIsFirstOfBest
<1> DEFINE Inv == \/ best = <<>> /\ complete = <<>>
                  \/ \E i \in DOMAIN complete : best = <<complete[i]>> /\ FirstOfBest(complete, i)
<1>1. BestIsFirstOfBest <=> Inv
  BY DEF BestIsFirstOfBest, FirstOfBest
<1>2. Init => Inv
  BY DEF Init
<1>3. TypeOK /\ Inv /\ [Next]_vars => Inv'
  <2> SUFFICES ASSUME TypeOK, Inv, [Next]_vars PROVE Inv'
    OBVIOUS
  <2>1. world' = world
    BY DEF Next, Work, Terminated, PopQueue, Timeout, InstallStep, RequireStep, ConflictStep,
           UninstallStep, BranchStep, Step, EndPass, Reject, Complete, Prune, Split, Finish,
           Turn, vars, resolverVars
  <2>2. \A s, i : FirstOfBest(s, i)' <=> FirstOfBest(s, i)
    BY <2>1, BetterUnmoved DEF FirstOfBest
  <2>3. CASE Complete
    <3> DEFINE x == cur.context
    <3>1. /\ x \in ContextType /\ complete \in Seq(ContextType)
          /\ complete' = <<x>> \o complete
          /\ best' = IF best = <<>> \/ Better(x, best[1]) THEN <<x>> ELSE best
      BY <2>3 DEF Complete, Turn, TypeOK, WorkingType
    <3> HIDE DEF x
    <3>2. CASE complete = <<>> /\ best = <<>>
      <4>1. complete' = <<x>> /\ best' = <<x>>
        BY <3>1, <3>2
      <4>2. FirstOfBest(<<x>>, 1)
        BY DEF FirstOfBest
      <4> QED
        BY <2>2, <4>1, <4>2
    <3>3. ASSUME NEW i \in DOMAIN complete, best = <<complete[i]>>, FirstOfBest(complete, i)
          PROVE  Inv'
      <4>1. CASE Better(x, complete[i])
        <5>1. FirstOfBest(<<x>> \o complete, 1)
          BY <3>1, <3>3, <4>1, NewBest
        <5>2. best' = <<x>> /\ (<<x>> \o complete)[1] = x /\ 1 \in DOMAIN (<<x>> \o complete)
          BY <3>1, <3>3, <4>1
        <5> QED
          BY <2>2, <3>1, <5>1, <5>2
      <4>2. CASE ~Better(x, complete[i])
        <5>1. /\ i + 1 \in DOMAIN (<<x>> \o complete) /\ (<<x>> \o complete)[i + 1] = complete[i]
              /\ FirstOfBest(<<x>> \o complete, i + 1)
          BY <3>1, <3>3, <4>2, OldBest
        <5>2. best' = best
          BY <3>1, <3>3, <4>2
        <5> QED
          BY <2>2, <3>1, <3>3, <5>1, <5>2
      <4> QED
        BY <4>1, <4>2
    <3> QED
      BY <3>2, <3>3
  <2>4. CASE UNCHANGED <<best, complete>>
    BY <2>2, <2>4
  <2>5. Complete \/ UNCHANGED <<best, complete>>
    BY DEF Next, Work, Terminated, PopQueue, Timeout, InstallStep, RequireStep, ConflictStep,
           UninstallStep, BranchStep, Step, EndPass, Reject, Prune, Split, Finish,
           Turn, vars, resolverVars
  <2> QED
    BY <2>3, <2>4, <2>5
<1> QED
  BY <1>1, <1>2, <1>3, TypeCorrect, PTL DEF Spec

-----------------------------------------------------------------------------
(***************************************************************************)
(* What the solutions promise, for every universe of packages, every world *)
(* and every request: what was asked for is done, locks hold, and what is  *)
(* installed goes together with what is there.                             *)
(*                                                                         *)
(* The promises hold of a context with an empty queue.  While there are    *)
(* items, each promise is either kept already or there is an item that     *)
(* will keep it: the queue owes it.  Good says so of a context and the     *)
(* items that are still to be processed, Effect what processing an item    *)
(* does for what is owed, and EffectKeepsGood that this is enough.         *)
(***************************************************************************)

\* The statuses that mean that a package goes, or must not come, for good.
Final == {"TO_BE_UNINSTALLED", "DUE_TO_OBSOLETE"}

\* An installed package that the request lets go even if it is locked.
Justified(p) == p \in request.remove \/ \E q \in request.install : NameOf[q] = NameOf[p]

\* A package that is not installed is installed softly by a verification and
\* not otherwise, is never unlinked, and a locked one stays.
StatusInv(c) ==
  /\ c.chain # <<>>
  /\ \A p \in Pkg :
       /\ p \notin world.installed =>
            GetStatus(c, p) \in Final \cup
              {"UNINSTALLED", IF c.verifying THEN "TO_BE_INSTALLED_SOFT" ELSE "TO_BE_INSTALLED"}
       /\ p \in world.installed => GetStatus(c, p) # "UNINSTALLED"
       /\ p \in world.installed \cap world.locked /\ ~Justified(p) => GetStatus(c, p) = "INSTALLED"

\* What an item may be for.
SimpleInv(c, item) ==
  /\ item.type = "install" =>
       /\ item.package \notin world.installed \cap world.locked
       /\ item.explicit => item.package \in request.install
       /\ item.upgrades # NONE =>
            /\ NameOf[item.upgrades] = NameOf[item.package]
            /\ ~SameSpec(item.package, item.upgrades)
            /\ Taken(c, item.upgrades)
  /\ item.type = "require" /\ item.upgraded # NONE /\ item.requiring # NONE =>
       Taken(c, item.requiring)
  /\ item.type = "uninstall" =>
       /\ item.explicit => Justified(item.package)
       /\ item.unlink => item.package \in world.installed

ItemInv(c, item) ==
  IF item.type = "branch" THEN \A i \in DOMAIN item.possible : SimpleInv(c, item.possible[i])
  ELSE SimpleInv(c, item)

IsRemovalOf(item, q) == item.type = "uninstall" /\ item.package = q /\ ~item.unlink

\* A package that goes, or that an item of the queue removes.
Doomed(c, I, q) == GetStatus(c, q) \in Final \/ \E item \in I : IsRemovalOf(item, q)

\* What conflicts with a package that is to be installed goes, in both directions.
OpposedGo(c, I, p) ==
  /\ \A d \in world.conflicts[p] :
       ConflictItem(d, p, FALSE) \in I \/ \A q \in Providers[d] : SameSpec(q, p) \/ Doomed(c, I, q)
  /\ \A q \in Conflicting(p) : SameSpec(q, p) \/ Doomed(c, I, q)

ConflictsInv(c, I) ==
  \A p \in Pkg \ world.installed : GetStatus(c, p) \in ToBeInstalled => OpposedGo(c, I, p)

\* Two versions of a package come only where they upgrade a third one.
UpgradedBySeveral(c, I, p) ==
  \E r \in Pkg \ world.installed : NameOf[r] = NameOf[p] /\ Taken(c, r) /\ Doomed(c, I, r)

ParallelInv(c, I) ==
  \A p, q \in Pkg \ world.installed :
    /\ GetStatus(c, p) \in ToBeInstalled /\ GetStatus(c, q) \in ToBeInstalled
    /\ NameOf[p] = NameOf[q] /\ ~SameSpec(p, q) /\ FindInstalledVersion(p) = NONE
    => UpgradedBySeveral(c, I, p)

\* What was to be installed is, or is queued, and not for the sake of another
\* package that might go.
IsInstallOf(item, p) ==
  /\ item.type = "install" /\ item.package = p /\ item.neededBy = {}
  /\ item.upgrades # NONE => FindInstalledVersion(p) # NONE

InstallsInv(c, I) ==
  \A p \in request.install \ world.installed :
    \/ \E item \in I : IsInstallOf(item, p)
    \/ GetStatus(c, p) \in ToBeInstalled
    \/ LostUpgrade(c, p)
    \/ TakenBack(c, p)

RemovesInv(c, I) == \A p \in request.remove \cap world.installed : Doomed(c, I, p)

\* A context c with the items I still to be processed, that may become a
\* solution.
Good(c, I) ==
  /\ StatusInv(c)
  /\ \A item \in I : ItemInv(c, item)
  /\ ConflictsInv(c, I) /\ ParallelInv(c, I) /\ InstallsInv(c, I) /\ RemovesInv(c, I)
  /\ c.verifying = request.verifying

-----------------------------------------------------------------------------
(* What processing an item does for what is owed *)

\* A package that is newly to be installed is so because of an install item,
\* which queues what follows from it.
NewlyInstalled(c, item, O, q) ==
  /\ item.type = "install" /\ item.package = q
  /\ \A d \in world.conflicts[q] : ConflictItem(d, q, FALSE) \in O
  /\ \A x \in Conflicting(q) : SameSpec(x, q) \/ \E new \in O : IsRemovalOf(new, x)
  /\ IF item.upgrades = NONE THEN ~IsParallelInstall(c, q)
     ELSE \E new \in O : IsRemovalOf(new, item.upgrades)

\* e and O are the context and the items that processing item leaves of c.
Effect(c, item, e, O) ==
  /\ IsUsable(e) /\ e.verifying = c.verifying
  /\ KeepsDecisions(c, e) /\ StatusInv(e)
  /\ \A q \in Pkg \ world.installed : GetStatus(e, q) = "UNINSTALLED" => GetStatus(c, q) = "UNINSTALLED"
  /\ \A q \in Pkg \ world.installed :
       GetStatus(e, q) \in ToBeInstalled =>
         GetStatus(c, q) \in ToBeInstalled \/ NewlyInstalled(c, item, O, q)
  /\ \A q \in Pkg : IsRemovalOf(item, q) => Doomed(e, O, q)
  /\ \A p \in Pkg, d \in Dep : item = ConflictItem(d, p, FALSE) =>
       \A q \in Providers[d] : SameSpec(q, p) \/ Doomed(e, O, q)
  /\ \A p \in Pkg \ world.installed : IsInstallOf(item, p) =>
       GetStatus(e, p) \in ToBeInstalled \/ LostUpgrade(e, p)
  /\ \A new \in O : ItemInv(e, new)

\* The items J that are left when item is gone, but for branches.
Keeps(I, item, O, J) ==
  /\ \A old \in I : old.type # "branch" /\ old # item => old \in J
  /\ O \subseteq J

\* A package that was taken stays so.
LEMMA TakenStays ==
  ASSUME NEW c, NEW item, NEW e, NEW O, Effect(c, item, e, O), NEW r \in Pkg, Taken(c, r)
  PROVE  Taken(e, r)
<1>1. CASE r \in world.installed
  BY <1>1 DEF Taken
<1>2. CASE r \notin world.installed
  <2>1. GetStatus(e, r) # "UNINSTALLED"
    BY <1>2 DEF Taken, Effect
  <2>2. GetStatus(c, r) = "TO_BE_INSTALLED" => GetStatus(e, r) = "TO_BE_INSTALLED"
    BY DEF Effect, KeepsDecisions, Decided
  <2> QED
    BY <1>2, <2>1, <2>2 DEF Taken, Effect
<1> QED
  BY <1>1, <1>2

\* A package that was to go still is.
LEMMA DoomedStays ==
  ASSUME NEW c, NEW item, NEW e, NEW O, Effect(c, item, e, O), NEW q \in Pkg,
         NEW I, NEW J, Keeps(I, item, O, J), Doomed(c, I, q)
  PROVE  Doomed(e, J, q)
<1>1. CASE GetStatus(c, q) \in Final
  BY <1>1 DEF Effect, KeepsDecisions, Decided, Final, Doomed
<1>2. ASSUME NEW old \in I, IsRemovalOf(old, q)
      PROVE  Doomed(e, J, q)
  <2>1. CASE old = item
    <3>1. Doomed(e, O, q)
      BY <1>2, <2>1 DEF Effect
    <3> QED
      BY <3>1 DEF Doomed, Keeps
  <2>2. CASE old # item
    BY <1>2, <2>2 DEF Keeps, IsRemovalOf, Doomed
  <2> QED
    BY <2>1, <2>2
<1> QED
  BY <1>1, <1>2 DEF Doomed

\* An item stays what it may be for.
LEMMA SimpleInvStays ==
  ASSUME NEW c, NEW e, \A r \in Pkg : Taken(c, r) => Taken(e, r),
         NEW old \in SimpleItemType, SimpleInv(c, old)
  PROVE  SimpleInv(e, old)
<1>1. CASE old \in InstallItems
  <2>1. old.type = "install" /\ old.upgrades \in Pkg \cup {NONE}
    BY <1>1 DEF InstallItems
  <2>2. old.upgrades # NONE => Taken(e, old.upgrades)
    BY <2>1 DEF SimpleInv
  <2> QED
    BY <2>1, <2>2 DEF SimpleInv
<1>2. CASE old \in RequireItems
  <2>1. old.type = "require" /\ old.requiring \in Pkg \cup {NONE}
    BY <1>2 DEF RequireItems
  <2>2. old.upgraded # NONE /\ old.requiring # NONE => Taken(e, old.requiring)
    BY <2>1 DEF SimpleInv
  <2> QED
    BY <2>1, <2>2 DEF SimpleInv
<1>3. CASE old \in ConflictItems \cup UninstallItems
  <2>1. old.type \in {"conflict", "uninstall"}
    BY <1>3 DEF ConflictItems, UninstallItems
  <2> QED
    BY <2>1 DEF SimpleInv
<1> QED
  BY <1>1, <1>2, <1>3 DEF SimpleItemType

LEMMA ItemInvStays ==
  ASSUME NEW c, NEW e, \A r \in Pkg : Taken(c, r) => Taken(e, r),
         NEW old \in ItemType, ItemInv(c, old)
  PROVE  ItemInv(e, old)
<1>1. CASE old \in SimpleItemType
  <2>1. old.type # "branch"
    BY <1>1 DEF SimpleItemType, InstallItems, RequireItems, ConflictItems, UninstallItems
  <2> QED
    BY <1>1, <2>1, SimpleInvStays DEF ItemInv
<1>2. CASE old \in BranchItems
  <2>1. old.type = "branch" /\ old.possible \in Seq(SimpleItemType)
    BY <1>2 DEF BranchItems
  <2>2. \A i \in DOMAIN old.possible : old.possible[i] \in SimpleItemType
    BY <2>1, ElementsOfSequence
  <2> QED
    BY <2>1, <2>2, SimpleInvStays DEF ItemInv
<1> QED
  BY <1>1, <1>2 DEF ItemType

\* A package to be installed makes another version of it a parallel install.
LEMMA AlreadyParallel ==
  ASSUME NEW c \in ContextType, NEW x \in Pkg, NEW y \in Pkg, GetStatus(c, y) \in ToBeInstalled,
         NameOf[y] = NameOf[x], ~SameSpec(y, x)
  PROVE  IsParallelInstall(c, x)
<1> DEFINE marked == {i \in DOMAIN c.chain : c.chain[i][y] # "UNKNOWN"}
           level == CHOOSE i \in marked : \A j \in marked : i <= j
<1>1. marked \in SUBSET Nat
  BY DEF ContextType
<1>2. marked # {}
  BY DEF GetStatus, ToBeInstalled
<1>3. \E i \in marked : \A j \in marked : i <= j
  BY <1>1, <1>2, SmallestExists
<1>4. level \in marked
  BY <1>3
<1>5. GetStatus(c, y) = c.chain[level][y]
  BY <1>2 DEF GetStatus
<1> HIDE DEF level
<1>6. <<level, y>> \in MarkedPackages(c)
  BY <1>4 DEF MarkedPackages
<1> QED
  BY <1>5, <1>6 DEF IsParallelInstall

\* A package without an installed version has none.
LEMMA NoInstalledVersion ==
  ASSUME world \in WorldType, NEW p \in Pkg, FindInstalledVersion(p) = NONE,
         NEW q \in Pkg, NameOf[q] = NameOf[p]
  PROVE  q \notin world.installed
<1> DEFINE versions == {r \in world.installed : NameOf[r] = NameOf[p]}
<1>1. versions \in SUBSET Pkg
  BY DEF WorldType
<1>2. versions # {} => FirstOf(versions) \in Pkg
  BY <1>1, FirstOfType
<1>3. versions = {}
  BY <1>2, UniverseAssumption DEF FindInstalledVersion
<1> QED
  BY <1>3

\* Processing an item leaves nothing owed that the items left do not do.
LEMMA EffectKeepsGood ==
  ASSUME world \in WorldType, request \in RequestType,
         NEW c \in ContextType, NEW I \in SUBSET ItemType, Good(c, I),
         NEW item \in SimpleItemType, SimpleInv(c, item),
         NEW e, NEW O, Effect(c, item, e, O),
         NEW J, J \subseteq I \cup O, Keeps(I, item, O, J)
  PROVE  Good(e, J)
<1>1. \A q \in Pkg : Doomed(c, I, q) => Doomed(e, J, q)
  BY DoomedStays
<1>2. \A q \in Pkg : \A new \in O : IsRemovalOf(new, q) => Doomed(e, J, q)
  BY DEF Keeps, Doomed
<1>3. e.verifying = request.verifying /\ StatusInv(e) /\ StatusInv(c) /\ e.verifying = c.verifying
  BY DEF Effect, Good
<1>4. \A new \in J : ItemInv(e, new)
  <2>1. ASSUME NEW old \in I PROVE ItemInv(e, old)
    <3>1. ItemInv(c, old)
      BY DEF Good
    <3>2. \A r \in Pkg : Taken(c, r) => Taken(e, r)
      BY TakenStays
    <3> QED
      BY <3>1, <3>2, ItemInvStays
  <2>2. \A new \in O : ItemInv(e, new)
    BY DEF Effect
  <2> QED
    BY <2>1, <2>2
<1>5. ConflictsInv(e, J)
  <2> SUFFICES ASSUME NEW p \in Pkg \ world.installed, GetStatus(e, p) \in ToBeInstalled
               PROVE  OpposedGo(e, J, p)
    BY DEF ConflictsInv
  <2>1. \A d \in world.conflicts[p] : d \in Dep /\ Providers[d] \in SUBSET Pkg
    BY UniverseAssumption DEF WorldType
  <2>2. Conflicting(p) \in SUBSET Pkg
    BY DEF Conflicting
  <2>3. CASE GetStatus(c, p) \in ToBeInstalled
    <3>1. OpposedGo(c, I, p)
      BY <2>3 DEF Good, ConflictsInv
    <3>2. ASSUME NEW d \in world.conflicts[p]
          PROVE  \/ ConflictItem(d, p, FALSE) \in J
                 \/ \A q \in Providers[d] : SameSpec(q, p) \/ Doomed(e, J, q)
      <4>1. CASE \A q \in Providers[d] : SameSpec(q, p) \/ Doomed(c, I, q)
        BY <1>1, <2>1, <4>1
      <4>2. CASE ConflictItem(d, p, FALSE) \in I /\ item = ConflictItem(d, p, FALSE)
        <5>1. \A q \in Providers[d] : SameSpec(q, p) \/ Doomed(e, O, q)
          BY <2>1, <4>2 DEF Effect
        <5>2. \A q : Doomed(e, O, q) => Doomed(e, J, q)
          BY DEF Keeps, Doomed
        <5> QED
          BY <5>1, <5>2
      <4>3. CASE ConflictItem(d, p, FALSE) \in I /\ item # ConflictItem(d, p, FALSE)
        <5>1. ConflictItem(d, p, FALSE).type # "branch"
          BY DEF ConflictItem
        <5> QED
          BY <4>3, <5>1 DEF Keeps
      <4> QED
        BY <3>1, <4>1, <4>2, <4>3 DEF OpposedGo
    <3>3. \A q \in Conflicting(p) : SameSpec(q, p) \/ Doomed(e, J, q)
      BY <1>1, <2>2, <3>1 DEF OpposedGo
    <3> QED
      BY <3>2, <3>3 DEF OpposedGo
  <2>4. CASE GetStatus(c, p) \notin ToBeInstalled
    <3>1. NewlyInstalled(c, item, O, p)
      BY <2>4 DEF Effect
    <3> QED
      BY <1>2, <2>2, <3>1 DEF OpposedGo, NewlyInstalled, Keeps
  <2> QED
    BY <2>3, <2>4
<1>6. ParallelInv(e, J)
  <2> SUFFICES ASSUME NEW p \in Pkg \ world.installed, NEW q \in Pkg \ world.installed,
                      GetStatus(e, p) \in ToBeInstalled, GetStatus(e, q) \in ToBeInstalled,
                      NameOf[p] = NameOf[q], ~SameSpec(p, q), FindInstalledVersion(p) = NONE
               PROVE  UpgradedBySeveral(e, J, p)
    BY DEF ParallelInv
  <2>1. CASE GetStatus(c, p) \in ToBeInstalled /\ GetStatus(c, q) \in ToBeInstalled
    <3>1. PICK r \in Pkg \ world.installed : NameOf[r] = NameOf[p] /\ Taken(c, r) /\ Doomed(c, I, r)
      BY <2>1 DEF Good, ParallelInv, UpgradedBySeveral
    <3>2. Taken(e, r)
      BY <3>1, TakenStays
    <3> QED
      BY <1>1, <3>1, <3>2 DEF UpgradedBySeveral
  <2>2. ASSUME NEW x \in Pkg \ world.installed, NEW y \in Pkg \ world.installed,
               {x, y} = {p, q}, GetStatus(c, x) \notin ToBeInstalled
        PROVE  UpgradedBySeveral(e, J, p)
    <3>1. /\ NameOf[x] = NameOf[p] /\ NameOf[y] = NameOf[p] /\ ~SameSpec(y, x) /\ x # y
          /\ GetStatus(e, x) \in ToBeInstalled /\ GetStatus(e, y) \in ToBeInstalled
      BY <2>2 DEF SameSpec
    <3>2. NewlyInstalled(c, item, O, x) /\ GetStatus(c, y) \in ToBeInstalled
      BY <2>2, <3>1 DEF Effect, NewlyInstalled
    <3>3. ASSUME item.upgrades = NONE PROVE FALSE
      BY <3>1, <3>2, <3>3, AlreadyParallel DEF NewlyInstalled
    <3>4. ASSUME item.upgrades # NONE PROVE UpgradedBySeveral(e, J, p)
      <4> DEFINE r == item.upgrades
      <4>1. item.type = "install" /\ item.package = x /\ r \in Pkg
        BY <3>2, <3>4
           DEF NewlyInstalled, SimpleItemType, InstallItems, RequireItems, ConflictItems, UninstallItems
      <4>2. NameOf[r] = NameOf[p] /\ Taken(c, r)
        BY <3>1, <3>4, <4>1 DEF SimpleInv
      <4>3. r \notin world.installed
        BY <4>1, <4>2, NoInstalledVersion
      <4>4. Doomed(e, J, r)
        BY <1>2, <3>2, <3>4, <4>1 DEF NewlyInstalled
      <4>5. Taken(e, r)
        BY <4>1, <4>2, TakenStays
      <4> QED
        BY <4>1, <4>2, <4>3, <4>4, <4>5 DEF UpgradedBySeveral
    <3> QED
      BY <3>3, <3>4
  <2> QED
    BY <2>1, <2>2
<1>7. InstallsInv(e, J)
  <2> SUFFICES ASSUME NEW p \in request.install \ world.installed
               PROVE  \/ \E new \in J : IsInstallOf(new, p)
                      \/ GetStatus(e, p) \in ToBeInstalled
                      \/ LostUpgrade(e, p)
                      \/ TakenBack(e, p)
    BY DEF InstallsInv
  <2>1. p \in Pkg
    BY DEF RequestType
  <2>2. GetStatus(c, p) \in Final => GetStatus(e, p) = GetStatus(c, p)
    BY <2>1 DEF Effect, KeepsDecisions, Decided, Final
  <2>3. CASE \E old \in I : IsInstallOf(old, p) /\ old # item
    BY <2>3 DEF Keeps, IsInstallOf
  <2>4. CASE IsInstallOf(item, p)
    BY <2>1, <2>4 DEF Effect
  <2>5. CASE GetStatus(c, p) \in ToBeInstalled
    <3>1. CASE GetStatus(c, p) = "TO_BE_INSTALLED"
      <4>1. GetStatus(e, p) = "TO_BE_INSTALLED"
        BY <2>1, <3>1 DEF Effect, KeepsDecisions, Decided
      <4> QED
        BY <4>1 DEF ToBeInstalled
    <3>2. CASE GetStatus(c, p) = "TO_BE_INSTALLED_SOFT"
      <4>1. c.verifying /\ GetStatus(e, p) # "UNINSTALLED"
        BY <1>3, <2>1, <3>2 DEF StatusInv, Final, Effect
      <4>2. GetStatus(e, p) \in Final \cup {"TO_BE_INSTALLED_SOFT"}
        BY <1>3, <2>1, <4>1 DEF StatusInv
      <4> QED
        BY <1>3, <4>1, <4>2 DEF Final, ToBeInstalled, ToBeUninstalled, TakenBack
    <3> QED
      BY <2>5, <3>1, <3>2 DEF ToBeInstalled
  <2>6. CASE LostUpgrade(c, p) \/ TakenBack(c, p)
    <3>1. GetStatus(c, p) \in Final
      BY <1>3, <2>1, <2>6 DEF LostUpgrade, TakenBack, StatusInv, Final, ToBeUninstalled
    <3> QED
      BY <2>2, <2>6, <3>1 DEF LostUpgrade, TakenBack
  <2> QED
    BY <2>3, <2>4, <2>5, <2>6 DEF Good, InstallsInv
<1>8. RemovesInv(e, J)
  BY <1>1 DEF RequestType, Good, RemovesInv
<1> QED
  BY <1>3, <1>4, <1>5, <1>6, <1>7, <1>8 DEF Good

-----------------------------------------------------------------------------
(* New items are for what items may be for *)

GoodSimple(c) == {item \in SimpleItemType : SimpleInv(c, item)}
GoodItems(c)  == {item \in ItemType : ItemInv(c, item)}

\* An item that is no branch is good if it is good as such.
LEMMA SimpleIsGood == ASSUME NEW c, NEW item \in GoodSimple(c) PROVE item \in GoodItems(c)
BY DEF GoodSimple, GoodItems, ItemType, ItemInv, SimpleItemType, InstallItems, RequireItems,
       ConflictItems, UninstallItems

\* A branch is good if its alternatives are.
LEMMA BranchIsGood ==
  ASSUME NEW c, NEW items \in Seq(GoodSimple(c))
  PROVE  BranchItem(items) \in GoodItems(c)
<1>1. items \in Seq(SimpleItemType)
  BY DEF GoodSimple
<1>2. \A i \in DOMAIN items : SimpleInv(c, items[i])
  BY ElementsOfSequence DEF GoodSimple
<1> QED
  BY <1>1, <1>2 DEF GoodItems, ItemType, ItemInv, BranchItem, BranchItems

\* Install items that look up what they upgrade.
LEMMA NewInstallIsGood ==
  ASSUME world \in WorldType, NEW c, NEW p \in Pkg, p \notin world.installed \cap world.locked,
         NEW neededBy \in SUBSET Pkg, NEW explicit \in BOOLEAN, explicit => p \in request.install
  PROVE  NewInstall(p, neededBy, explicit) \in GoodSimple(c)
<1> DEFINE old == FindInstalledVersion(p)
           versions == {q \in world.installed : NameOf[q] = NameOf[p]}
           item == NewInstall(p, neededBy, explicit)
<1>1. item \in SimpleItemType
  BY NewInstallType
<1>2. old # NONE => old \in versions
  <2>1. versions \in SUBSET Pkg
    BY DEF WorldType
  <2>2. old = IF versions = {} THEN NONE ELSE FirstOf(versions)
    BY DEF FindInstalledVersion
  <2> HIDE DEF versions, old
  <2> QED
    BY <2>1, <2>2, FirstOfType
<1>3. /\ item.type = "install" /\ item.package = p /\ item.explicit = explicit
      /\ item.upgrades = IF old # NONE /\ ~SameSpec(old, p) THEN old ELSE NONE
  BY DEF NewInstall, InstallItem
<1> HIDE DEF item, old
<1> QED
  BY <1>1, <1>2, <1>3 DEF GoodSimple, SimpleInv, Taken, SameSpec, item

\* Install items that replace the package that lost a requirement.
LEMMA UpgradeIsGood ==
  ASSUME world \in WorldType, NEW c, NEW r \in Pkg, Taken(c, r), NEW u \in Upgrades(r)
  PROVE  InstallItem(u, r, {}, FALSE) \in GoodSimple(c)
<1> DEFINE item == InstallItem(u, r, {}, FALSE)
<1>1. u \in Pkg /\ u \notin world.locked /\ NameOf[u] = NameOf[r] /\ VersionOf[u] > VersionOf[r]
  BY DEF Upgrades
<1>2. VersionOf[u] # VersionOf[r]
  BY <1>1, UniverseAssumption
<1>3. item \in SimpleItemType
  BY <1>1, InstallItemType
<1>4. item.type = "install" /\ item.package = u /\ item.explicit = FALSE /\ item.upgrades = r
  BY DEF InstallItem
<1> HIDE DEF item
<1>5. ~SameSpec(u, r)
  BY <1>2 DEF SameSpec
<1>6. SimpleInv(c, item)
  BY <1>1, <1>4, <1>5 DEF SimpleInv
<1> QED
  BY <1>3, <1>6 DEF GoodSimple, item

\* Uninstall items, with the flags that the handlers set.
LEMMA RemovalIsGood ==
  ASSUME NEW c, NEW p \in Pkg
  PROVE  /\ UninstallItem(p) \in GoodSimple(c) /\ IsRemovalOf(UninstallItem(p), p)
         /\ \A b \in BOOLEAN : [UninstallItem(p) EXCEPT !.removeOnly = b] \in GoodSimple(c)
         /\ \A b \in BOOLEAN : /\ [UninstallItem(p) EXCEPT !.obsolete = b] \in GoodSimple(c)
                              /\ IsRemovalOf([UninstallItem(p) EXCEPT !.obsolete = b], p)
         /\ \A q \in Pkg, b \in BOOLEAN : (b => Justified(p)) =>
              /\ [UninstallItem(p) EXCEPT !.upgradedTo = q, !.explicit = b] \in GoodSimple(c)
              /\ IsRemovalOf([UninstallItem(p) EXCEPT !.upgradedTo = q, !.explicit = b], p)
         /\ Justified(p) =>
              /\ [UninstallItem(p) EXCEPT !.explicit = TRUE, !.removeOnly = TRUE] \in GoodSimple(c)
              /\ IsRemovalOf([UninstallItem(p) EXCEPT !.explicit = TRUE, !.removeOnly = TRUE], p)
         /\ p \in world.installed => [UninstallItem(p) EXCEPT !.unlink = TRUE] \in GoodSimple(c)
<1>1. ASSUME NEW item \in SimpleItemType, item.type = "uninstall", item.package = p,
             item.explicit => Justified(p), item.unlink => p \in world.installed
      PROVE  item \in GoodSimple(c) /\ (~item.unlink => IsRemovalOf(item, p))
  BY <1>1 DEF GoodSimple, SimpleInv, IsRemovalOf
<1>2. UninstallItem(p) \in GoodSimple(c) /\ IsRemovalOf(UninstallItem(p), p)
  BY <1>1, UninstallItemType DEF UninstallItem
<1>3. ASSUME NEW b \in BOOLEAN
      PROVE  [UninstallItem(p) EXCEPT !.removeOnly = b] \in GoodSimple(c)
  BY <1>1, UninstallItemType DEF UninstallItem
<1>4. ASSUME NEW b \in BOOLEAN
      PROVE  /\ [UninstallItem(p) EXCEPT !.obsolete = b] \in GoodSimple(c)
             /\ IsRemovalOf([UninstallItem(p) EXCEPT !.obsolete = b], p)
  BY <1>1, UninstallItemType DEF UninstallItem
<1>5. ASSUME NEW q \in Pkg, NEW b \in BOOLEAN, b => Justified(p)
      PROVE  /\ [UninstallItem(p) EXCEPT !.upgradedTo = q, !.explicit = b] \in GoodSimple(c)
             /\ IsRemovalOf([UninstallItem(p) EXCEPT !.upgradedTo = q, !.explicit = b], p)
  BY <1>1, <1>5, UninstallItemType DEF UninstallItem
<1>6. ASSUME Justified(p)
      PROVE  /\ [UninstallItem(p) EXCEPT !.explicit = TRUE, !.removeOnly = TRUE] \in GoodSimple(c)
             /\ IsRemovalOf([UninstallItem(p) EXCEPT !.explicit = TRUE, !.removeOnly = TRUE], p)
  BY <1>1, <1>6, UninstallItemType DEF UninstallItem
<1>7. ASSUME p \in world.installed
      PROVE  [UninstallItem(p) EXCEPT !.unlink = TRUE] \in GoodSimple(c)
  BY <1>1, <1>7, UninstallItemType DEF UninstallItem
<1> QED
  BY <1>2, <1>3, <1>4, <1>5, <1>6, <1>7

\* Conflict items, and require items that no upgrade caused.
LEMMA RequireIsGood ==
  ASSUME NEW c, NEW d \in Dep, NEW p \in Pkg \cup {NONE}, NEW flag \in BOOLEAN
  PROVE  /\ ConflictItem(d, p, flag) \in GoodSimple(c)
         /\ RequireItem(d, p, flag, FALSE, NONE) \in GoodSimple(c)
BY ConflictItemType, RequireItemType DEF GoodSimple, SimpleInv, ConflictItem, RequireItem

\* Sequences of one good item, or of none.
LEMMA GoodSequences ==
  ASSUME NEW c
  PROVE  /\ <<>> \in Seq(GoodItems(c)) /\ <<>> \in Seq(GoodSimple(c))
         /\ \A item \in GoodItems(c) : <<item>> \in Seq(GoodItems(c))
         /\ \A item \in GoodSimple(c) : <<item>> \in Seq(GoodSimple(c))
         /\ \A s \in Seq(GoodSimple(c)) : s \in Seq(GoodItems(c))
<1>1. \A S : <<>> \in Seq(S) /\ \A x \in S : <<x>> \in Seq(S)
  OBVIOUS
<1>2. GoodSimple(c) \subseteq GoodItems(c)
  BY SimpleIsGood
<1>3. ASSUME NEW s \in Seq(GoodSimple(c)) PROVE s \in Seq(GoodItems(c))
  BY <1>2
<1> QED
  BY <1>1, <1>3

-----------------------------------------------------------------------------
(* What the items of each type do *)

\* A require that leaves the context alone.
LEMMA UnchangedEffect ==
  ASSUME NEW c, IsUsable(c), StatusInv(c), NEW item, item.type = "require",
         NEW items \in Seq(GoodItems(c))
  PROVE  Effect(c, item, c, ToSet(items))
<1>1. \A new \in ToSet(items) : ItemInv(c, new)
  BY ElementsOfSequence DEF ToSet, GoodItems
<1>2. \A d, p : item # ConflictItem(d, p, FALSE)
  BY DEF ConflictItem
<1> QED
  BY <1>1, <1>2 DEF Effect, KeepsDecisions, IsRemovalOf, IsInstallOf

\* What replaces or removes a package whose requirement cannot be met.
LEMMA ReplaceRequirerItems ==
  ASSUME world \in WorldType, NEW c \in ContextType, NEW item \in RequireItems, SimpleInv(c, item),
         NEW out, out = ReplaceRequirer(c, item), ~out.context.invalid
  PROVE  out.context = c /\ out.items \in Seq(GoodItems(c))
<1> DEFINE r == item.requiring
           upgrades == IF item.upgraded # NONE /\ r # NONE THEN Upgrades(r) ELSE {}
           possible == {u \in upgrades : PackageIsPossible(c, u)}
           settled  == \E u \in possible : \A d \in world.requires[u] : RequirementIsMet(c, d, FALSE)
           removal  == IF r # NONE /\ (c.verifying \/ ~settled)
                       THEN <<[UninstallItem(r) EXCEPT !.removeOnly = item.removeOnly]>> ELSE <<>>
           listed   == InOrder(possible)
           installs == [i \in DOMAIN listed |-> InstallItem(listed[i], r, {}, FALSE)]
<1>1. r \in Pkg \cup {NONE} /\ item.removeOnly \in BOOLEAN /\ item.type = "require"
  BY DEF RequireItems
<1>2. removal \in Seq(GoodSimple(c))
  <2> HIDE DEF settled, possible, upgrades
  <2>1. CASE r # NONE /\ (c.verifying \/ ~settled)
    <3>1. [UninstallItem(r) EXCEPT !.removeOnly = item.removeOnly] \in GoodSimple(c)
      BY <1>1, <2>1, RemovalIsGood
    <3> QED
      BY <2>1, <3>1, GoodSequences
  <2>2. CASE ~(r # NONE /\ (c.verifying \/ ~settled))
    BY <2>2, GoodSequences
  <2> QED
    BY <2>1, <2>2
<1>3. upgrades # {} => installs \in Seq(GoodSimple(c))
  <2> SUFFICES ASSUME upgrades # {} PROVE installs \in Seq(GoodSimple(c))
    OBVIOUS
  <2>1. r \in Pkg /\ Taken(c, r) /\ upgrades = Upgrades(r)
    BY <1>1 DEF SimpleInv
  <2>2. possible \in SUBSET Pkg /\ possible \in SUBSET Upgrades(r)
    BY DEF Upgrades
  <2>3. listed \in Seq(possible)
    BY <2>2, InOrderType
  <2> HIDE DEF listed, possible
  <2>4. \A i \in DOMAIN listed : listed[i] \in Upgrades(r)
    BY <2>2, <2>3
  <2>5. \A i \in DOMAIN listed : installs[i] \in GoodSimple(c)
    BY <2>1, <2>4, UpgradeIsGood
  <2> QED
    BY <2>3, <2>5, MappedType
<1>4. ReplaceRequirer(c, item) =
        CASE upgrades # {} -> Outcome(c, <<BranchItem(installs \o removal)>>)
          [] upgrades = {} /\ removal # <<>> -> Outcome(c, removal)
          [] OTHER -> Outcome(AddError(c), <<>>)
  BY DEF ReplaceRequirer, Map
<1> HIDE DEF upgrades, removal, installs
<1>5. CASE upgrades # {}
  <2>1. installs \o removal \in Seq(GoodSimple(c))
    BY <1>2, <1>3, <1>5
  <2>2. <<BranchItem(installs \o removal)>> \in Seq(GoodItems(c))
    BY <2>1, BranchIsGood, GoodSequences
  <2> QED
    BY <1>4, <1>5, <2>2 DEF Outcome
<1>6. CASE upgrades = {} /\ removal # <<>>
  BY <1>2, <1>4, <1>6, GoodSequences DEF Outcome
<1>7. CASE upgrades = {} /\ removal = <<>>
  BY <1>4, <1>7, AddErrorIsError DEF Outcome
<1> QED
  BY <1>5, <1>6, <1>7

\* A require only queues items.
LEMMA RequireEffect ==
  ASSUME world \in WorldType, NEW c, IsUsable(c), StatusInv(c),
         NEW item \in RequireItems, SimpleInv(c, item),
         NEW out, out = ProcessRequire(c, item), ~out.context.invalid
  PROVE  Effect(c, item, out.context, ToSet(out.items))
<1> DEFINE providers == InstallableProviders(c, item)
           neededBy  == {item.requiring} \ {NONE}
           installs  == [i \in DOMAIN providers |-> NewInstall(providers[i], neededBy, FALSE)]
<1>1. neededBy \in SUBSET Pkg /\ item.type = "require" /\ c \in ContextType
  BY DEF RequireItems, IsUsable
<1>2. installs \in Seq(GoodSimple(c))
  <2>1. providers \in Seq(Pkg \ world.locked)
    BY <1>1, InstallableProvidersType
  <2> HIDE DEF providers, neededBy
  <2>2. \A i \in DOMAIN providers : providers[i] \in Pkg \ world.locked
    BY <2>1
  <2>3. \A i \in DOMAIN providers : installs[i] \in GoodSimple(c)
    BY <1>1, <2>2, NewInstallIsGood
  <2> QED
    BY <2>1, <2>3, MappedType
<1>3. out \in {Outcome(c, <<>>), ReplaceRequirer(c, item), Outcome(c, installs),
              Outcome(c, <<BranchItem(installs)>>)}
  BY DEF ProcessRequire, Map
<1> HIDE DEF installs
<1>4. out.context = c /\ out.items \in Seq(GoodItems(c))
  <2>1. CASE out = ReplaceRequirer(c, item)
    BY <1>1, <2>1, ReplaceRequirerItems
  <2>2. CASE out \in {Outcome(c, <<>>), Outcome(c, installs), Outcome(c, <<BranchItem(installs)>>)}
    <3>1. BranchItem(installs) \in GoodItems(c)
      BY <1>2, BranchIsGood
    <3>2. /\ <<>> \in Seq(GoodItems(c)) /\ installs \in Seq(GoodItems(c))
          /\ <<BranchItem(installs)>> \in Seq(GoodItems(c))
      BY <1>2, <3>1, GoodSequences
    <3>3. PICK items \in {<<>>, installs, <<BranchItem(installs)>>} : out = Outcome(c, items)
      BY <2>2
    <3>4. out.context = c /\ out.items = items
      BY <3>3 DEF Outcome
    <3>5. items \in Seq(GoodItems(c))
      BY <3>2, <3>3, Zenon
    <3> QED
      BY <3>4, <3>5
  <2> QED
    BY <1>3, <2>1, <2>2
<1> QED
  BY <1>1, <1>4, UnchangedEffect

\* What a conflict rules out, and the items it queues.
LEMMA ConflictStatuses ==
  ASSUME NEW c, IsUsable(c), NEW item \in ConflictItems,
         NEW out, out = ProcessConflict(c, item), ~out.context.invalid, ~out.aborted
  PROVE  LET match == {p \in (IF item.obsolete THEN OwnProviders ELSE Providers)[item.dep] :
                         item.conflicting = NONE \/ ~SameSpec(p, item.conflicting)}
             of(S) == {p \in match : GetStatus(c, p) \in S}
             going == InOrder(of({"INSTALLED", "TO_BE_INSTALLED_SOFT"}))
             e == out.context
         IN  /\ match \in SUBSET Pkg
             /\ of({"TO_BE_INSTALLED"}) = {} /\ of({"DUE_TO_UNLINK"}) = {}
             /\ out.items = [i \in DOMAIN going |-> [UninstallItem(going[i]) EXCEPT !.obsolete = item.obsolete]]
             /\ IsUsable(e) /\ e.verifying = c.verifying
             /\ \A q \in Pkg : q \in of({"UNINSTALLED"}) => GetStatus(e, q) = "TO_BE_UNINSTALLED"
             /\ \A q \in Pkg : q \notin of({"UNINSTALLED"}) => GetStatus(e, q) = GetStatus(c, q)
<1> DEFINE match == {p \in (IF item.obsolete THEN OwnProviders ELSE Providers)[item.dep] :
                       item.conflicting = NONE \/ ~SameSpec(p, item.conflicting)}
           of(S) == {p \in match : GetStatus(c, p) \in S}
           going == InOrder(of({"INSTALLED", "TO_BE_INSTALLED_SOFT"}))
           remove == [i \in DOMAIN going |-> [UninstallItem(going[i]) EXCEPT !.obsolete = item.obsolete]]
           marked == [c EXCEPT !.chain[1] =
                        [p \in Pkg |-> IF p \in of({"UNINSTALLED"}) THEN "TO_BE_UNINSTALLED" ELSE @[p]]]
           after == IF of({"TO_BE_INSTALLED"}) # {} THEN AddError(c) ELSE marked
           e == out.context
<1>1. /\ item.dep \in Dep /\ item.obsolete \in BOOLEAN /\ item.type = "conflict"
      /\ c \in ContextType /\ c.chain # <<>> /\ ~c.invalid
  BY DEF ConflictItems, IsUsable
<1>2. match \in SUBSET Pkg
  BY <1>1, UniverseAssumption
<1>3. out = [Outcome(after, remove) EXCEPT !.aborted = of({"DUE_TO_UNLINK"}) # {}]
  BY DEF ProcessConflict, Map
<1>4. /\ of({"TO_BE_INSTALLED"}) = {} /\ of({"DUE_TO_UNLINK"}) = {}
      /\ e = marked /\ out.items = remove
  <2> HIDE DEF match, remove, marked
  <2>1. e = after /\ out.items = remove /\ out.aborted = (of({"DUE_TO_UNLINK"}) # {})
    BY <1>3 DEF Outcome
  <2> QED
    BY <1>1, <2>1, AddErrorIsError
<1> HIDE DEF e
<1>5. /\ IsUsable(e) /\ e.verifying = c.verifying
      /\ \A q \in Pkg : q \in of({"UNINSTALLED"}) => GetStatus(e, q) = "TO_BE_UNINSTALLED"
      /\ \A q \in Pkg : q \notin of({"UNINSTALLED"}) => GetStatus(e, q) = GetStatus(c, q)
  <2> DEFINE gone == of({"UNINSTALLED"})
             level == [p \in Pkg |-> IF p \in gone THEN "TO_BE_UNINSTALLED" ELSE c.chain[1][p]]
  <2> HIDE DEF gone
  <2>1. 1 \in DOMAIN c.chain /\ c.chain \in Seq([Pkg -> Mark]) /\ c.chain[1] \in [Pkg -> Mark]
    BY <1>1 DEF ContextType
  <2>2. level \in [Pkg -> Mark]
    BY <2>1 DEF Mark, PackageStatus, ToBeUninstalled
  <2>3. e = [c EXCEPT !.chain = [c.chain EXCEPT ![1] = level]]
    BY <1>1, <1>4, <2>1 DEF ContextType, gone
  <2> DEFINE chain == [c.chain EXCEPT ![1] = level]
  <2>4. /\ chain \in Seq([Pkg -> Mark]) /\ chain # <<>> /\ DOMAIN chain = DOMAIN c.chain
        /\ chain[1] = level /\ \A i \in DOMAIN c.chain : i # 1 => chain[i] = c.chain[i]
    <3> HIDE DEF level
    <3> QED
      BY <2>1, <2>2
  <2> HIDE DEF chain
  <2>5. e \in ContextType /\ e.chain = chain /\ e.verifying = c.verifying /\ ~e.invalid
    BY <1>1, <2>3, <2>4 DEF ContextType, chain
  <2>6. ASSUME NEW q \in Pkg, q \in gone PROVE GetStatus(e, q) = "TO_BE_UNINSTALLED"
    <3>1. e.chain[1][q] = "TO_BE_UNINSTALLED"
      BY <2>4, <2>5, <2>6
    <3> QED
      BY <2>4, <2>5, <3>1, TopLevelCounts
  <2>7. ASSUME NEW q \in Pkg, q \notin gone PROVE GetStatus(e, q) = GetStatus(c, q)
    <3>1. \A i \in DOMAIN c.chain : e.chain[i][q] = c.chain[i][q]
      BY <2>4, <2>5, <2>7
    <3> QED
      BY <1>1, <2>4, <2>5, <3>1, SameLevelsSameStatus
  <2> QED
    BY <2>4, <2>5, <2>6, <2>7 DEF IsUsable, gone
<1> HIDE DEF marked
<1> QED
  BY <1>2, <1>4, <1>5 DEF e

\* A conflict rules out what is available and removes what is installed.
LEMMA ConflictEffect ==
  ASSUME world \in WorldType, NEW c, IsUsable(c), StatusInv(c), NEW item \in ConflictItems,
         NEW out, out = ProcessConflict(c, item), ~out.context.invalid, ~out.aborted
  PROVE  Effect(c, item, out.context, ToSet(out.items))
<1> DEFINE match == {p \in (IF item.obsolete THEN OwnProviders ELSE Providers)[item.dep] :
                       item.conflicting = NONE \/ ~SameSpec(p, item.conflicting)}
           of(S) == {p \in match : GetStatus(c, p) \in S}
           going == InOrder(of({"INSTALLED", "TO_BE_INSTALLED_SOFT"}))
           remove == [i \in DOMAIN going |-> [UninstallItem(going[i]) EXCEPT !.obsolete = item.obsolete]]
           e == out.context
<1>1. /\ item.obsolete \in BOOLEAN /\ item.type = "conflict" /\ c \in ContextType
  BY DEF ConflictItems, IsUsable
<1>2. /\ match \in SUBSET Pkg
      /\ of({"TO_BE_INSTALLED"}) = {} /\ of({"DUE_TO_UNLINK"}) = {}
      /\ out.items = remove
      /\ IsUsable(e) /\ e.verifying = c.verifying
      /\ \A q \in Pkg : q \in of({"UNINSTALLED"}) => GetStatus(e, q) = "TO_BE_UNINSTALLED"
      /\ \A q \in Pkg : q \notin of({"UNINSTALLED"}) => GetStatus(e, q) = GetStatus(c, q)
  BY ConflictStatuses
<1> HIDE DEF match, e
<1>6. \A q \in Pkg : GetStatus(c, q) # "UNINSTALLED" => GetStatus(e, q) = GetStatus(c, q)
  BY <1>2
<1>7. \A q \in Pkg : GetStatus(e, q) \in {GetStatus(c, q), "TO_BE_UNINSTALLED"}
  BY <1>2
<1>8. StatusInv(e)
  <2> SUFFICES ASSUME NEW p \in Pkg
               PROVE  /\ p \notin world.installed =>
                           GetStatus(e, p) \in Final \cup
                             {"UNINSTALLED", IF e.verifying THEN "TO_BE_INSTALLED_SOFT" ELSE "TO_BE_INSTALLED"}
                      /\ p \in world.installed => GetStatus(e, p) # "UNINSTALLED"
                      /\ p \in world.installed \cap world.locked /\ ~Justified(p) =>
                           GetStatus(e, p) = "INSTALLED"
    BY <1>2 DEF StatusInv, IsUsable
  <2>1. CASE p \in world.installed
    <3>1. GetStatus(e, p) = GetStatus(c, p)
      BY <1>6, <2>1 DEF StatusInv
    <3> QED
      BY <2>1, <3>1 DEF StatusInv
  <2>2. CASE p \notin world.installed
    BY <1>2, <1>7, <2>2 DEF StatusInv, Final
  <2> QED
    BY <2>1, <2>2
<1>9. KeepsDecisions(c, e)
  BY <1>6 DEF KeepsDecisions, Decided
<1>10. ToSet(going) = of({"INSTALLED", "TO_BE_INSTALLED_SOFT"}) /\ going \in Seq(Pkg)
  <2>1. of({"INSTALLED", "TO_BE_INSTALLED_SOFT"}) \in SUBSET Pkg
    BY <1>2
  <2> QED
    BY <2>1, InOrderAll, InOrderType
<1> HIDE DEF going
<1>11. \A i \in DOMAIN going : going[i] \in Pkg
  BY <1>10
<1>12. \A new \in ToSet(remove) : ItemInv(e, new)
  <2>1. \A i \in DOMAIN going : remove[i] \in GoodItems(e)
    BY <1>1, <1>11, RemovalIsGood, SimpleIsGood
  <2> QED
    BY <2>1 DEF ToSet, GoodItems
<1>13. ASSUME NEW q \in match
       PROVE  Doomed(e, ToSet(remove), q)
  <2>1. q \in Pkg /\ GetStatus(c, q) \in PackageStatus
    BY <1>1, <1>2, StatusType
  <2>2. CASE GetStatus(c, q) \in {"INSTALLED", "TO_BE_INSTALLED_SOFT"}
    <3>1. PICK i \in DOMAIN going : going[i] = q
      BY <1>10, <2>2 DEF ToSet
    <3>2. remove[i] \in ToSet(remove) /\ IsRemovalOf(remove[i], q)
      BY <1>1, <2>1, <3>1, RemovalIsGood DEF ToSet
    <3> QED
      BY <3>2 DEF Doomed
  <2>3. CASE GetStatus(c, q) = "UNINSTALLED"
    BY <1>2, <2>1, <2>3 DEF Doomed, Final
  <2>4. CASE GetStatus(c, q) \in Final
    BY <1>6, <2>1, <2>4 DEF Doomed, Final
  <2> QED
    BY <1>2, <2>1, <2>2, <2>3, <2>4 DEF PackageStatus, ToBeInstalled, ToBeUninstalled, Final
<1> HIDE DEF remove
<1>14. ASSUME NEW p \in Pkg, NEW d \in Dep, item = ConflictItem(d, p, FALSE), NEW q \in Providers[d]
       PROVE  SameSpec(q, p) \/ Doomed(e, ToSet(remove), q)
  <2>1. item.dep = d /\ item.conflicting = p /\ item.obsolete = FALSE
    BY <1>14 DEF ConflictItem
  <2>2. ~SameSpec(q, p) => q \in match
    BY <2>1 DEF match
  <2> QED
    BY <1>13, <2>2
<1>15. \A q \in Pkg : GetStatus(e, q) \in ToBeInstalled => GetStatus(c, q) \in ToBeInstalled
  BY <1>7 DEF ToBeInstalled
<1>16. \A q \in Pkg : GetStatus(e, q) = "UNINSTALLED" => GetStatus(c, q) = "UNINSTALLED"
  BY <1>7
<1>17. Effect(c, item, e, ToSet(remove))
  BY <1>1, <1>2, <1>8, <1>9, <1>12, <1>14, <1>15, <1>16 DEF Effect, IsRemovalOf, IsInstallOf
<1> QED
  BY <1>2, <1>17 DEF e

\* A package that is present is installed, or was to be installed.
LEMMA PresentIsTaken ==
  ASSUME NEW c, StatusInv(c), NEW p \in Pkg, IsPresent(c, p)
  PROVE  Taken(c, p)
BY DEF IsPresent, Taken, StatusInv, Final, ToBeInstalled

\* What a removal queues: whoever loses a requirement was taken, and what is
\* unlinked is installed.
LEMMA UninstallConsequencesGood ==
  ASSUME world \in WorldType, NEW c \in ContextType, StatusInv(c), NEW item \in UninstallItems
  PROVE  UninstallConsequences(c, item) \in Seq(GoodItems(c))
<1> DEFINE p       == item.package
           lost(x) == IsPresent(c, x[1]) /\ ~RequirementIsMet(c, x[2], FALSE)
           known    == {x \in Pkg \X Dep : IsPresent(c, x[1])}
           users   == PairsInOrder({x \in Requiring(p) : lost(x)})
           parents == PairsInOrder({x \in Parents(p) : lost(x)})
           losers  == users \o parents
           orphans == {d \in world.children[p] : SingleProvider(d) # NONE}
           only    == DepsInOrder(orphans)
           asked   == [i \in DOMAIN losers |->
                         RequireItem(losers[i][2], losers[i][1], FALSE, item.removeOnly, item.upgradedTo)]
           freed   == [i \in DOMAIN only |-> [UninstallItem(SingleProvider(only[i])) EXCEPT !.unlink = TRUE]]
<1>1. /\ p \in Pkg /\ item.removeOnly \in BOOLEAN /\ item.upgradedTo \in Pkg \cup {NONE}
  BY DEF UninstallItems
<1>2. losers \in Seq(known)
  <2>1. /\ {x \in Requiring(p) : lost(x)} \in SUBSET (Pkg \X Dep)
        /\ {x \in Parents(p) : lost(x)} \in SUBSET (Pkg \X Dep)
        /\ {x \in Requiring(p) : lost(x)} \in SUBSET known
        /\ {x \in Parents(p) : lost(x)} \in SUBSET known
    BY DEF Requiring, Parents
  <2>2. \A X \in SUBSET (Pkg \X Dep) : PairsInOrder(X) \in Seq(X)
    BY PairsInOrderType
  <2>3. users \in Seq({x \in Requiring(p) : lost(x)}) /\ parents \in Seq({x \in Parents(p) : lost(x)})
    BY <2>1, <2>2
  <2> HIDE DEF users, parents, lost, known
  <2>4. users \in Seq(known) /\ parents \in Seq(known)
    BY <2>1, <2>3
  <2> QED
    BY <2>4
<1>3. only \in Seq(orphans) /\ orphans \in SUBSET Dep
  <2>1. orphans \in SUBSET Dep
    BY <1>1 DEF WorldType
  <2> QED
    BY <2>1, DepsInOrderType
<1> HIDE DEF losers, only
<1>4. asked \in Seq(GoodItems(c))
  <2>1. \A i \in DOMAIN losers : losers[i] \in known
    BY <1>2, ElementsOfSequence
  <2>2. ASSUME NEW i \in DOMAIN losers PROVE asked[i] \in GoodItems(c)
    <3> DEFINE r == losers[i][1]  d == losers[i][2]
               new == RequireItem(d, r, FALSE, item.removeOnly, item.upgradedTo)
    <3>1. r \in Pkg /\ d \in Dep /\ Taken(c, r)
      BY <2>1, PresentIsTaken
    <3>2. new \in SimpleItemType
      BY <1>1, <3>1, RequireItemType
    <3>3. new.type = "require" /\ new.requiring = r
      BY DEF RequireItem
    <3>4. asked[i] = new
      OBVIOUS
    <3> HIDE DEF new, r
    <3>5. new \in GoodSimple(c)
      BY <3>1, <3>2, <3>3 DEF GoodSimple, SimpleInv
    <3> QED
      BY <3>4, <3>5, SimpleIsGood
  <2> QED
    BY <1>2, <2>2, MappedType
<1>5. freed \in Seq(GoodItems(c))
  <2>1. \A i \in DOMAIN only : only[i] \in orphans /\ only[i] \in Dep
    BY <1>3
  <2>2. ASSUME NEW i \in DOMAIN only
        PROVE  SingleProvider(only[i]) \in Pkg /\ SingleProvider(only[i]) \in world.installed
    <3> DEFINE met == Providers[only[i]] \cap world.installed
    <3>1. met \in SUBSET Pkg /\ SingleProvider(only[i]) # NONE
      BY <2>1, UniverseAssumption
    <3>2. met # {} /\ SingleProvider(only[i]) = FirstOf(met)
      BY <3>1 DEF SingleProvider
    <3> HIDE DEF met
    <3>3. FirstOf(met) \in met
      BY <3>1, <3>2, FirstOfType
    <3> QED
      BY <3>1, <3>2, <3>3 DEF met
  <2>3. \A i \in DOMAIN only : freed[i] \in GoodItems(c)
    BY <2>2, RemovalIsGood, SimpleIsGood
  <2> QED
    BY <1>3, <2>3, MappedType
<1>6. UninstallConsequences(c, item) = asked \o freed
  BY DEF UninstallConsequences, Map, losers, only
<1> HIDE DEF asked, freed
<1> QED
  BY <1>4, <1>5, <1>6

\* The check whether an unlink is to be dropped changes no status.
LEMMA UnlinkCheckLeaves ==
  ASSUME NEW c, IsUsable(c), NEW p \in Pkg, NEW e, e = AfterUnlinkCheck(c, p)
  PROVE  /\ IsUsable(e) /\ e.verifying = c.verifying
         /\ \A q \in Pkg : GetStatus(e, q) = GetStatus(c, q)
<1> DEFINE without == SetStatus(c, p, "TO_BE_UNINSTALLED")
           back    == SetStatus(without, p, "INSTALLED")
<1>1. /\ "TO_BE_UNINSTALLED" \in Mark /\ "INSTALLED" \in Mark /\ "INSTALLED" \in PackageStatus
      /\ c \in ContextType
  BY DEF Mark, PackageStatus, ToBeUninstalled, IsUsable
<1>2. IsUsable(without) /\ without.verifying = c.verifying
  BY <1>1, SetStatusLeaves
<1>3. \A q \in Pkg : q # p => GetStatus(without, q) = GetStatus(c, q)
  BY <1>1, SetStatusOfOthers
<1>4. e = IF GetStatus(c, p) = "INSTALLED" THEN back ELSE c
  BY DEF AfterUnlinkCheck
<1> HIDE DEF without
<1>5. IsUsable(back) /\ back.verifying = c.verifying /\ GetStatus(back, p) = "INSTALLED"
  BY <1>1, <1>2, SetStatusLeaves, SetStatusGives
<1>6. \A q \in Pkg : q # p => GetStatus(back, q) = GetStatus(c, q)
  BY <1>1, <1>2, <1>3, SetStatusOfOthers DEF IsUsable
<1> HIDE DEF back
<1> QED
  BY <1>4, <1>5, <1>6

\* What a removal or an unlink does to its package, and the items it queues.
LEMMA UninstallStatuses ==
  ASSUME world \in WorldType, NEW c, IsUsable(c), NEW item \in UninstallItems, SimpleInv(c, item),
         NEW out, out = ProcessUninstall(c, item), ~out.context.invalid
  PROVE  LET p       == item.package
             status  == GetStatus(c, p)
             e       == out.context
             dropped == item.unlink /\ UnlinkCancelled(c, p)
             new     == IF item.obsolete THEN "DUE_TO_OBSOLETE"
                        ELSE IF item.unlink THEN "DUE_TO_UNLINK" ELSE "TO_BE_UNINSTALLED"
         IN  /\ IsUsable(e) /\ e.verifying = c.verifying
             /\ \A q \in Pkg : q # p => GetStatus(e, q) = GetStatus(c, q)
             /\ dropped => GetStatus(e, p) = status /\ out.items = <<>>
             /\ ~dropped => /\ status # "TO_BE_INSTALLED"
                            /\ GetStatus(e, p) = IF status \in Final THEN status ELSE new
                            /\ out.items = IF status = "INSTALLED" THEN UninstallConsequences(e, item) ELSE <<>>
                            /\ p \in world.locked /\ status = "INSTALLED" => item.explicit
<1> DEFINE p       == item.package
           status  == GetStatus(c, p)
           checked == IF item.unlink THEN AfterUnlinkCheck(c, p) ELSE c
           after   == UninstallPackage(checked, p, item.obsolete, item.unlink)
           e       == out.context
           dropped == item.unlink /\ UnlinkCancelled(c, p)
<1>1. /\ p \in Pkg /\ item.type = "uninstall" /\ item.unlink \in BOOLEAN /\ c \in ContextType
      /\ item.unlink => p \in world.installed
      /\ item.explicit => Justified(p)
  BY DEF UninstallItems, SimpleInv, IsUsable
<1>2. /\ IsUsable(checked) /\ checked.verifying = c.verifying
      /\ \A q \in Pkg : GetStatus(checked, q) = GetStatus(c, q)
  BY <1>1, UnlinkCheckLeaves
<1>3. /\ dropped => out = Outcome(checked, <<>>)
      /\ ~dropped /\ status # "INSTALLED" => out = Outcome(after, <<>>)
      /\ ~dropped /\ status = "INSTALLED" =>
           IF ~item.explicit /\ p \in world.locked THEN out = Outcome(AddError(after), <<>>)
           ELSE out = Outcome(after, UninstallConsequences(after, item))
  BY DEF ProcessUninstall
<1> HIDE DEF checked, dropped, e
<1>5. ASSUME ~dropped
      PROVE  /\ e = after /\ (p \in world.locked /\ status = "INSTALLED" => item.explicit)
             /\ out.items = IF status = "INSTALLED" THEN UninstallConsequences(after, item) ELSE <<>>
  <2>1. after \in ContextType
    BY <1>2, UninstallPackageType DEF IsUsable
  <2> HIDE DEF after
  <2>2. AddError(after).invalid
    BY <2>1, AddErrorIsError
  <2> QED
    BY <1>3, <1>5, <2>2 DEF Outcome, e
<1> DEFINE new == IF item.obsolete THEN "DUE_TO_OBSOLETE"
                  ELSE IF item.unlink THEN "DUE_TO_UNLINK" ELSE "TO_BE_UNINSTALLED"
<1>6. ASSUME ~dropped
      PROVE  /\ IsUsable(e) /\ e.verifying = c.verifying
             /\ \A q \in Pkg : q # p => GetStatus(e, q) = GetStatus(c, q)
             /\ status # "TO_BE_INSTALLED"
             /\ status \in Final => GetStatus(e, p) = status
             /\ status \notin Final => GetStatus(e, p) = new
  <2>1. e = after /\ ~e.invalid
    BY <1>5, <1>6 DEF e
  <2>2. /\ IsUsable(e) /\ e.verifying = checked.verifying
        /\ \A q \in Pkg : q # p => GetStatus(e, q) = GetStatus(checked, q)
        /\ GetStatus(checked, p) # "TO_BE_INSTALLED"
        /\ GetStatus(checked, p) \in {"TO_BE_UNINSTALLED", "DUE_TO_OBSOLETE"} => e = checked
        /\ GetStatus(checked, p) \notin {"TO_BE_UNINSTALLED", "DUE_TO_OBSOLETE"} => GetStatus(e, p) = new
    BY <1>1, <1>2, <2>1, UninstallPackageEffect
  <2> HIDE DEF new
  <2> QED
    BY <1>1, <1>2, <2>2 DEF Final
<1>7. ASSUME dropped
      PROVE  e = checked /\ out.items = <<>>
  BY <1>3, <1>7 DEF Outcome, e
<1>8. ASSUME dropped
      PROVE  /\ IsUsable(e) /\ e.verifying = c.verifying
             /\ \A q \in Pkg : GetStatus(e, q) = GetStatus(c, q)
             /\ out.items = <<>>
  BY <1>2, <1>7, <1>8
<1>9. ~dropped => out.items = IF status = "INSTALLED" THEN UninstallConsequences(e, item) ELSE <<>>
  BY <1>5
<1> HIDE DEF after, new
<1>10. CASE dropped
  BY <1>1, <1>8, <1>10 DEF e, dropped
<1>11. CASE ~dropped
  BY <1>1, <1>5, <1>6, <1>9, <1>11 DEF e, dropped, new
<1> QED
  BY <1>10, <1>11

\* An uninstall removes its package, unless it is locked, and an unlink may.
LEMMA UninstallEffect ==
  ASSUME world \in WorldType, NEW c, IsUsable(c), StatusInv(c),
         NEW item \in UninstallItems, SimpleInv(c, item),
         NEW out, out = ProcessUninstall(c, item), ~out.context.invalid
  PROVE  Effect(c, item, out.context, ToSet(out.items))
<1> DEFINE p       == item.package
           status  == GetStatus(c, p)
           e       == out.context
           dropped == item.unlink /\ UnlinkCancelled(c, p)
           new     == IF item.obsolete THEN "DUE_TO_OBSOLETE"
                      ELSE IF item.unlink THEN "DUE_TO_UNLINK" ELSE "TO_BE_UNINSTALLED"
<1>1. /\ p \in Pkg /\ item.type = "uninstall" /\ item.unlink \in BOOLEAN /\ c \in ContextType
      /\ item.unlink => p \in world.installed
      /\ item.explicit => Justified(p)
  BY DEF UninstallItems, SimpleInv, IsUsable
<1>3. KeepsDecisions(c, e) /\ e \in ContextType
  BY <1>1, ProcessUninstallFollows DEF Follows, OutcomeType
<1>4. /\ IsUsable(e) /\ e.verifying = c.verifying
      /\ \A q \in Pkg : q # p => GetStatus(e, q) = GetStatus(c, q)
      /\ dropped => GetStatus(e, p) = status /\ out.items = <<>>
      /\ ~dropped => /\ GetStatus(e, p) = IF status \in Final THEN status ELSE new
                     /\ out.items = IF status = "INSTALLED" THEN UninstallConsequences(e, item) ELSE <<>>
                     /\ p \in world.locked /\ status = "INSTALLED" => item.explicit
  BY UninstallStatuses
<1> HIDE DEF dropped, e
<1>8. GetStatus(e, p) \in {status, new}
  BY <1>4
<1>9. new \in ToBeUninstalled /\ new \notin ToBeInstalled /\ new # "UNINSTALLED"
  BY DEF ToBeUninstalled, ToBeInstalled
<1>10. p \notin world.installed => GetStatus(e, p) \in Final
  <2> SUFFICES ASSUME p \notin world.installed PROVE GetStatus(e, p) \in Final
    OBVIOUS
  <2>1. ~item.unlink /\ ~dropped
    BY <1>1 DEF dropped
  <2> QED
    BY <1>4, <2>1 DEF Final
<1>11. p \in world.installed \cap world.locked /\ ~Justified(p) => GetStatus(e, p) = "INSTALLED"
  <2> SUFFICES ASSUME p \in world.installed \cap world.locked, ~Justified(p)
               PROVE  GetStatus(e, p) = "INSTALLED"
    OBVIOUS
  <2>1. status = "INSTALLED"
    BY <1>1 DEF StatusInv
  <2>2. dropped
    BY <1>1, <1>4, <2>1
  <2> QED
    BY <1>4, <2>1, <2>2
<1>12. StatusInv(e)
  <2> SUFFICES ASSUME NEW q \in Pkg
               PROVE  /\ q \notin world.installed =>
                           GetStatus(e, q) \in Final \cup
                             {"UNINSTALLED", IF e.verifying THEN "TO_BE_INSTALLED_SOFT" ELSE "TO_BE_INSTALLED"}
                      /\ q \in world.installed => GetStatus(e, q) # "UNINSTALLED"
                      /\ q \in world.installed \cap world.locked /\ ~Justified(q) =>
                           GetStatus(e, q) = "INSTALLED"
    BY <1>4 DEF StatusInv, IsUsable
  <2>1. CASE q # p
    BY <1>4, <2>1 DEF StatusInv
  <2>2. CASE q = p
    <3>1. p \in world.installed => GetStatus(e, p) # "UNINSTALLED"
      BY <1>1, <1>8, <1>9 DEF StatusInv
    <3> QED
      BY <1>10, <1>11, <2>2, <3>1
  <2> QED
    BY <2>1, <2>2
<1>13. out.items \in Seq(GoodItems(e))
  <2>1. <<>> \in Seq(GoodItems(e))
    BY GoodSequences
  <2>2. UninstallConsequences(e, item) \in Seq(GoodItems(e))
    BY <1>3, <1>12, UninstallConsequencesGood
  <2> QED
    BY <1>4, <2>1, <2>2
<1>14. \A added \in ToSet(out.items) : ItemInv(e, added)
  BY <1>13, ElementsOfSequence DEF ToSet, GoodItems
<1>15. ASSUME NEW q \in Pkg, IsRemovalOf(item, q)
       PROVE  Doomed(e, ToSet(out.items), q)
  <2>1. q = p /\ ~item.unlink /\ ~dropped
    BY <1>15 DEF IsRemovalOf, dropped
  <2> QED
    BY <1>4, <2>1 DEF Final, Doomed
<1>16. \A d, q : item # ConflictItem(d, q, FALSE)
  BY <1>1 DEF ConflictItem
<1>17. /\ \A q \in Pkg \ world.installed :
            GetStatus(e, q) = "UNINSTALLED" => GetStatus(c, q) = "UNINSTALLED"
       /\ \A q \in Pkg \ world.installed :
            GetStatus(e, q) \in ToBeInstalled => GetStatus(c, q) \in ToBeInstalled
  BY <1>4, <1>8, <1>9
<1>18. \A q : ~IsInstallOf(item, q)
  BY <1>1 DEF IsInstallOf
<1> DEFINE O == ToSet(out.items)
<1> HIDE DEF O, new
<1>19. Effect(c, item, e, O)
  <2>1. /\ \A q \in Pkg : IsRemovalOf(item, q) => Doomed(e, O, q)
        /\ \A added \in O : ItemInv(e, added)
    BY <1>14, <1>15 DEF O
  <2>2. \A other \in Pkg, d \in Dep : item # ConflictItem(d, other, FALSE)
    BY <1>16
  <2> QED
    BY <1>3, <1>4, <1>12, <1>17, <1>18, <2>1, <2>2, Zenon DEF Effect
<1> QED
  BY <1>19 DEF e, O

\* What an installation queues, among it what the conflicts of the package
\* and those against it call for.
LEMMA InstallConsequencesGood ==
  ASSUME world \in WorldType, NEW c \in ContextType, NEW p \in Pkg,
         NEW s, s = InstallConsequences(c, p)
  PROVE  /\ s \in Seq(GoodItems(c))
         /\ \A d \in world.conflicts[p] : ConflictItem(d, p, FALSE) \in ToSet(s)
         /\ \A q \in Conflicting(p) : SameSpec(q, p) \/ \E new \in ToSet(s) : IsRemovalOf(new, q)
<1> DEFINE unmet     == DepsInOrder({d \in world.requires[p] : ~RequirementIsMet(c, d, FALSE)})
           unmetKids == DepsInOrder({d \in world.children[p] : ~RequirementIsMet(c, d, TRUE)})
           opposed   == DepsInOrder(world.conflicts[p])
           replaced  == DepsInOrder(world.obsoletes[p])
           enemies   == {q \in Conflicting(p) : ~SameSpec(q, p)}
           against   == Reverse(InOrder(enemies))
           first     == [i \in DOMAIN unmet |-> RequireItem(unmet[i], p, FALSE, FALSE, NONE)]
           second    == [i \in DOMAIN unmetKids |-> RequireItem(unmetKids[i], p, TRUE, FALSE, NONE)]
           third     == [i \in DOMAIN opposed |-> ConflictItem(opposed[i], p, FALSE)]
           fourth    == [i \in DOMAIN replaced |-> ConflictItem(replaced[i], p, TRUE)]
           fifth     == [i \in DOMAIN against |-> UninstallItem(against[i])]
<1>1. /\ world.requires[p] \in SUBSET Dep /\ world.children[p] \in SUBSET Dep
      /\ world.conflicts[p] \in SUBSET Dep /\ world.obsoletes[p] \in SUBSET Dep
  BY DEF WorldType
<1>2. /\ unmet \in Seq(Dep) /\ unmetKids \in Seq(Dep)
      /\ opposed \in Seq(Dep) /\ replaced \in Seq(Dep)
  <2>1. \A D \in SUBSET Dep : DepsInOrder(D) \in Seq(Dep)
    BY DepsInOrderType
  <2> QED
    BY <1>1, <2>1
<1>3. against \in Seq(Pkg) /\ ToSet(against) = enemies
  <2>1. enemies \in SUBSET Pkg
    BY DEF Conflicting
  <2> HIDE DEF enemies
  <2>2. InOrder(enemies) \in Seq(Pkg) /\ ToSet(InOrder(enemies)) = enemies
    BY <2>1, InOrderType, InOrderAll
  <2> QED
    BY <2>2, ReverseType, ReverseAll
<1>4. ToSet(opposed) = world.conflicts[p]
  BY <1>1, DepsInOrderAll
<1> HIDE DEF unmet, unmetKids, opposed, replaced, against, enemies
<1>5. first \in Seq(GoodItems(c)) /\ second \in Seq(GoodItems(c))
  <2>1. \A i \in DOMAIN unmet : first[i] \in GoodItems(c)
    BY <1>2, ElementsOfSequence, RequireIsGood, SimpleIsGood
  <2>2. \A i \in DOMAIN unmetKids : second[i] \in GoodItems(c)
    BY <1>2, ElementsOfSequence, RequireIsGood, SimpleIsGood
  <2> QED
    BY <1>2, <2>1, <2>2, MappedType
<1>6. third \in Seq(GoodItems(c)) /\ fourth \in Seq(GoodItems(c))
  <2>1. \A i \in DOMAIN opposed : third[i] \in GoodItems(c)
    BY <1>2, ElementsOfSequence, RequireIsGood, SimpleIsGood
  <2>2. \A i \in DOMAIN replaced : fourth[i] \in GoodItems(c)
    BY <1>2, ElementsOfSequence, RequireIsGood, SimpleIsGood
  <2> QED
    BY <1>2, <2>1, <2>2, MappedType
<1>7. fifth \in Seq(GoodItems(c))
  <2>1. \A i \in DOMAIN against : fifth[i] \in GoodItems(c)
    BY <1>3, ElementsOfSequence, RemovalIsGood, SimpleIsGood
  <2> QED
    BY <1>3, <2>1, MappedType
<1>8. \A d \in world.conflicts[p] : ConflictItem(d, p, FALSE) \in ToSet(third)
  <2> SUFFICES ASSUME NEW d \in world.conflicts[p] PROVE ConflictItem(d, p, FALSE) \in ToSet(third)
    OBVIOUS
  <2>1. PICK i \in DOMAIN opposed : opposed[i] = d
    BY <1>4 DEF ToSet
  <2>2. third[i] = ConflictItem(d, p, FALSE) /\ i \in DOMAIN third
    BY <2>1
  <2> QED
    BY <2>2 DEF ToSet
<1>9. \A q \in Conflicting(p) : SameSpec(q, p) \/ \E new \in ToSet(fifth) : IsRemovalOf(new, q)
  <2> SUFFICES ASSUME NEW q \in enemies PROVE \E new \in ToSet(fifth) : IsRemovalOf(new, q)
    BY DEF enemies
  <2>1. PICK i \in DOMAIN against : against[i] = q
    BY <1>3 DEF ToSet
  <2>2. fifth[i] = UninstallItem(q) /\ i \in DOMAIN fifth /\ q \in Pkg
    BY <1>3, <2>1, ElementsOfSequence
  <2>3. IsRemovalOf(fifth[i], q)
    BY <2>2, RemovalIsGood
  <2> QED
    BY <2>2, <2>3 DEF ToSet
<1>10. s = first \o second \o third \o fourth \o fifth
  BY DEF InstallConsequences, Map, unmet, unmetKids, opposed, replaced, against, enemies
<1> HIDE DEF first, second, third, fourth, fifth
<1> DEFINE G == GoodItems(c)
<1> HIDE DEF G
<1>11. /\ first \in Seq(G) /\ second \in Seq(G) /\ third \in Seq(G) /\ fourth \in Seq(G)
       /\ fifth \in Seq(G)
  BY <1>5, <1>6, <1>7 DEF G
<1>12. first \o second \in Seq(G) /\ first \o second \o third \in Seq(G)
       /\ first \o second \o third \o fourth \in Seq(G) /\ s \in Seq(G)
  BY <1>10, <1>11
<1>13. ToSet(third) \subseteq ToSet(s) /\ ToSet(fifth) \subseteq ToSet(s)
  <2> SUFFICES ASSUME \A u, v \in Seq(G) : ToSet(u \o v) = ToSet(u) \cup ToSet(v)
               PROVE  ToSet(third) \subseteq ToSet(s) /\ ToSet(fifth) \subseteq ToSet(s)
    BY ConcatAll
  <2>1. ToSet(first \o second \o third \o fourth \o fifth)
          = ToSet(first \o second \o third \o fourth) \cup ToSet(fifth)
    BY <1>11, <1>12, Zenon
  <2>2. ToSet(first \o second \o third \o fourth) = ToSet(first \o second \o third) \cup ToSet(fourth)
    BY <1>11, <1>12, Zenon
  <2>3. ToSet(first \o second \o third) = ToSet(first \o second) \cup ToSet(third)
    BY <1>11, <1>12, Zenon
  <2> QED
    BY <1>10, <2>1, <2>2, <2>3, Zenon
<1> QED
  BY <1>8, <1>9, <1>12, <1>13 DEF G

\* An install that is not carried out: it is not one that was asked for.
LEMMA SkippedInstallEffect ==
  ASSUME NEW c, IsUsable(c), StatusInv(c), NEW item \in InstallItems, item.neededBy # {},
         NEW items \in Seq(GoodItems(c))
  PROVE  Effect(c, item, c, ToSet(items))
<1>1. \A new \in ToSet(items) : ItemInv(c, new)
  BY ElementsOfSequence DEF ToSet, GoodItems
<1>2. item.type = "install" /\ \A d, p : item # ConflictItem(d, p, FALSE)
  BY DEF ConflictItem, InstallItems
<1> QED
  BY <1>1, <1>2 DEF Effect, KeepsDecisions, IsRemovalOf, IsInstallOf

\* The statuses that carrying out an install leaves.
LEMMA InstallStatuses ==
  ASSUME world \in WorldType, NEW c, IsUsable(c), StatusInv(c),
         NEW item \in InstallItems, SimpleInv(c, item),
         NEW e, e = IF item.upgrades # NONE THEN UpgradePackage(c, item.package, item.penalty)
                    ELSE InstallPackage(c, item.package, item.penalty),
         ~e.invalid
  PROVE  /\ IsUsable(e) /\ e.verifying = c.verifying /\ StatusInv(e)
         /\ \A q \in Pkg : q # item.package => GetStatus(e, q) = GetStatus(c, q)
         /\ item.package \notin world.installed =>
              \/ e = c /\ GetStatus(c, item.package) \in ToBeInstalled
              \/ /\ item.upgrades # NONE
                 /\ e = c /\ GetStatus(c, item.package) \in Final
              \/ /\ GetStatus(c, item.package) = "UNINSTALLED"
                 /\ GetStatus(e, item.package) \in ToBeInstalled
                 /\ item.upgrades = NONE => ~IsParallelInstall(c, item.package)
<1> DEFINE p == item.package  status == GetStatus(c, p)
           soft == IF c.verifying THEN "TO_BE_INSTALLED_SOFT" ELSE "TO_BE_INSTALLED"
<1>1. /\ p \in Pkg /\ item.penalty \in Int /\ c \in ContextType
      /\ p \notin world.installed \cap world.locked
  BY DEF InstallItems, SimpleInv, IsUsable
<1>2. /\ status \in PackageStatus
      /\ p \notin world.installed => status \in Final \cup {"UNINSTALLED", soft}
      /\ p \in world.installed => status # "UNINSTALLED"
  BY <1>1, StatusType DEF StatusInv
<1>3. /\ IsUsable(e) /\ e.verifying = c.verifying
      /\ \A q \in Pkg : q # p => GetStatus(e, q) = GetStatus(c, q)
  BY <1>1, InstallPackageEffect, UpgradePackageEffect
<1>4. ASSUME item.upgrades # NONE
      PROVE  \/ e = c /\ status \in ToBeUninstalled \cup ToBeInstalled
             \/ /\ status \notin ToBeUninstalled \cup ToBeInstalled
                /\ GetStatus(e, p) = soft
  BY <1>1, <1>4, UpgradePackageEffect
<1>5. ASSUME item.upgrades = NONE
      PROVE  \/ e = c /\ status \in ToBeInstalled
             \/ /\ status \notin ToBeInstalled \cup Final
                /\ ~IsParallelInstall(c, p)
                /\ GetStatus(e, p) = IF c.verifying THEN "TO_BE_INSTALLED_SOFT"
                                     ELSE IF status = "DUE_TO_UNLINK" THEN "INSTALLED"
                                     ELSE "TO_BE_INSTALLED"
  BY <1>1, <1>5, InstallPackageEffect DEF Final
<1> HIDE DEF p
<1>6. ASSUME p \notin world.installed
      PROVE  \/ e = c /\ status \in ToBeInstalled
             \/ item.upgrades # NONE /\ e = c /\ status \in Final
             \/ /\ status = "UNINSTALLED" /\ GetStatus(e, p) = soft
                /\ item.upgrades = NONE => ~IsParallelInstall(c, p)
  <2>1. CASE item.upgrades # NONE
    BY <1>2, <1>4, <1>6, <2>1 DEF Final, ToBeInstalled, ToBeUninstalled
  <2>2. CASE item.upgrades = NONE
    BY <1>2, <1>5, <1>6, <2>2 DEF Final, ToBeInstalled
  <2> QED
    BY <2>1, <2>2
<1>7. p \in world.installed => GetStatus(e, p) # "UNINSTALLED"
  BY <1>2, <1>4, <1>5
<1>8. StatusInv(e)
  <2> SUFFICES ASSUME NEW q \in Pkg
               PROVE  /\ q \notin world.installed =>
                           GetStatus(e, q) \in Final \cup
                             {"UNINSTALLED", IF e.verifying THEN "TO_BE_INSTALLED_SOFT" ELSE "TO_BE_INSTALLED"}
                      /\ q \in world.installed => GetStatus(e, q) # "UNINSTALLED"
                      /\ q \in world.installed \cap world.locked /\ ~Justified(q) =>
                           GetStatus(e, q) = "INSTALLED"
    BY <1>3 DEF StatusInv, IsUsable
  <2>1. CASE q # p
    BY <1>3, <2>1 DEF StatusInv
  <2>2. CASE q = p
    <3>1. p \notin world.installed => GetStatus(e, p) \in Final \cup {"UNINSTALLED", soft}
      BY <1>2, <1>6
    <3> QED
      BY <1>1, <1>3, <1>7, <2>2, <3>1 DEF p
  <2> QED
    BY <2>1, <2>2
<1>9. soft \in ToBeInstalled
  BY DEF ToBeInstalled
<1> QED
  BY <1>3, <1>6, <1>8, <1>9 DEF p

\* An install installs its package, unless it must not come any more.
LEMMA InstallEffect ==
  ASSUME world \in WorldType, NEW c, IsUsable(c), StatusInv(c),
         NEW item \in InstallItems, SimpleInv(c, item),
         NEW out, out = ProcessInstall(c, item), ~out.context.invalid
  PROVE  Effect(c, item, out.context, ToSet(out.items))
<1> DEFINE p        == item.package
           status   == GetStatus(c, p)
           upgrade  == item.upgrades # NONE
           after    == IF upgrade THEN UpgradePackage(c, p, item.penalty)
                                  ELSE InstallPackage(c, p, item.penalty)
           gone     == [UninstallItem(item.upgrades) EXCEPT !.upgradedTo = p,
                                                            !.explicit = item.explicit]
           removal  == IF upgrade THEN <<gone>> ELSE <<>>
           needers  == InOrder(item.neededBy)
           removals == [i \in DOMAIN needers |-> UninstallItem(needers[i])]
           follow   == IF status \in {"UNINSTALLED", "DUE_TO_UNLINK"}
                       THEN InstallConsequences(after, p) ELSE <<>>
           e        == out.context
           O        == ToSet(out.items)
<1>1. /\ p \in Pkg /\ item.penalty \in Int /\ item.explicit \in BOOLEAN /\ item.type = "install"
      /\ item.upgrades \in Pkg \cup {NONE} /\ item.neededBy \in SUBSET Pkg /\ c \in ContextType
      /\ upgrade => NameOf[item.upgrades] = NameOf[p] /\ ~SameSpec(p, item.upgrades)
      /\ item.explicit => p \in request.install
  BY DEF InstallItems, SimpleInv, IsUsable
<1>2. KeepsDecisions(c, e)
  BY <1>1, ProcessInstallFollows DEF Follows
<1>3. \/ item.neededBy # {} /\ out \in {Outcome(c, <<>>), Outcome(c, removals)}
      \/ out = Outcome(after, removal \o follow)
  <2> DEFINE noNeeder == item.neededBy # {} /\ \A q \in item.neededBy : GetStatus(c, q) \in ToBeUninstalled
             backOut  == c.verifying /\ status \in ToBeUninstalled /\ item.neededBy # {}
  <2>1. ~(upgrade /\ SameSpec(p, item.upgrades))
    BY <1>1
  <2>2. out = IF noNeeder THEN Outcome(c, <<>>)
              ELSE IF backOut THEN Outcome(c, removals) ELSE Outcome(after, removal \o follow)
    BY <2>1 DEF ProcessInstall, Map
  <2> HIDE DEF after, removal, removals, follow
  <2> QED
    BY <2>2
<1>4. ASSUME item.neededBy # {}, out \in {Outcome(c, <<>>), Outcome(c, removals)}
      PROVE  Effect(c, item, e, O)
  <2>1. needers \in Seq(Pkg)
    BY <1>1, InOrderType
  <2>2. \A i \in DOMAIN needers : removals[i] \in GoodItems(c)
    BY <2>1, ElementsOfSequence, RemovalIsGood, SimpleIsGood
  <2>3. removals \in Seq(GoodItems(c)) /\ <<>> \in Seq(GoodItems(c))
    BY <2>1, <2>2, MappedType, GoodSequences
  <2> HIDE DEF removals
  <2>4. PICK items \in {<<>>, removals} : out = Outcome(c, items)
    BY <1>4
  <2>5. e = c /\ out.items = items
    BY <2>4 DEF Outcome
  <2>6. items \in Seq(GoodItems(c))
    BY <2>3, <2>4, Zenon
  <2> QED
    BY <1>4, <2>5, <2>6, SkippedInstallEffect
<1>5. ASSUME out = Outcome(after, removal \o follow)
      PROVE  Effect(c, item, e, O)
  <2>1. e = after /\ out.items = removal \o follow
    <3> HIDE DEF after, removal, follow
    <3> QED
      BY <1>5 DEF Outcome
  <2>2. /\ IsUsable(e) /\ e.verifying = c.verifying /\ StatusInv(e)
        /\ \A q \in Pkg : q # p => GetStatus(e, q) = GetStatus(c, q)
        /\ p \notin world.installed =>
             \/ e = c /\ status \in ToBeInstalled
             \/ upgrade /\ e = c /\ status \in Final
             \/ /\ status = "UNINSTALLED" /\ GetStatus(e, p) \in ToBeInstalled
                /\ ~upgrade => ~IsParallelInstall(c, p)
    BY <2>1, InstallStatuses
  <2>3. upgrade => gone \in GoodSimple(e) /\ IsRemovalOf(gone, item.upgrades)
    <3>1. item.explicit /\ upgrade => Justified(item.upgrades)
      BY <1>1 DEF Justified
    <3> QED
      BY <1>1, <3>1, RemovalIsGood
  <2> HIDE DEF gone
  <2>4. /\ removal \in Seq(GoodItems(e))
        /\ upgrade => gone \in ToSet(removal)
    <3>1. ASSUME upgrade PROVE removal = <<gone>> /\ gone \in GoodItems(e)
      BY <2>3, <3>1, SimpleIsGood
    <3>2. ~upgrade => removal = <<>>
      OBVIOUS
    <3>3. ASSUME upgrade PROVE gone \in ToSet(<<gone>>)
      <4>1. 1 \in DOMAIN <<gone>> /\ <<gone>>[1] = gone
        OBVIOUS
      <4> QED
        BY <4>1 DEF ToSet
    <3> HIDE DEF removal
    <3> QED
      BY <3>1, <3>2, <3>3, GoodSequences
  <2>5. /\ follow \in Seq(GoodItems(e))
        /\ status = "UNINSTALLED" =>
             /\ \A d \in world.conflicts[p] : ConflictItem(d, p, FALSE) \in ToSet(follow)
             /\ \A q \in Conflicting(p) : SameSpec(q, p) \/ \E new \in ToSet(follow) : IsRemovalOf(new, q)
    <3>1. <<>> \in Seq(GoodItems(e))
      BY GoodSequences
    <3>2. e \in ContextType
      BY <2>2 DEF IsUsable
    <3>3. follow = IF status \in {"UNINSTALLED", "DUE_TO_UNLINK"} THEN InstallConsequences(e, p) ELSE <<>>
      BY <2>1
    <3> HIDE DEF follow, e
    <3> QED
      BY <1>1, <3>1, <3>2, <3>3, InstallConsequencesGood
  <2> HIDE DEF removal, follow, after, e, O, p
  <2>6. O = ToSet(removal) \cup ToSet(follow)
    BY <2>1, <2>4, <2>5, ConcatAll DEF O
  <2>7. \A new \in O : ItemInv(e, new)
    <3>1. \A i \in DOMAIN removal : removal[i] \in GoodItems(e)
      BY <2>4, ElementsOfSequence
    <3>2. \A i \in DOMAIN follow : follow[i] \in GoodItems(e)
      BY <2>5, ElementsOfSequence
    <3> QED
      BY <2>6, <3>1, <3>2 DEF ToSet, GoodItems
  <2>8. \A q \in Pkg \ world.installed : GetStatus(e, q) = "UNINSTALLED" => GetStatus(c, q) = "UNINSTALLED"
    BY <2>2 DEF ToBeInstalled
  <2>9. ASSUME NEW q \in Pkg \ world.installed, GetStatus(e, q) \in ToBeInstalled
        PROVE  GetStatus(c, q) \in ToBeInstalled \/ NewlyInstalled(c, item, O, q)
    <3>1. CASE q # p
      BY <2>2, <2>9, <3>1
    <3>2. CASE q = p /\ status = "UNINSTALLED" /\ (~upgrade => ~IsParallelInstall(c, p))
      <4>1. upgrade => \E new \in O : IsRemovalOf(new, item.upgrades)
        BY <2>3, <2>4, <2>6
      <4>2. /\ \A d \in world.conflicts[p] : ConflictItem(d, p, FALSE) \in O
            /\ \A x \in Conflicting(p) : SameSpec(x, p) \/ \E new \in O : IsRemovalOf(new, x)
        BY <2>5, <2>6, <3>2
      <4> QED
        BY <1>1, <3>2, <4>1, <4>2 DEF NewlyInstalled, p
    <3> QED
      BY <2>2, <2>9, <3>1, <3>2
  <2>10. ASSUME NEW q \in Pkg \ world.installed, IsInstallOf(item, q)
         PROVE  GetStatus(e, q) \in ToBeInstalled \/ LostUpgrade(e, q)
    <3>1. q = p /\ (upgrade => FindInstalledVersion(q) # NONE)
      BY <2>10 DEF IsInstallOf, p
    <3>2. \/ GetStatus(e, p) \in ToBeInstalled
          \/ upgrade /\ GetStatus(e, p) \in Final
      BY <2>2, <2>10, <3>1
    <3> QED
      BY <2>10, <3>1, <3>2 DEF LostUpgrade, Final, ToBeUninstalled
  <2>11. /\ \A q : ~IsRemovalOf(item, q)
         /\ \A other, d : item # ConflictItem(d, other, FALSE)
    BY <1>1 DEF IsRemovalOf, ConflictItem
  <2> QED
    BY <1>2, <2>2, <2>7, <2>8, <2>9, <2>10, <2>11, Zenon DEF Effect
<1> QED
  BY <1>3, <1>4, <1>5

\* What an item of any type but a branch does for what is owed.
LEMMA SimpleEffect ==
  ASSUME world \in WorldType, NEW c, IsUsable(c), StatusInv(c),
         NEW item \in SimpleItemType, SimpleInv(c, item),
         NEW out, out = ProcessSimple(c, item), ~out.context.invalid, ~out.aborted
  PROVE  Effect(c, item, out.context, ToSet(out.items))
<1>1. CASE item \in InstallItems
  <2>1. out = ProcessInstall(c, item)
    BY <1>1 DEF ProcessSimple, InstallItems
  <2> QED
    BY <1>1, <2>1, InstallEffect
<1>2. CASE item \in RequireItems
  <2>1. out = ProcessRequire(c, item)
    BY <1>2 DEF ProcessSimple, RequireItems
  <2> QED
    BY <1>2, <2>1, RequireEffect
<1>3. CASE item \in ConflictItems
  <2>1. out = ProcessConflict(c, item)
    BY <1>3 DEF ProcessSimple, ConflictItems
  <2> QED
    BY <1>3, <2>1, ConflictEffect
<1>4. CASE item \in UninstallItems
  <2>1. out = ProcessUninstall(c, item)
    BY <1>4 DEF ProcessSimple, UninstallItems
  <2> QED
    BY <1>4, <2>1, UninstallEffect
<1> QED
  BY <1>1, <1>2, <1>3, <1>4 DEF SimpleItemType

\* Branches do nothing that is owed, so they can be left out.
LEMMA GoodWithoutBranches ==
  ASSUME NEW c, NEW I, Good(c, I), NEW J, J \subseteq I,
         \A item \in I : item.type # "branch" => item \in J
  PROVE  Good(c, J)
<1>1. \A q : Doomed(c, I, q) => Doomed(c, J, q)
  BY DEF Doomed, IsRemovalOf
<1>2. \A d, p : ConflictItem(d, p, FALSE) \in I => ConflictItem(d, p, FALSE) \in J
  BY DEF ConflictItem
<1>3. ConflictsInv(c, J)
  <2> SUFFICES ASSUME NEW p \in Pkg \ world.installed, GetStatus(c, p) \in ToBeInstalled
               PROVE  OpposedGo(c, J, p)
    BY DEF ConflictsInv
  <2>1. OpposedGo(c, I, p)
    BY DEF Good, ConflictsInv
  <2> QED
    BY <1>1, <1>2, <2>1 DEF OpposedGo
<1>4. ParallelInv(c, J)
  <2>1. \A p : UpgradedBySeveral(c, I, p) => UpgradedBySeveral(c, J, p)
    BY <1>1 DEF UpgradedBySeveral
  <2> QED
    BY <2>1 DEF Good, ParallelInv
<1>5. InstallsInv(c, J)
  BY DEF Good, InstallsInv, IsInstallOf
<1>6. RemovesInv(c, J)
  BY <1>1 DEF Good, RemovesInv
<1> QED
  BY <1>3, <1>4, <1>5, <1>6 DEF Good

\* Processing an item of a queue leaves a good context with what is left of
\* the queue, unless it is found to be without a solution.
LEMMA ItemKeepsGood ==
  ASSUME world \in WorldType, request \in RequestType,
         NEW c \in ContextType, ~c.invalid, NEW I \in SUBSET ItemType, Good(c, I),
         NEW item \in I, NEW out, out = ProcessItem(c, item), ~out.context.invalid, ~out.aborted,
         NEW J, J \subseteq I \cup ToSet(out.items), ToSet(out.items) \subseteq J,
         \A old \in I : old # item => old \in J
  PROVE  Good(out.context, J)
<1>1. IsUsable(c) /\ StatusInv(c) /\ ItemInv(c, item)
  BY DEF IsUsable, Good, StatusInv
<1>2. ASSUME NEW x \in SimpleItemType, SimpleInv(c, x), out = ProcessSimple(c, x),
             x = item \/ item.type = "branch"
      PROVE  Good(out.context, J)
  <2>1. Effect(c, x, out.context, ToSet(out.items))
    BY <1>1, <1>2, SimpleEffect
  <2>2. Keeps(I, x, ToSet(out.items), J)
    BY <1>2 DEF Keeps
  <2> QED
    BY <1>2, <2>1, <2>2, EffectKeepsGood
<1>3. CASE item.type # "branch"
  <2>1. item \in SimpleItemType
    BY <1>3 DEF ItemType, BranchItems
  <2>2. SimpleInv(c, item) /\ out = ProcessSimple(c, item)
    BY <1>1, <1>3 DEF ItemInv, ProcessItem
  <2> QED
    BY <1>2, <2>1, <2>2
<1>4. CASE item.type = "branch"
  <2>1. item \in BranchItems
    BY <1>4 DEF ItemType, SimpleItemType, InstallItems, RequireItems, ConflictItems, UninstallItems
  <2>2. item.possible \in Seq(SimpleItemType)
    BY <2>1 DEF BranchItems
  <2>3. ASSUME out = Outcome(c, <<>>) PROVE Good(out.context, J)
    <3>1. out.context = c /\ out.items = <<>>
      BY <2>3 DEF Outcome
    <3>2. ToSet(out.items) = {}
      BY <3>1 DEF ToSet
    <3> QED
      BY <1>4, <3>1, <3>2, GoodWithoutBranches
  <2>4. ASSUME out = [Outcome(c, <<item>>) EXCEPT !.did = FALSE] PROVE Good(out.context, J)
    <3>1. out.context = c /\ out.items = <<item>>
      BY <2>4 DEF Outcome
    <3>2. ToSet(out.items) = {item}
      BY <3>1 DEF ToSet
    <3>3. J = I
      BY <3>2
    <3> QED
      BY <3>1, <3>3
  <2>5. CASE Len(item.possible) = 1
    <3>1. 1 \in DOMAIN item.possible /\ item.possible[1] \in SimpleItemType
      BY <2>2, <2>5
    <3>2. SimpleInv(c, item.possible[1])
      BY <1>1, <1>4, <3>1 DEF ItemInv
    <3>3. out = Outcome(c, <<>>) \/ out = ProcessSimple(c, item.possible[1])
      BY <1>4, <2>5 DEF ProcessItem, ProcessBranch
    <3> QED
      BY <1>2, <1>4, <2>3, <3>1, <3>2, <3>3
  <2>6. CASE Len(item.possible) # 1
    <3>1. out \in {Outcome(c, <<>>), [Outcome(c, <<item>>) EXCEPT !.did = FALSE]}
      BY <1>4, <2>6 DEF ProcessItem, ProcessBranch
    <3> QED
      BY <2>3, <2>4, <3>1
  <2> QED
    BY <2>5, <2>6
<1> QED
  BY <1>3, <1>4

-----------------------------------------------------------------------------
(* The queues *)

\* Taking an item off a queue leaves the others.
LEMMA RemoveAtAll ==
  ASSUME NEW S, NEW s \in Seq(S), NEW n \in DOMAIN s
  PROVE  /\ ToSet(RemoveAt(s, n)) \subseteq ToSet(s)
         /\ \A x \in ToSet(s) : x # s[n] => x \in ToSet(RemoveAt(s, n))
<1> DEFINE before == SubSeq(s, 1, n - 1)
           after  == SubSeq(s, n + 1, Len(s))
           t      == RemoveAt(s, n)
<1>1. n \in 1..Len(s) /\ Len(s) \in Nat /\ DOMAIN s = 1..Len(s)
  OBVIOUS
<1>2. /\ before \in Seq(S) /\ Len(before) = n - 1
      /\ \A i \in 1..(n - 1) : before[i] = s[i]
  BY <1>1
<1>3. /\ after \in Seq(S) /\ Len(after) = Len(s) - n
      /\ \A i \in 1..(Len(s) - n) : after[i] = s[n + i]
  BY <1>1
<1>4. t = before \o after
  BY DEF RemoveAt
<1> HIDE DEF before, after, t
<1>5. ToSet(t) = ToSet(before) \cup ToSet(after)
  BY <1>2, <1>3, <1>4, ConcatAll
<1>6. ToSet(before) \subseteq ToSet(s)
  BY <1>1, <1>2 DEF ToSet
<1>7. ToSet(after) \subseteq ToSet(s)
  <2> SUFFICES ASSUME NEW i \in DOMAIN after PROVE after[i] \in ToSet(s)
    BY DEF ToSet
  <2>1. i \in 1..(Len(s) - n) /\ n + i \in DOMAIN s
    BY <1>1, <1>3
  <2> QED
    BY <1>3, <2>1 DEF ToSet
<1>8. ASSUME NEW i \in DOMAIN s, s[i] # s[n] PROVE s[i] \in ToSet(t)
  <2>1. CASE i < n
    <3>1. i \in DOMAIN before /\ before[i] = s[i]
      BY <1>1, <1>2, <2>1
    <3> QED
      BY <1>5, <3>1 DEF ToSet
  <2>2. CASE i > n
    <3>1. i - n \in 1..(Len(s) - n) /\ n + (i - n) = i
      BY <1>1, <2>2
    <3>2. i - n \in DOMAIN after /\ after[i - n] = s[i]
      <4>1. DOMAIN after = 1..(Len(s) - n)
        BY <1>3
      <4> QED
        BY <1>3, <3>1, <4>1
    <3> QED
      BY <1>5, <3>2 DEF ToSet
  <2> QED
    BY <1>1, <1>8, <2>1, <2>2
<1> QED
  BY <1>5, <1>6, <1>7, <1>8 DEF ToSet, t

\* A pass only drops branches.
LEMMA NextItemsAll ==
  ASSUME NEW S, NEW new \in Seq(S)
  PROVE  /\ ToSet(NextItems(new)) \subseteq ToSet(new)
         /\ \A x \in ToSet(new) : x.type # "branch" => x \in ToSet(NextItems(new))
<1> DEFINE items == Reverse(new)
           contains(i, j) == /\ items[i].type = "branch" /\ items[j].type = "branch"
                             /\ BranchContains(items[i], items[j])
           dropped == {i \in DOMAIN items : \E j \in DOMAIN items \ {i} :
                         contains(i, j) /\ (i < j \/ ~contains(j, i))}
           left == DOMAIN items \ dropped
           place == [i \in DOMAIN items |-> i]
           kept == Listed(left, place)
           next == [k \in DOMAIN kept |-> items[kept[k]]]
<1>1. items \in Seq(S) /\ ToSet(items) = ToSet(new)
  BY ReverseType, ReverseAll
<1>2. NextItems(new) = next
  BY DEF NextItems
<1>3. \A i \in dropped : items[i].type = "branch"
  OBVIOUS
<1> HIDE DEF items, dropped
<1>4. /\ kept \in [1..Cardinality(left) -> left]
      /\ \A i \in left : \E k \in 1..Cardinality(left) : kept[k] = i
  <2>1. DOMAIN items = 1..Len(items) /\ Len(items) \in Nat
    BY <1>1
  <2>2. IsFiniteSet(DOMAIN items)
    BY <2>1, FS_Interval
  <2>3. IsFiniteSet(left)
    BY <2>2, FS_Subset
  <2>4. /\ \A i \in left : place[i] \in Int
        /\ \A i, j \in left : place[i] = place[j] => i = j
    BY <2>1
  <2> HIDE DEF left, place
  <2> QED
    BY <2>3, <2>4, ListedOnce
<1> HIDE DEF kept
<1>5. ToSet(next) \subseteq ToSet(items)
  BY <1>4 DEF ToSet
<1>6. ASSUME NEW i \in DOMAIN items, items[i].type # "branch" PROVE items[i] \in ToSet(next)
  <2>1. i \in left
    BY <1>3, <1>6
  <2>2. PICK k \in 1..Cardinality(left) : kept[k] = i
    BY <1>4, <2>1
  <2>3. k \in DOMAIN next /\ next[k] = items[i]
    BY <1>4, <2>2
  <2> QED
    BY <2>3 DEF ToSet
<1> HIDE DEF next
<1>7. \A x \in ToSet(items) : x.type # "branch" => x \in ToSet(next)
  BY <1>6 DEF ToSet
<1> QED
  BY <1>1, <1>2, <1>5, <1>7

\* The same statuses are as good, for more items of which each is.
LEMMA GoodGrows ==
  ASSUME NEW c, NEW I, Good(c, I), NEW e, e.chain # <<>>, e.verifying = c.verifying,
         \A q \in Pkg : GetStatus(e, q) = GetStatus(c, q),
         request \in RequestType, world \in WorldType,
         NEW J, I \subseteq J, \A item \in J : ItemInv(e, item)
  PROVE  Good(e, J)
<1>1. StatusInv(c) /\ c.verifying = request.verifying
  BY DEF Good
<1>2. StatusInv(e)
  BY <1>1 DEF StatusInv
<1>3. /\ \A q \in Pkg : Doomed(c, I, q) => Doomed(e, J, q)
      /\ \A q \in Pkg : Taken(c, q) => Taken(e, q)
  BY DEF Doomed, Taken
<1>4. ConflictsInv(e, J)
  <2> SUFFICES ASSUME NEW p \in Pkg \ world.installed, GetStatus(e, p) \in ToBeInstalled
               PROVE  OpposedGo(e, J, p)
    BY DEF ConflictsInv
  <2>1. OpposedGo(c, I, p)
    BY DEF Good, ConflictsInv
  <2>2. \A d \in world.conflicts[p] : d \in Dep /\ Providers[d] \in SUBSET Pkg
    BY UniverseAssumption DEF WorldType
  <2>3. Conflicting(p) \in SUBSET Pkg
    BY DEF Conflicting
  <2> QED
    BY <1>3, <2>1, <2>2, <2>3, Zenon DEF OpposedGo
<1>5. ParallelInv(e, J)
  <2>1. \A p : UpgradedBySeveral(c, I, p) => UpgradedBySeveral(e, J, p)
    BY <1>3, Zenon DEF UpgradedBySeveral
  <2> QED
    BY <2>1 DEF Good, ParallelInv
<1>6. InstallsInv(e, J)
  <2>1. request.install \in SUBSET Pkg
    BY DEF RequestType
  <2>2. /\ \A p \in Pkg : LostUpgrade(c, p) => LostUpgrade(e, p)
        /\ \A p \in Pkg : TakenBack(c, p) => TakenBack(e, p)
    BY DEF LostUpgrade, TakenBack
  <2> QED
    BY <2>1, <2>2, Zenon DEF Good, InstallsInv
<1>7. RemovesInv(e, J)
  <2>1. request.remove \in SUBSET Pkg
    BY DEF RequestType
  <2> QED
    BY <1>3, <2>1, Zenon DEF Good, RemovesInv
<1> QED
  BY <1>1, <1>2, <1>4, <1>5, <1>6, <1>7 DEF Good

\* As long as the world and the request stay, the same contexts are good.
LEMMA GoodUnmoved ==
  ASSUME world' = world, request' = request
  PROVE  \A c, I : Good(c, I)' <=> Good(c, I)
<1>1. \A c, p : GetStatus(c, p)' = GetStatus(c, p)
  BY DEF GetStatus
<1>2. \A p : /\ FindInstalledVersion(p)' = FindInstalledVersion(p)
             /\ Conflicting(p)' = Conflicting(p)
             /\ Justified(p)' <=> Justified(p)
  BY DEF FindInstalledVersion, Conflicting, Justified
<1>3. \A c : StatusInv(c)' <=> StatusInv(c)
  BY <1>1, <1>2 DEF StatusInv
<1>4. \A c, r : Taken(c, r)' <=> Taken(c, r)
  BY <1>1 DEF Taken
<1>5. \A c, item : SimpleInv(c, item)' <=> SimpleInv(c, item)
  BY <1>2, <1>4 DEF SimpleInv
<1>6. \A c, item : ItemInv(c, item)' <=> ItemInv(c, item)
  BY <1>5 DEF ItemInv
<1>7. \A c, I, q : Doomed(c, I, q)' <=> Doomed(c, I, q)
  BY <1>1 DEF Doomed
<1>8. \A c, I, p : /\ OpposedGo(c, I, p)' <=> OpposedGo(c, I, p)
                   /\ UpgradedBySeveral(c, I, p)' <=> UpgradedBySeveral(c, I, p)
  <2>1. \A c, I, p : OpposedGo(c, I, p)' <=> OpposedGo(c, I, p)
    BY <1>2, <1>7 DEF OpposedGo
  <2>2. \A c, I, p : UpgradedBySeveral(c, I, p)' <=> UpgradedBySeveral(c, I, p)
    BY <1>4, <1>7 DEF UpgradedBySeveral
  <2> QED
    BY <2>1, <2>2
<1>9. \A c, I : /\ ConflictsInv(c, I)' <=> ConflictsInv(c, I)
                /\ ParallelInv(c, I)' <=> ParallelInv(c, I)
  BY <1>1, <1>2, <1>8 DEF ConflictsInv, ParallelInv
<1>10. \A c, p : /\ LostUpgrade(c, p)' <=> LostUpgrade(c, p)
                 /\ TakenBack(c, p)' <=> TakenBack(c, p)
  BY <1>1, <1>2 DEF LostUpgrade, TakenBack
<1>11. \A c, I : /\ InstallsInv(c, I)' <=> InstallsInv(c, I)
                 /\ RemovesInv(c, I)' <=> RemovesInv(c, I)
  BY <1>1, <1>2, <1>7, <1>10 DEF InstallsInv, RemovesInv, IsInstallOf
<1> QED
  BY <1>3, <1>6, <1>9, <1>11 DEF Good

-----------------------------------------------------------------------------
(* The search *)

GoodQueue(q)  == ~q.context.invalid /\ Good(q.context, ToSet(q.items))
GoodQueues(s) == \A i \in DOMAIN s : GoodQueue(s[i])
Owed          == ToSet(cur.items) \cup ToSet(cur.new)

\* Every queue is good, so is the one being processed as long as it may have
\* a solution, and a solution is good without anything left to do.
GoodInv ==
  /\ GoodQueues(pending) /\ GoodQueues(deferred)
  /\ pc \in {"process", "classify"} /\ ~cur.context.invalid => Good(cur.context, Owed)
  /\ pc = "classify" => cur.new = <<>>
  /\ \A i \in DOMAIN complete : Good(complete[i], {})

\* What a queue was made from when nothing was decided yet.
LEMMA InitialQueueGood ==
  ASSUME world \in WorldType, request \in RequestType
  PROVE  GoodQueue(InitialQueue(request))
<1> DEFINE c == NewContext(request.verifying)
           comers   == {p \in request.install : ~IsPresent(c, p)}
           goers    == {p \in request.remove : ~IsAbsent(c, p)}
           wanted   == InOrder(comers)
           unwanted == InOrder(goers)
           installs == [i \in DOMAIN wanted |-> NewInstall(wanted[i], {}, TRUE)]
           removals == [i \in DOMAIN unwanted |->
                          [UninstallItem(unwanted[i]) EXCEPT !.explicit = TRUE, !.removeOnly = TRUE]]
           listed   == Listed(ToVerify(<<world.requires, world.children, world.conflicts>>), VerifyPosition)
           verified == [i \in DOMAIN listed |-> VerifyItem(listed[i])]
           deps     == DepsInOrder(request.extraDeps)
           opposed  == DepsInOrder(request.extraConflicts)
           requires == [i \in DOMAIN deps |-> RequireItem(deps[i], NONE, FALSE, FALSE, NONE)]
           conflicts == [i \in DOMAIN opposed |-> ConflictItem(opposed[i], NONE, FALSE)]
           G == GoodItems(c)
           items == installs \o removals \o Verifications(request) \o Extras(request)
           I == ToSet(Reverse(items))
<1>1. /\ request.install \in SUBSET Pkg /\ request.remove \in SUBSET Pkg
      /\ request.extraDeps \in SUBSET Dep /\ request.extraConflicts \in SUBSET Dep
      /\ request.verifying \in BOOLEAN
  BY DEF RequestType
<1>2. /\ IsUsable(c) /\ c.verifying = request.verifying
      /\ \A p \in Pkg : GetStatus(c, p) = IF p \in world.installed THEN "INSTALLED" ELSE "UNINSTALLED"
  <2>1. IsUsable(c) /\ c.verifying = request.verifying
    <3>1. c \in ContextType
      BY <1>1, NewContextType
    <3>2. c.chain = <<Unmarked>> /\ ~c.invalid /\ c.verifying = request.verifying
      BY DEF NewContext
    <3>3. <<Unmarked>> # <<>>
      OBVIOUS
    <3> QED
      BY <3>1, <3>2, <3>3 DEF IsUsable
  <2>2. ASSUME NEW p \in Pkg
        PROVE  GetStatus(c, p) = IF p \in world.installed THEN "INSTALLED" ELSE "UNINSTALLED"
    BY <1>1, NewContextStatus
  <2> QED
    BY <2>1, <2>2
<1> HIDE DEF c
<1>3. /\ comers \in SUBSET Pkg /\ \A p \in comers : p \notin world.installed
      /\ goers \in SUBSET Pkg /\ goers \subseteq request.remove
      /\ request.install \ world.installed \subseteq comers
      /\ request.remove \cap world.installed \subseteq goers
  BY <1>1, <1>2 DEF IsPresent, IsAbsent, ToBeInstalled, ToBeUninstalled
<1> HIDE DEF comers, goers
<1>4. /\ wanted \in Seq(comers) /\ ToSet(wanted) = comers
      /\ unwanted \in Seq(goers) /\ ToSet(unwanted) = goers
  BY <1>3, InOrderType, InOrderAll
<1>5. listed \in Seq(Pkg \X (1..3) \X Dep)
  BY VerifyListType
<1>6. deps \in Seq(Dep) /\ opposed \in Seq(Dep)
  <2>1. \A D \in SUBSET Dep : DepsInOrder(D) \in Seq(Dep)
    BY DepsInOrderType
  <2> QED
    BY <1>1, <2>1
<1> HIDE DEF wanted, unwanted, listed, deps, opposed, G
<1>7. ASSUME NEW i \in DOMAIN wanted
      PROVE  installs[i] \in G /\ IsInstallOf(installs[i], wanted[i])
  <2> DEFINE p == wanted[i]
  <2>1. p \in comers /\ p \in Pkg /\ p \notin world.installed
    BY <1>3, <1>4, ElementsOfSequence
  <2>2. p \in request.install
    BY <2>1 DEF comers
  <2>3. NewInstall(p, {}, TRUE) \in G
    BY <2>1, <2>2, NewInstallIsGood, SimpleIsGood DEF G
  <2>4. IsInstallOf(NewInstall(p, {}, TRUE), p)
    BY DEF IsInstallOf, NewInstall, InstallItem
  <2>5. installs[i] = NewInstall(p, {}, TRUE)
    OBVIOUS
  <2> HIDE DEF p, installs
  <2> QED
    BY <2>3, <2>4, <2>5 DEF p
<1>8. ASSUME NEW i \in DOMAIN unwanted
      PROVE  removals[i] \in G /\ IsRemovalOf(removals[i], unwanted[i])
  <2>1. unwanted[i] \in Pkg /\ unwanted[i] \in request.remove
    BY <1>3, <1>4, ElementsOfSequence
  <2>2. Justified(unwanted[i])
    BY <2>1 DEF Justified
  <2> QED
    BY <2>1, <2>2, RemovalIsGood, SimpleIsGood DEF G
<1>9. installs \in Seq(G) /\ removals \in Seq(G)
  BY <1>4, <1>7, <1>8, MappedType
<1>10. Verifications(request) \in Seq(G)
  <2>1. ASSUME NEW i \in DOMAIN listed PROVE verified[i] \in G
    <3>1. listed[i][1] \in Pkg /\ listed[i][3] \in Dep
      BY <1>5
    <3>2. verified[i] \in {ConflictItem(listed[i][3], listed[i][1], FALSE),
                           RequireItem(listed[i][3], listed[i][1], FALSE, FALSE, NONE)}
      BY DEF VerifyItem
    <3> QED
      BY <3>1, <3>2, RequireIsGood, SimpleIsGood DEF G
  <2>2. verified \in Seq(G) /\ <<>> \in Seq(G)
    BY <1>5, <2>1, MappedType
  <2>3. Verifications(request) = IF request.verifying THEN verified ELSE <<>>
    BY DEF Verifications, Map, listed
  <2> HIDE DEF verified
  <2> QED
    BY <2>2, <2>3
<1>11. Extras(request) \in Seq(G)
  <2>1. \A i \in DOMAIN deps : requires[i] \in G
    BY <1>6, ElementsOfSequence, RequireIsGood, SimpleIsGood DEF G
  <2>2. \A i \in DOMAIN opposed : conflicts[i] \in G
    BY <1>6, ElementsOfSequence, RequireIsGood, SimpleIsGood DEF G
  <2>3. requires \in Seq(G) /\ conflicts \in Seq(G)
    BY <1>6, <2>1, <2>2, MappedType
  <2>4. Extras(request) = requires \o conflicts
    BY DEF Extras, Map, deps, opposed
  <2> HIDE DEF requires, conflicts
  <2> QED
    BY <2>3, <2>4
<1>12. InitialQueue(request) = Queue(c, Reverse(items))
  BY DEF InitialQueue, RequestedInstalls, RequestedRemovals, Map, wanted, unwanted, comers, goers, c
<1>13. \A i \in DOMAIN wanted : installs[i] \in ToSet(installs)
  BY DEF ToSet
<1>14. \A i \in DOMAIN unwanted : removals[i] \in ToSet(removals)
  BY DEF ToSet
<1> HIDE DEF installs, removals
<1>15. /\ items \in Seq(G) /\ Reverse(items) \in Seq(G)
       /\ ToSet(installs) \cup ToSet(removals) \subseteq I
  <2> DEFINE first == installs \o removals
             second == first \o Verifications(request)
  <2>1. first \in Seq(G) /\ ToSet(first) = ToSet(installs) \cup ToSet(removals)
    BY <1>9, ConcatAll
  <2> HIDE DEF first
  <2>2. second \in Seq(G) /\ ToSet(second) = ToSet(first) \cup ToSet(Verifications(request))
    BY <1>10, <2>1, ConcatAll
  <2> HIDE DEF second
  <2>3. items = second \o Extras(request)
    BY DEF second, first
  <2>4. items \in Seq(G) /\ ToSet(items) = ToSet(second) \cup ToSet(Extras(request))
    BY <1>11, <2>2, <2>3, ConcatAll
  <2> HIDE DEF items
  <2>5. Reverse(items) \in Seq(G) /\ I = ToSet(items)
    BY <2>4, ReverseType, ReverseAll
  <2> HIDE DEF I
  <2> QED
    BY <2>1, <2>2, <2>4, <2>5
<1> HIDE DEF items
<1>16. \A item \in I : ItemInv(c, item)
  <2>1. \A item \in I : item \in G
    BY <1>15, ElementsOfSequence DEF ToSet
  <2> QED
    BY <2>1 DEF G, GoodItems
<1> HIDE DEF I
<1>17. StatusInv(c)
  BY <1>2 DEF StatusInv, IsUsable, Final
<1>18. \A p \in Pkg : GetStatus(c, p) \notin ToBeInstalled
  BY <1>2 DEF ToBeInstalled
<1>19. ConflictsInv(c, I) /\ ParallelInv(c, I)
  BY <1>18 DEF ConflictsInv, ParallelInv
<1>20. InstallsInv(c, I)
  <2> SUFFICES ASSUME NEW p \in request.install \ world.installed
               PROVE  \E item \in I : IsInstallOf(item, p)
    BY DEF InstallsInv
  <2>1. PICK i \in DOMAIN wanted : wanted[i] = p
    BY <1>3, <1>4 DEF ToSet
  <2> QED
    BY <1>7, <1>13, <1>15, <2>1
<1>21. RemovesInv(c, I)
  <2> SUFFICES ASSUME NEW p \in request.remove \cap world.installed
               PROVE  \E item \in I : IsRemovalOf(item, p)
    BY DEF RemovesInv, Doomed
  <2>1. PICK i \in DOMAIN unwanted : unwanted[i] = p
    BY <1>3, <1>4 DEF ToSet
  <2> QED
    BY <1>8, <1>14, <1>15, <2>1
<1>22. Good(c, I) /\ ~c.invalid
  BY <1>2, <1>16, <1>17, <1>19, <1>20, <1>21 DEF Good, IsUsable
<1> QED
  BY <1>12, <1>22 DEF GoodQueue, Queue, I

\* A copy of an item, over a child context, is for what the item is for, and
\* so is an install item that is charged for its channel.
LEMMA CopyIsGood ==
  ASSUME NEW c, NEW e, \A r \in Pkg : Taken(c, r) => Taken(e, r),
         NEW item \in ItemType, ItemInv(c, item)
  PROVE  /\ ItemInv(e, CopyItem(item))
         /\ \A penalty : CopyItem(item).type = "install" =>
              ItemInv(e, [CopyItem(item) EXCEPT !.penalty = penalty])
<1>1. ItemInv(e, item)
  BY ItemInvStays
<1>2. CASE item \in BranchItems
  <2> DEFINE back == Reverse(item.possible)
             copy == [item EXCEPT !.possible = back]
  <2>1. item.type = "branch" /\ item.possible \in Seq(SimpleItemType)
    BY <1>2 DEF BranchItems
  <2>2. \A i \in DOMAIN item.possible : SimpleInv(e, item.possible[i])
    BY <1>1, <2>1 DEF ItemInv
  <2>3. back \in Seq(SimpleItemType) /\ ToSet(back) = ToSet(item.possible)
    BY <2>1, ReverseType, ReverseAll
  <2> HIDE DEF back
  <2>4. \A i \in DOMAIN back : SimpleInv(e, back[i])
    BY <2>2, <2>3 DEF ToSet
  <2>5. copy.type = "branch" /\ copy.possible = back
    BY <1>2, <2>1 DEF BranchItems
  <2>6. CopyItem(item) = copy
    BY <2>1 DEF CopyItem, back
  <2> QED
    BY <2>4, <2>5, <2>6 DEF ItemInv
<1>3. CASE item \in InstallItems
  <2> DEFINE copy == [item EXCEPT !.explicit = FALSE]
             paid(penalty) == [copy EXCEPT !.penalty = penalty]
  <2>1. SimpleInv(e, item) /\ item.type = "install"
    BY <1>1, <1>3 DEF ItemInv, InstallItems
  <2>2. /\ copy.type = "install" /\ copy.package = item.package /\ copy.explicit = FALSE
        /\ copy.upgrades = item.upgrades
    BY <1>3 DEF InstallItems
  <2>3. \A penalty : /\ paid(penalty).type = "install" /\ paid(penalty).package = item.package
                    /\ paid(penalty).explicit = FALSE /\ paid(penalty).upgrades = item.upgrades
    BY <1>3 DEF InstallItems
  <2>4. CopyItem(item) = copy
    BY <2>1 DEF CopyItem
  <2>5. SimpleInv(e, copy) /\ ItemInv(e, copy)
    <3> HIDE DEF copy
    <3> QED
      BY <2>1, <2>2 DEF SimpleInv, ItemInv
  <2>6. ASSUME NEW penalty PROVE ItemInv(e, paid(penalty))
    <3> HIDE DEF paid
    <3> QED
      BY <2>1, <2>3 DEF SimpleInv, ItemInv
  <2> QED
    BY <2>4, <2>5, <2>6
<1>4. CASE item \in RequireItems \cup ConflictItems \cup UninstallItems
  <2> DEFINE copy == CopyItem(item)
  <2>1. /\ copy.type = item.type /\ item.type \in {"require", "conflict", "uninstall"}
        /\ item.type = "require" => copy.requiring = item.requiring /\ copy.upgraded = item.upgraded
        /\ item.type = "uninstall" => copy = item
    BY <1>4, CopyOfOthers
  <2> HIDE DEF copy
  <2>2. SimpleInv(e, copy)
    BY <1>1, <2>1 DEF SimpleInv, ItemInv
  <2>3. ItemInv(e, copy) /\ copy.type # "install"
    BY <2>1, <2>2 DEF ItemInv
  <2> QED
    BY <2>3 DEF copy
<1> QED
  BY <1>2, <1>3, <1>4 DEF ItemType, SimpleItemType

\* The queue of an alternative is good: nothing is owed that a branch does.
LEMMA AlternativeGood ==
  ASSUME TypeOK, ~cur.context.invalid, Good(cur.context, Owed), cur.new = <<>>,
         \A i \in DOMAIN cur.items : cur.items[i].type = "branch",
         NEW item \in SimpleItemType, SimpleInv(cur.context, item)
  PROVE  GoodQueue(Alternative(item))
<1> DEFINE c     == cur.context
           e     == NewChild(c)
           copy  == CopyItem(item)
           paid  == IF copy.type = "install"
                    THEN [copy EXCEPT !.penalty = -PriorityOf[copy.package]] ELSE copy
           items == [i \in DOMAIN cur.items |-> IF i = FirstBranch THEN paid ELSE CopyItem(cur.items[i])]
<1>1. /\ c \in ContextType /\ cur.items \in Seq(ItemType)
      /\ request \in RequestType /\ world \in WorldType
  BY DEF TypeOK, WorkingType
<1>2. /\ \A x \in Owed : x.type = "branch"
      /\ \A i \in DOMAIN cur.items : ItemInv(c, cur.items[i])
  <2>1. ToSet(cur.new) = {}
    BY DEF ToSet
  <2>2. Owed = ToSet(cur.items)
    BY <2>1 DEF Owed
  <2>3. \A i \in DOMAIN cur.items : cur.items[i] \in ToSet(cur.items)
    BY DEF ToSet
  <2> QED
    BY <2>2, <2>3 DEF ToSet, Good
<1>3. Good(c, {}) /\ IsUsable(c)
  <2>1. Good(c, {})
    BY <1>2, GoodWithoutBranches
  <2> QED
    BY <1>1, <2>1 DEF Good, StatusInv, IsUsable
<1>4. /\ \A q \in Pkg : GetStatus(e, q) = GetStatus(c, q)
      /\ e.verifying = c.verifying /\ ~e.invalid /\ e.chain # <<>>
  <2>1. \A q \in Pkg : GetStatus(e, q) = GetStatus(c, q)
    BY <1>3, NewChildStatus
  <2>2. e.chain = <<Unmarked>> \o c.chain /\ e.verifying = c.verifying /\ ~e.invalid
    BY <1>1 DEF NewChild, ContextType
  <2>3. c.chain \in Seq([Pkg -> Mark])
    BY <1>1 DEF ContextType
  <2>4. Len(<<Unmarked>> \o c.chain) = 1 + Len(c.chain) /\ Len(c.chain) \in Nat
    BY <2>3
  <2>5. e.chain # <<>>
    BY <2>2, <2>4
  <2> QED
    BY <2>1, <2>2, <2>5
<1>5. \A q \in Pkg : Taken(c, q) => Taken(e, q)
  BY <1>4 DEF Taken
<1> HIDE DEF c, e
<1>6. ItemInv(e, paid)
  <2>1. item \in ItemType /\ ItemInv(c, item)
    BY SimpleIsGood DEF GoodSimple, GoodItems, c
  <2>2. ItemInv(e, copy) /\ \A penalty : copy.type = "install" => ItemInv(e, [copy EXCEPT !.penalty = penalty])
    BY <1>5, <2>1, CopyIsGood
  <2> HIDE DEF copy
  <2> QED
    BY <2>2
<1>7. \A i \in DOMAIN cur.items : ItemInv(e, CopyItem(cur.items[i]))
  BY <1>1, <1>2, <1>5, CopyIsGood, ElementsOfSequence
<1> HIDE DEF paid
<1>8. \A x \in ToSet(items) : ItemInv(e, x)
  BY <1>6, <1>7 DEF ToSet
<1>9. Alternative(item) = [context |-> e, items |-> items]
  BY DEF Alternative, Queue, paid, e, c
<1> HIDE DEF items
<1>10. Good(e, ToSet(items))
  BY <1>1, <1>3, <1>4, <1>8, GoodGrows
<1> QED
  BY <1>4, <1>9, <1>10 DEF GoodQueue

\* In a turn of the loop, what was put in its place stays good.
LEMMA TurnGood ==
  ASSUME NEW S, NEW P \in Seq(S), NEW D \in Seq(S), NEW C,
         GoodQueues(P), GoodQueues(D), \A i \in DOMAIN C : Good(C[i], {}),
         Turn(P, D, C)
  PROVE  GoodInv'
<1>1. world' = world /\ request' = request /\ pc' = "loop" /\ complete' = C
  BY DEF Turn
<1>2. \A c, I : Good(c, I)' <=> Good(c, I)
  BY <1>1, GoodUnmoved
<1>3. GoodQueues(pending') /\ GoodQueues(deferred')
  <2>1. ASSUME D # <<>>
        PROVE  GoodQueues(<<Head(D)>>) /\ GoodQueues(Tail(D))
    <3>1. Len(D) \in Nat \ {0} /\ 1 \in DOMAIN D /\ Head(D) = D[1]
      BY <2>1
    <3>2. \A i \in DOMAIN Tail(D) : i + 1 \in DOMAIN D /\ Tail(D)[i] = D[i + 1]
      BY <2>1
    <3>3. DOMAIN <<Head(D)>> = {1} /\ <<Head(D)>>[1] = Head(D)
      OBVIOUS
    <3> QED
      BY <3>1, <3>2, <3>3 DEF GoodQueues
  <2>2. /\ pending' \in {P, <<Head(D)>>} /\ deferred' \in {D, Tail(D)}
        /\ (pending' = P \/ D # <<>>) /\ (deferred' = D \/ D # <<>>)
    BY DEF Turn
  <2> QED
    BY <2>1, <2>2
<1>4. (GoodQueues(pending) /\ GoodQueues(deferred))'
  BY <1>2, <1>3 DEF GoodQueues, GoodQueue
<1>5. (\A i \in DOMAIN complete : Good(complete[i], {}))'
  BY <1>1, <1>2
<1> QED
  BY <1>1, <1>4, <1>5 DEF GoodInv

\* Splitting a good queue of branches makes good queues.
LEMMA SplitGood == ASSUME TypeOK, OnlyBranchesAreSplit, GoodInv, Split PROVE GoodInv'
<1> DEFINE alternatives == IF Branches = {} THEN <<>> ELSE cur.items[FirstBranch].possible
           unlikely     == ToDefer(alternatives)
           order(I)     == Reverse(Listed(I, [i \in DOMAIN alternatives |-> i]))
           queues(s)    == [k \in DOMAIN s |-> Alternative(alternatives[s[k]])]
           Best         == {q \in QueueType : GoodQueue(q)}
           P == queues(order(DOMAIN alternatives \ unlikely)) \o pending
           D == queues(order(unlikely)) \o deferred
<1>1. /\ cur \in WorkingType /\ cur.items \in Seq(ItemType)
      /\ pending \in Seq(QueueType) /\ deferred \in Seq(QueueType)
  BY DEF TypeOK, WorkingType
<1>2. /\ ~cur.context.invalid /\ Good(cur.context, Owed) /\ cur.new = <<>>
      /\ \A i \in DOMAIN cur.items : cur.items[i].type = "branch"
  BY DEF Split, GoodInv, OnlyBranchesAreSplit, Branches
<1>3. /\ alternatives \in Seq(SimpleItemType)
      /\ \A i \in DOMAIN alternatives : SimpleInv(cur.context, alternatives[i])
  <2>1. CASE Branches = {}
    BY <2>1
  <2>2. CASE Branches # {}
    <3>1. Branches \in SUBSET Nat
      BY <1>1 DEF Branches
    <3>2. \E i \in Branches : \A j \in Branches : i <= j
      BY <2>2, <3>1, SmallestExists
    <3>3. FirstBranch \in Branches
      BY <3>2 DEF FirstBranch
    <3> DEFINE branch == cur.items[FirstBranch]
    <3>4. branch \in ItemType /\ branch.type = "branch" /\ branch \in Owed
      BY <1>1, <3>3 DEF Branches, Owed, ToSet
    <3> HIDE DEF branch
    <3>5. branch \in BranchItems
      BY <3>4 DEF ItemType, SimpleItemType, InstallItems, RequireItems, ConflictItems, UninstallItems
    <3>6. ItemInv(cur.context, branch)
      BY <1>2, <3>4 DEF Good
    <3> QED
      BY <2>2, <3>4, <3>5, <3>6 DEF BranchItems, ItemInv, branch
  <2> QED
    BY <2>1, <2>2
<1>4. unlikely \in SUBSET DOMAIN alternatives
  BY DEF ToDefer
<1>5. Turn(P, D, complete)
  BY DEF Split
<1> HIDE DEF alternatives, unlikely
<1>6. ASSUME NEW I \in SUBSET DOMAIN alternatives
      PROVE  queues(order(I)) \in Seq(Best)
  <2>1. DOMAIN alternatives = 1..Len(alternatives) /\ Len(alternatives) \in Nat
    BY <1>3
  <2>2. Listed(I, [i \in DOMAIN alternatives |-> i]) \in Seq(DOMAIN alternatives)
    BY <2>1, ListedIndices
  <2>3. order(I) \in Seq(DOMAIN alternatives)
    BY <2>2, ReverseType
  <2> HIDE DEF order
  <2>4. ASSUME NEW k \in DOMAIN order(I) PROVE queues(order(I))[k] \in Best
    <3> DEFINE item == alternatives[order(I)[k]]
    <3>1. item \in SimpleItemType /\ SimpleInv(cur.context, item)
      BY <1>3, <2>3, ElementsOfSequence
    <3> HIDE DEF item
    <3>2. Alternative(item) \in QueueType /\ GoodQueue(Alternative(item))
      BY <1>1, <1>2, <3>1, AlternativeType, AlternativeGood
    <3> QED
      BY <3>2 DEF item
  <2> QED
    BY <2>3, <2>4, MappedType
<1> HIDE DEF order, queues
<1>7. pending \in Seq(Best) /\ deferred \in Seq(Best)
  <2>1. /\ \A i \in DOMAIN pending : pending[i] \in Best
        /\ \A i \in DOMAIN deferred : deferred[i] \in Best
    BY <1>1, ElementsOfSequence DEF GoodInv, GoodQueues
  <2> HIDE DEF Best
  <2> QED
    BY <1>1, <2>1
<1>8. \A q \in Best : GoodQueue(q)
  OBVIOUS
<1> HIDE DEF Best
<1>9. P \in Seq(Best) /\ D \in Seq(Best)
  <2>1. /\ queues(order(DOMAIN alternatives \ unlikely)) \in Seq(Best)
        /\ queues(order(unlikely)) \in Seq(Best)
    BY <1>4, <1>6
  <2> QED
    BY <1>7, <2>1
<1> HIDE DEF P, D
<1>10. GoodQueues(P) /\ GoodQueues(D)
  BY <1>8, <1>9, ElementsOfSequence DEF GoodQueues
<1> QED
  BY <1>5, <1>9, <1>10, TurnGood DEF GoodInv

\* Processing an item leaves a good queue.
LEMMA StepGood == ASSUME TypeOK, GoodInv, NEW type, Step(type) PROVE GoodInv'
<1> DEFINE c     == cur.context
           item  == cur.items[NextItem]
           out   == ProcessItem(c, item)
           left  == RemoveAt(cur.items, NextItem)
           added == cur.new \o out.items
           I     == Owed
           J     == ToSet(left) \cup ToSet(added)
<1>1. /\ c \in ContextType /\ cur.items \in Seq(ItemType) /\ cur.new \in Seq(ItemType)
      /\ world \in WorldType /\ request \in RequestType
      /\ pc = "process" /\ ~c.invalid /\ Good(c, I)
  BY DEF TypeOK, WorkingType, Step, GoodInv
<1>2. NextItem \in DOMAIN cur.items
  BY <1>1, NextItemExists DEF Step
<1>3. item \in ItemType
  BY <1>1, <1>2, ElementsOfSequence
<1>4. out.items \in Seq(ItemType)
  BY <1>1, <1>3, ProcessItemFollows DEF Follows, OutcomeType
<1>5. /\ cur'.context = out.context /\ cur'.items = left /\ cur'.new = added
      /\ pc' = IF out.aborted THEN "aborted" ELSE pc
      /\ UNCHANGED <<world, request, pending, deferred, complete>>
  BY DEF Step
<1>6. I \in SUBSET ItemType /\ item \in I
  BY <1>1, <1>2, ElementsOfSequence DEF Owed, ToSet
<1>7. /\ ToSet(left) \subseteq ToSet(cur.items)
      /\ \A x \in ToSet(cur.items) : x # item => x \in ToSet(left)
  BY <1>1, <1>2, RemoveAtAll
<1> HIDE DEF out, left, c, item
<1>8. ToSet(added) = ToSet(cur.new) \cup ToSet(out.items)
  BY <1>1, <1>4, ConcatAll
<1> HIDE DEF added
<1>9. /\ J \subseteq I \cup ToSet(out.items) /\ ToSet(out.items) \subseteq J
      /\ \A old \in I : old # item => old \in J
  BY <1>7, <1>8 DEF Owed
<1>10. ASSUME ~out.aborted, ~out.context.invalid PROVE Good(out.context, J)
  <2> HIDE DEF I, J
  <2> QED
    BY <1>1, <1>6, <1>9, <1>10, ItemKeepsGood DEF out
<1>11. \A x, X : Good(x, X)' <=> Good(x, X)
  BY <1>5, GoodUnmoved
<1>12. Owed' = J
  BY <1>5 DEF Owed
<1>13. (pc \in {"process", "classify"} /\ ~cur.context.invalid => Good(cur.context, Owed))'
  <2>1. pc' = "process" /\ ~cur'.context.invalid => Good(cur'.context, Owed')
    <3> HIDE DEF J
    <3> QED
      BY <1>1, <1>5, <1>10, <1>12
  <2>2. pc' # "classify"
    BY <1>1, <1>5
  <2> QED
    BY <1>11, <2>1, <2>2
<1>14. (GoodQueues(pending) /\ GoodQueues(deferred))'
  BY <1>5, <1>11 DEF GoodInv, GoodQueues, GoodQueue
<1>15. (\A i \in DOMAIN complete : Good(complete[i], {}))'
  BY <1>5, <1>11 DEF GoodInv
<1>16. pc' # "classify"
  BY <1>1, <1>5
<1> QED
  BY <1>13, <1>14, <1>15, <1>16 DEF GoodInv

\* A pass ends with what is left to do in the queue.
LEMMA EndPassGood == ASSUME TypeOK, GoodInv, EndPass PROVE GoodInv'
<1> DEFINE items == NextItems(cur.new)
<1>1. /\ cur.new \in Seq(ItemType) /\ pc = "process"
      /\ cur.items = <<>> \/ cur.context.invalid
      /\ pc' \in {"process", "classify"}
      /\ UNCHANGED <<world, request, pending, deferred, complete>>
  BY DEF TypeOK, WorkingType, EndPass
<1>2. cur'.context = cur.context /\ cur'.items = items /\ cur'.new = <<>>
  BY DEF EndPass, Working
<1>3. /\ ToSet(items) \subseteq ToSet(cur.new)
      /\ \A x \in ToSet(cur.new) : x.type # "branch" => x \in ToSet(items)
  BY <1>1, NextItemsAll
<1> HIDE DEF items
<1>4. Owed' = ToSet(items)
  BY <1>2 DEF Owed, ToSet
<1>5. ASSUME ~cur.context.invalid PROVE Good(cur.context, ToSet(items))
  <2>1. Owed = ToSet(cur.new)
    BY <1>1, <1>5 DEF Owed, ToSet
  <2> QED
    BY <1>1, <1>3, <1>5, <2>1, GoodWithoutBranches DEF GoodInv
<1>6. \A x, X : Good(x, X)' <=> Good(x, X)
  BY <1>1, GoodUnmoved
<1>7. (pc \in {"process", "classify"} /\ ~cur.context.invalid => Good(cur.context, Owed))'
  <2>1. ~cur'.context.invalid => Good(cur'.context, Owed')
    BY <1>2, <1>4, <1>5
  <2> QED
    BY <1>6, <2>1
<1>8. (GoodQueues(pending) /\ GoodQueues(deferred))'
  BY <1>1, <1>6 DEF GoodInv, GoodQueues, GoodQueue
<1>9. (\A i \in DOMAIN complete : Good(complete[i], {}))'
  BY <1>1, <1>6 DEF GoodInv
<1> QED
  BY <1>2, <1>7, <1>8, <1>9 DEF GoodInv

\* A queue that is taken up is good.
LEMMA PopQueueGood == ASSUME TypeOK, GoodInv, PopQueue PROVE GoodInv'
<1> DEFINE q == Head(pending)
<1>1. /\ pending \in Seq(QueueType) /\ pending # <<>>
      /\ cur' = Working(q.context, q.items, FALSE) /\ pending' = Tail(pending) /\ pc' = "process"
      /\ UNCHANGED <<world, request, deferred, complete>>
  BY DEF TypeOK, PopQueue
<1>2. GoodQueue(q) /\ GoodQueues(Tail(pending))
  <2>1. 1 \in DOMAIN pending /\ q = pending[1]
    BY <1>1
  <2>2. \A i \in DOMAIN Tail(pending) : i + 1 \in DOMAIN pending /\ Tail(pending)[i] = pending[i + 1]
    BY <1>1
  <2> HIDE DEF q
  <2> QED
    BY <2>1, <2>2 DEF GoodInv, GoodQueues
<1> HIDE DEF q
<1>3. cur'.context = q.context /\ cur'.items = q.items /\ cur'.new = <<>>
  BY <1>1 DEF Working
<1>4. Owed' = ToSet(q.items)
  BY <1>3 DEF Owed, ToSet
<1>5. \A x, X : Good(x, X)' <=> Good(x, X)
  BY <1>1, GoodUnmoved
<1>6. Good(cur.context, Owed)'
  BY <1>2, <1>3, <1>4, <1>5 DEF GoodQueue
<1>7. (GoodQueues(pending) /\ GoodQueues(deferred))'
  BY <1>1, <1>2, <1>5 DEF GoodInv, GoodQueues, GoodQueue
<1>8. (\A i \in DOMAIN complete : Good(complete[i], {}))'
  BY <1>1, <1>5 DEF GoodInv
<1> QED
  BY <1>1, <1>6, <1>7, <1>8 DEF GoodInv

\* Every step keeps every queue and every solution good.
LEMMA AlwaysGood == Spec => []GoodInv
<1>1. Init => GoodInv
  <2> SUFFICES ASSUME Init PROVE GoodInv
    OBVIOUS
  <2>1. world \in WorldType /\ request \in RequestType
    BY UniverseAssumption, RequestAssumption DEF Init
  <2>2. GoodQueue(InitialQueue(request))
    BY <2>1, InitialQueueGood
  <2>3. pending = <<InitialQueue(request)>> /\ deferred = <<>> /\ complete = <<>> /\ pc = "loop"
    BY DEF Init
  <2>4. GoodQueues(pending) /\ GoodQueues(deferred)
    BY <2>2, <2>3 DEF GoodQueues
  <2> QED
    BY <2>3, <2>4 DEF GoodInv
<1>2. TypeOK /\ OnlyBranchesAreSplit /\ GoodInv /\ [Next]_vars => GoodInv'
  <2> SUFFICES ASSUME TypeOK, OnlyBranchesAreSplit, GoodInv, [Next]_vars PROVE GoodInv'
    OBVIOUS
  <2>1. CASE PopQueue
    BY <2>1, PopQueueGood
  <2>2. ASSUME NEW type, Step(type) PROVE GoodInv'
    BY <2>2, StepGood
  <2>3. CASE EndPass
    BY <2>3, EndPassGood
  <2>4. CASE Reject \/ Prune
    <3>1. Turn(pending, deferred, complete)
      BY <2>4 DEF Reject, Prune
    <3> QED
      BY <3>1, TurnGood DEF GoodInv, TypeOK
  <2>5. CASE Complete
    <3> DEFINE found == <<cur.context>> \o complete
    <3>1. Turn(pending, deferred, found)
      BY <2>5 DEF Complete
    <3>2. Good(cur.context, {})
      <4>1. /\ pc = "classify" /\ ~cur.context.invalid /\ cur.items = <<>> /\ cur.new = <<>>
        BY <2>5 DEF Complete, IsSolution, GoodInv
      <4>2. Owed = {}
        BY <4>1 DEF Owed, ToSet
      <4> QED
        BY <4>1, <4>2 DEF GoodInv
    <3>3. complete \in Seq(ContextType)
      BY DEF TypeOK
    <3>4. \A i \in DOMAIN found : \/ found[i] = cur.context
                                  \/ i - 1 \in DOMAIN complete /\ found[i] = complete[i - 1]
      BY <3>3
    <3> HIDE DEF found
    <3>5. \A i \in DOMAIN found : Good(found[i], {})
      BY <3>2, <3>4 DEF GoodInv
    <3> QED
      BY <3>1, <3>5, TurnGood DEF GoodInv, TypeOK
  <2>6. CASE Split
    BY <2>6, SplitGood
  <2>7. CASE Timeout \/ Finish \/ UNCHANGED vars
    <3>1. /\ UNCHANGED <<world, request, pending, deferred, complete, cur>>
          /\ pc' = "done" \/ pc' = pc
      BY <2>7 DEF Timeout, Finish, vars, resolverVars
    <3>2. \A x, X : Good(x, X)' <=> Good(x, X)
      BY <3>1, GoodUnmoved
    <3>3. Owed' = Owed
      BY <3>1 DEF Owed
    <3>4. (GoodQueues(pending) /\ GoodQueues(deferred))'
      BY <3>1, <3>2 DEF GoodInv, GoodQueues, GoodQueue
    <3>5. (\A i \in DOMAIN complete : Good(complete[i], {}))'
      BY <3>1, <3>2 DEF GoodInv
    <3>6. pc' \in {"process", "classify"} /\ ~cur'.context.invalid => Good(cur'.context, Owed')
      BY <3>1, <3>3 DEF GoodInv
    <3> QED
      BY <3>1, <3>2, <3>4, <3>5, <3>6 DEF GoodInv
  <2> QED
    BY <2>1, <2>2, <2>3, <2>4, <2>5, <2>6, <2>7
       DEF Next, Work, InstallStep, RequireStep, ConflictStep, UninstallStep, BranchStep, Terminated
<1> QED
  BY <1>1, <1>2, TypeCorrect, OnlyBranchesRemain, PTL DEF Spec

\* What the user asked for is in every solution, and a locked package only goes
\* when the user asked for that (rc_queue_item_install_process,
\* rc_queue_item_uninstall_process), whatever is installed and asked for.
THEOREM RequestsHonoured == Spec => []RequestsAreHonoured
<1>1. TypeOK /\ GoodInv => RequestsAreHonoured
  <2> SUFFICES ASSUME TypeOK, GoodInv PROVE Honoured /\ LocksHold
    BY DEF RequestsAreHonoured
  <2> SUFFICES ASSUME NEW c \in Solutions
               PROVE  /\ \A p \in request.install \ world.installed :
                           IsPresent(c, p) \/ LostUpgrade(c, p) \/ TakenBack(c, p)
                      /\ \A p \in request.remove \cap world.installed : IsAbsent(c, p)
                      /\ \A p \in world.locked \cap Gone(c) : Justified(p)
    BY DEF Honoured, LocksHold, Justified
  <2>1. Good(c, {})
    BY DEF GoodInv, Solutions
  <2>2. \A p \in request.install \ world.installed :
          IsPresent(c, p) \/ LostUpgrade(c, p) \/ TakenBack(c, p)
    BY <2>1 DEF Good, InstallsInv, IsPresent
  <2>3. \A p \in request.remove \cap world.installed : IsAbsent(c, p)
    BY <2>1 DEF Good, RemovesInv, Doomed, Final, IsAbsent, ToBeUninstalled
  <2>4. ASSUME NEW p \in world.locked \cap Gone(c) PROVE Justified(p)
    <3>1. p \in world.installed \cap world.locked /\ IsAbsent(c, p) /\ p \in Pkg
      BY DEF Gone, TypeOK, WorldType
    <3>2. GetStatus(c, p) # "INSTALLED"
      BY <3>1 DEF IsAbsent, ToBeUninstalled
    <3> QED
      BY <2>1, <3>1, <3>2 DEF Good, StatusInv
  <2> QED
    BY <2>2, <2>3, <2>4
<1> QED
  BY <1>1, AlwaysGood, TypeCorrect, PTL

\* What a solution adds conflicts with nothing that is there, in either
\* direction, and versions of a package only come together as upgrades
\* (rc_queue_item_conflict_process, rc_resolver_context_is_parallel_install).
THEOREM SolutionsGoTogether == Spec => []GoTogether
<1>1. TypeOK /\ GoodInv => GoTogether
  <2> SUFFICES ASSUME TypeOK, GoodInv PROVE NoNewConflicts /\ ParallelOnlyAsUpgrades
    BY DEF GoTogether
  <2>1. \A c \in Solutions : Good(c, {})
    BY DEF GoodInv, Solutions
  <2>2. \A c, q : Doomed(c, {}, q) => ~IsPresent(c, q)
    BY DEF Doomed, Final, IsPresent, ToBeInstalled
  <2>3. ASSUME NEW c \in Solutions, NEW p \in Pkg \ world.installed, IsPresent(c, p)
        PROVE  GetStatus(c, p) \in ToBeInstalled /\ OpposedGo(c, {}, p)
    <3>1. GetStatus(c, p) \in ToBeInstalled
      BY <2>1, <2>3 DEF Good, StatusInv, IsPresent, Final, ToBeInstalled
    <3> QED
      BY <2>1, <3>1 DEF Good, ConflictsInv
  <2>4. NoNewConflicts
    <3> SUFFICES ASSUME NEW c \in Solutions, NEW p \in Pkg, NEW q \in Pkg,
                        NEW d \in world.conflicts[p],
                        IsPresent(c, p), IsPresent(c, q), ~SameSpec(p, q), q \in Providers[d]
                 PROVE  p \in world.installed /\ q \in world.installed
      BY DEF NoNewConflicts
    <3>1. ~SameSpec(q, p)
      BY DEF SameSpec
    <3>2. p \notin world.installed => FALSE
      BY <2>2, <2>3, <3>1 DEF OpposedGo
    <3>3. p \in Conflicting(q)
      BY DEF Conflicting
    <3>4. q \notin world.installed => FALSE
      BY <2>2, <2>3, <3>3 DEF OpposedGo
    <3> QED
      BY <3>2, <3>4
  <2>5. ParallelOnlyAsUpgrades
    <3> SUFFICES ASSUME NEW c \in Solutions, NEW p \in Added(c), NEW q \in Added(c),
                        NameOf[p] = NameOf[q], ~SameSpec(p, q), FindInstalledVersion(p) = NONE
                 PROVE  \E r \in Pkg \ world.installed : NameOf[r] = NameOf[p] /\ TakenBack(c, r)
      BY DEF ParallelOnlyAsUpgrades
    <3>1. /\ p \in Pkg \ world.installed /\ q \in Pkg \ world.installed
          /\ GetStatus(c, p) \in ToBeInstalled /\ GetStatus(c, q) \in ToBeInstalled
      BY <2>3 DEF Added
    <3>2. UpgradedBySeveral(c, {}, p)
      BY <2>1, <3>1 DEF Good, ParallelInv
    <3>3. PICK r \in Pkg \ world.installed : NameOf[r] = NameOf[p] /\ Taken(c, r) /\ Doomed(c, {}, r)
      BY <3>2 DEF UpgradedBySeveral
    <3>4. GetStatus(c, r) \in Final
      BY <3>3 DEF Doomed
    <3>5. c.verifying
      BY <3>3, <3>4 DEF Taken, Final
    <3>6. request.verifying
      BY <2>1, <3>5 DEF Good
    <3>7. TakenBack(c, r)
      BY <3>3, <3>4, <3>6 DEF TakenBack, Final, ToBeUninstalled
    <3> QED
      BY <3>3, <3>7
  <2> QED
    BY <2>4, <2>5
<1> QED
  BY <1>1, AlwaysGood, TypeCorrect, PTL


-----------------------------------------------------------------------------
(***************************************************************************)
(* Requirements.  What a package must have is met, or excused by one of    *)
(* the exceptions of RequirementsAreMet, or some item of the queue will    *)
(* see to it: it answers the requirement.  Met says so of a context and    *)
(* the items that are still to be processed, ReqEffect what processing an  *)
(* item does for it, and EffectKeepsMet that this is enough.               *)
(***************************************************************************)

\* A newer version of a package that was there, and goes.
Replaces(c, I, q) == \E r \in Pkg : IsNewer(q, r) /\ Taken(c, r) /\ Doomed(c, I, r)

\* RuledOut, when removals may still be queued.
RuledOutYet(c, I, q) ==
  q \in world.installed /\ GetStatus(c, q) \in ToBeUninstalled /\ Replaces(c, I, q)

Excused(c, I, p, d) ==
  \/ Unavoidable(c, p, d)
  \/ \E r \in Pkg : GetStatus(c, r) \in ToBeUninstalled /\ ChosenFor(c, r, p, d)
  \/ \E q \in Pkg : Helps(c, q, p, d) /\ RuledOutYet(c, I, q)

\* A queue that removes what is to be installed has no solution.
Hopeless(c, I) ==
  \E r \in Pkg : GetStatus(c, r) = "TO_BE_INSTALLED" /\ \E item \in I : IsRemovalOf(item, r)

AsksFor(item, p, d) ==
  item.type = "require" /\ item.dep = d /\ item.requiring = p /\ ~item.isChild

\* An item that asks for what p requires, installs what helps it, or removes p.
AnswersSimple(c, item, p, d) ==
  \/ AsksFor(item, p, d)
  \/ /\ item.type = "install" /\ Helps(c, item.package, p, d)
     /\ \A r \in item.neededBy : r = p \/ ChosenFor(c, r, p, d)
  \/ IsRemovalOf(item, p)

OnlyInstalls(branch) == \A i \in DOMAIN branch.possible : branch.possible[i].type = "install"

AnswersBranch(c, branch, p, d) ==
  /\ branch.possible # <<>>
  /\ \A i \in DOMAIN branch.possible : AnswersSimple(c, branch.possible[i], p, d)
  /\ OnlyInstalls(branch) \/ LostProvider(c, d)

Answers(c, item, p, d) ==
  IF item.type = "branch" THEN AnswersBranch(c, item, p, d) ELSE AnswersSimple(c, item, p, d)

Owing(c, I, p, d) ==
  \/ RequirementIsMet(c, d, FALSE)
  \/ Excused(c, I, p, d)
  \/ Hopeless(c, I)
  \/ \E item \in I : Answers(c, item, p, d)

ReqInv(c, I) == \A p \in Pkg : IsPresent(c, p) => \A d \in MustHave(p) : Owing(c, I, p, d)

\* An installed package is only to be installed softly to replace an older version.
SoftInv(c, I) ==
  \A q \in world.installed : GetStatus(c, q) = "TO_BE_INSTALLED_SOFT" => Replaces(c, I, q)

\* An installed package is only installed to replace an older version, what is required
\* after an upgrade has lost a provider, and every requirement is somebody's.
ReqSimple(c, item) ==
  /\ item.type = "install" /\ item.package \in world.installed =>
       item.upgrades \in Pkg /\ IsNewer(item.package, item.upgrades) /\ item.neededBy = {}
  /\ item.type = "require" =>
       /\ item.upgraded # NONE => LostProvider(c, item.dep)
       /\ item.requiring # NONE =>
            item.dep \in world.requires[item.requiring] \cup world.children[item.requiring]

\* The alternatives of a branch that is there for the sake of r all provide what r requires,
\* and x is not the only one.
ChoiceFor(branch, x, r) ==
  \E e \in world.requires[r] \cup world.children[r] :
    /\ \A i \in DOMAIN branch.possible :
         branch.possible[i].type = "install" /\ branch.possible[i].package \in Providers[e] \ world.installed
    /\ \E i \in DOMAIN branch.possible : ~SameSpec(branch.possible[i].package, x.package)

ReqAlternative(c, branch, x) ==
  /\ ReqSimple(c, x)
  /\ \/ x.type = "install" /\ \A r \in x.neededBy : ChoiceFor(branch, x, r)
     \/ x.type = "uninstall" /\ ~x.unlink /\ Taken(c, x.package)

ReqItem(c, item) ==
  IF item.type = "branch"
  THEN /\ item.possible # <<>>
       /\ \A i \in DOMAIN item.possible : ReqAlternative(c, item, item.possible[i])
  ELSE ReqSimple(c, item)

Met(c, I) == ReqInv(c, I) /\ SoftInv(c, I) /\ \A item \in I : ReqItem(c, item)

-----------------------------------------------------------------------------
(* What processing an item does for requirements *)

Pursued(c, I, p, d) == RequirementIsMet(c, d, FALSE) \/ \E item \in I : AsksFor(item, p, d)

\* e and O are the context and the items that processing item leaves of c.  What goes is
\* looked after, what comes asks for what it requires, and what item was to answer is met,
\* excused or passed on.
ReqEffect(c, item, e, O) ==
  /\ \A q \in Pkg : GetStatus(c, q) \in ToBeUninstalled => GetStatus(e, q) \in ToBeUninstalled
  /\ \A q \in Pkg : IsRemovalOf(item, q) => GetStatus(c, q) # "TO_BE_INSTALLED"
  /\ \A q \in world.installed : GetStatus(e, q) = "TO_BE_INSTALLED_SOFT" =>
       GetStatus(c, q) = "TO_BE_INSTALLED_SOFT" \/ Replaces(e, O, q)
  /\ \A q \in Pkg : IsPresent(c, q) /\ ~IsPresent(e, q) =>
       \/ Forsaken(e, q)
       \/ q \in world.installed /\ GetStatus(c, q) = "TO_BE_INSTALLED_SOFT"
       \/ \A p \in Pkg : \A d \in world.requires[p] :
            IsPresent(e, p) /\ q \in Providers[d] => Pursued(e, O, p, d)
  /\ \A p \in Pkg : IsPresent(e, p) /\ ~IsPresent(c, p) =>
       \A d \in world.requires[p] : Pursued(e, O, p, d)
  /\ \A p \in Pkg, d \in Dep : IsPresent(e, p) /\ AnswersSimple(c, item, p, d) => Owing(e, O, p, d)
  /\ \A new \in O : ReqItem(e, new)

\* What was taken, or is to go, stays so.
Later(c, e) ==
  \A r \in Pkg : /\ Taken(c, r) => Taken(e, r)
                 /\ GetStatus(c, r) \in ToBeUninstalled => GetStatus(e, r) \in ToBeUninstalled


\* What may help stays so.
LEMMA HelpStays ==
  ASSUME NEW c, NEW e, Later(c, e), NEW d \in Dep
  PROVE  /\ LostProvider(c, d) => LostProvider(e, d)
         /\ \A q, p : Helps(c, q, p, d) => Helps(e, q, p, d)
         /\ \A r, p : ChosenFor(c, r, p, d) => ChosenFor(e, r, p, d)
<1>1. Providers[d] \in SUBSET Pkg
  BY UniverseAssumption
<1>2. LostProvider(c, d) => LostProvider(e, d)
  BY <1>1 DEF LostProvider, Later
<1>3. \A q, p : Helps(c, q, p, d) => Helps(e, q, p, d)
  BY <1>2 DEF Helps
<1>4. \A r, p : ChosenFor(c, r, p, d) => ChosenFor(e, r, p, d)
  BY <1>3 DEF ChosenFor
<1> QED
  BY <1>2, <1>3, <1>4

\* What excuses that a requirement is not met stays so, too.
LEMMA ExcuseStays ==
  ASSUME NEW c, NEW e, Later(c, e), NEW d \in Dep, NEW p,
         NEW I, NEW J, \A q \in Pkg : Doomed(c, I, q) => Doomed(e, J, q),
         world \in WorldType
  PROVE  /\ Unavoidable(c, p, d) => Unavoidable(e, p, d)
         /\ \A q \in Pkg : Replaces(c, I, q) => Replaces(e, J, q)
         /\ Excused(c, I, p, d) => Excused(e, J, p, d)
<1>1. /\ LostProvider(c, d) => LostProvider(e, d)
      /\ \A q : Helps(c, q, p, d) => Helps(e, q, p, d)
      /\ \A r : ChosenFor(c, r, p, d) => ChosenFor(e, r, p, d)
  BY HelpStays
<1>2. \A q \in Pkg : Forsaken(c, q) => Forsaken(e, q)
  BY DEF Forsaken, LostUpgrade, TakenBack, Later
<1>3. InSeveralVersions(c, p) => InSeveralVersions(e, p)
  BY DEF InSeveralVersions, Later
<1>4. Unavoidable(c, p, d) => Unavoidable(e, p, d)
  BY <1>1, <1>2, <1>3 DEF Unavoidable
<1>5. \A q \in Pkg : Replaces(c, I, q) => Replaces(e, J, q)
  BY DEF Replaces, Later
<1>6. \A q \in Pkg : RuledOutYet(c, I, q) => RuledOutYet(e, J, q)
  BY <1>5 DEF RuledOutYet, Later
<1>7. (\E r \in Pkg : GetStatus(c, r) \in ToBeUninstalled /\ ChosenFor(c, r, p, d)) =>
        \E r \in Pkg : GetStatus(e, r) \in ToBeUninstalled /\ ChosenFor(e, r, p, d)
  BY <1>1 DEF Later
<1> QED
  BY <1>1, <1>4, <1>5, <1>6, <1>7 DEF Excused

\* An item answers what it answered.
LEMMA AnswerStays ==
  ASSUME NEW c, NEW e, Later(c, e), NEW d \in Dep, NEW p, NEW item
  PROVE  /\ AnswersSimple(c, item, p, d) => AnswersSimple(e, item, p, d)
         /\ Answers(c, item, p, d) => Answers(e, item, p, d)
<1>1. /\ LostProvider(c, d) => LostProvider(e, d)
      /\ \A q : Helps(c, q, p, d) => Helps(e, q, p, d)
      /\ \A r : ChosenFor(c, r, p, d) => ChosenFor(e, r, p, d)
  BY HelpStays
<1>2. \A x : AnswersSimple(c, x, p, d) => AnswersSimple(e, x, p, d)
  BY <1>1 DEF AnswersSimple
<1>3. AnswersBranch(c, item, p, d) => AnswersBranch(e, item, p, d)
  BY <1>1, <1>2 DEF AnswersBranch
<1> QED
  BY <1>2, <1>3 DEF Answers

\* An item stays what requirements need it to be.
LEMMA ReqItemStays ==
  ASSUME NEW c, NEW e, Later(c, e)
  PROVE  /\ \A item \in SimpleItemType : ReqSimple(c, item) => ReqSimple(e, item)
         /\ \A item \in ItemType : ReqItem(c, item) => ReqItem(e, item)
<1>1. ASSUME NEW item \in SimpleItemType, ReqSimple(c, item) PROVE ReqSimple(e, item)
  <2>1. item.type = "require" => item.dep \in Dep
    BY DEF SimpleItemType, InstallItems, RequireItems, ConflictItems, UninstallItems
  <2>2. item.type = "require" /\ LostProvider(c, item.dep) => LostProvider(e, item.dep)
    BY <2>1, HelpStays
  <2> QED
    BY <1>1, <2>2 DEF ReqSimple
<1>2. ASSUME NEW item \in ItemType, ReqItem(c, item) PROVE ReqItem(e, item)
  <2>1. CASE item \in SimpleItemType
    <3>1. item.type # "branch"
      BY <2>1 DEF SimpleItemType, InstallItems, RequireItems, ConflictItems, UninstallItems
    <3> QED
      BY <1>1, <1>2, <2>1, <3>1 DEF ReqItem
  <2>2. CASE item \in BranchItems
    <3>1. item.type = "branch" /\ item.possible \in Seq(SimpleItemType)
      BY <2>2 DEF BranchItems
    <3>2. ASSUME NEW i \in DOMAIN item.possible PROVE ReqAlternative(e, item, item.possible[i])
      <4> DEFINE x == item.possible[i]
      <4>1. x \in SimpleItemType
        BY <3>1, ElementsOfSequence
      <4>2. ReqAlternative(c, item, x)
        BY <1>2, <3>1 DEF ReqItem
      <4>3. ReqSimple(e, x)
        BY <1>1, <4>1, <4>2 DEF ReqAlternative
      <4>4. x.type = "uninstall" => x.package \in Pkg
        BY <4>1 DEF SimpleItemType, InstallItems, RequireItems, ConflictItems, UninstallItems
      <4> HIDE DEF x
      <4>5. x.type = "uninstall" /\ Taken(c, x.package) => Taken(e, x.package)
        BY <4>4 DEF Later
      <4>6. ReqAlternative(e, item, x)
        BY <4>2, <4>3, <4>5 DEF ReqAlternative
      <4> QED
        BY <4>6 DEF x
    <3> QED
      BY <1>2, <3>1, <3>2 DEF ReqItem
  <2> QED
    BY <2>1, <2>2 DEF ItemType
<1> QED
  BY <1>1, <1>2


\* What is owed is owed by any items that do at least as much.
LEMMA OwingGrows ==
  ASSUME NEW c, NEW p, NEW d, NEW I, NEW J, I \subseteq J, Owing(c, I, p, d)
  PROVE  Owing(c, J, p, d)
<1>1. \A q : Doomed(c, I, q) => Doomed(c, J, q)
  BY DEF Doomed
<1>2. \A q : RuledOutYet(c, I, q) => RuledOutYet(c, J, q)
  BY <1>1 DEF RuledOutYet, Replaces
<1>3. Excused(c, I, p, d) => Excused(c, J, p, d)
  BY <1>2 DEF Excused
<1>4. Hopeless(c, I) => Hopeless(c, J)
  BY DEF Hopeless
<1> QED
  BY <1>3, <1>4 DEF Owing

\* What somebody asks for is owed.
LEMMA PursuedIsOwed ==
  ASSUME NEW c, NEW p, NEW d, NEW I, Pursued(c, I, p, d)
  PROVE  Owing(c, I, p, d)
<1>1. ASSUME NEW item \in I, AsksFor(item, p, d) PROVE Answers(c, item, p, d)
  BY <1>1 DEF AsksFor, Answers, AnswersSimple
<1> QED
  BY <1>1 DEF Pursued, Owing

\* Processing an item, taken off the queue as such or as the only alternative
\* of the branch gone, leaves nothing unmet that the items left do not answer.
LEMMA EffectKeepsMet ==
  ASSUME world \in WorldType, NEW c \in ContextType, NEW I \in SUBSET ItemType,
         StatusInv(c), Met(c, I),
         NEW item \in SimpleItemType, NEW e, NEW O, Effect(c, item, e, O), ReqEffect(c, item, e, O),
         NEW J, J \subseteq I \cup O, Keeps(I, item, O, J),
         NEW gone, \A old \in I : old # gone => old \in J,
         \A p, d : Answers(c, gone, p, d) => AnswersSimple(c, item, p, d)
  PROVE  Met(e, J)
<1>1. O \subseteq J /\ \A q \in Pkg : Doomed(c, I, q) => Doomed(e, J, q)
  BY DoomedStays DEF Keeps
<1>2. Later(c, e)
  BY TakenStays DEF Later, ReqEffect
<1>3. e \in ContextType /\ StatusInv(e)
  BY DEF Effect, IsUsable
<1>4. \A q \in Pkg : /\ Replaces(c, I, q) => Replaces(e, J, q)
                     /\ Replaces(e, O, q) => Replaces(e, J, q)
  <2>1. \A q \in Pkg : Replaces(c, I, q) => Replaces(e, J, q)
    BY <1>1, <1>2 DEF Replaces, Later
  <2>2. \A q : Doomed(e, O, q) => Doomed(e, J, q)
    BY <1>1 DEF Doomed
  <2> QED
    BY <2>1, <2>2 DEF Replaces
<1>5. SoftInv(e, J)
  <2>1. world.installed \in SUBSET Pkg
    BY DEF WorldType
  <2> QED
    BY <1>4, <2>1 DEF SoftInv, Met, ReqEffect
<1>6. \A new \in J : ReqItem(e, new)
  BY <1>2, ReqItemStays DEF Met, ReqEffect
<1>7. ASSUME NEW p \in Pkg, IsPresent(e, p), NEW d \in MustHave(p)
      PROVE  Owing(e, J, p, d)
  <2>1. d \in Dep /\ d \in world.requires[p] /\ Providers[d] \in SUBSET Pkg
    BY UniverseAssumption DEF MustHave, WorldType
  <2>2. Pursued(e, O, p, d) => Owing(e, J, p, d)
    BY <1>1, PursuedIsOwed, OwingGrows
  <2>3. CASE ~IsPresent(c, p)
    BY <1>7, <2>1, <2>2, <2>3 DEF ReqEffect
  <2>4. CASE IsPresent(c, p)
    <3>1. Owing(c, I, p, d)
      BY <2>4 DEF Met, ReqInv
    <3>2. ASSUME NEW q \in Providers[d], IsPresent(c, q) PROVE Owing(e, J, p, d)
      <4>1. q \in Pkg /\ Helps(e, q, p, d)
        BY <2>1 DEF Helps
      <4>2. CASE IsPresent(e, q)
        BY <4>2 DEF Owing, RequirementIsMet
      <4>3. CASE Forsaken(e, q)
        BY <4>1, <4>3 DEF Owing, Excused, Unavoidable
      <4>4. CASE q \in world.installed /\ GetStatus(c, q) = "TO_BE_INSTALLED_SOFT" /\ ~IsPresent(e, q)
        <5>1. Replaces(e, J, q)
          BY <1>4, <4>1, <4>4 DEF Met, SoftInv
        <5>2. GetStatus(e, q) \in PackageStatus /\ GetStatus(e, q) # "UNINSTALLED"
          BY <1>3, <4>1, <4>4, StatusType DEF StatusInv
        <5>3. GetStatus(e, q) \in ToBeUninstalled
          BY <4>4, <5>2 DEF PackageStatus, IsPresent
        <5> QED
          BY <4>1, <4>4, <5>1, <5>3 DEF Owing, Excused, RuledOutYet
      <4>5. CASE \A x \in Pkg : \A f \in world.requires[x] :
                   IsPresent(e, x) /\ q \in Providers[f] => Pursued(e, O, x, f)
        BY <1>7, <2>1, <2>2, <3>2, <4>5
      <4> QED
        BY <3>2, <4>1, <4>2, <4>3, <4>4, <4>5 DEF ReqEffect
    <3>3. CASE RequirementIsMet(c, d, FALSE)
      BY <3>2, <3>3 DEF RequirementIsMet
    <3>4. CASE Excused(c, I, p, d)
      <4>1. Excused(e, J, p, d)
        BY <1>1, <1>2, <2>1, <3>4, ExcuseStays
      <4> QED
        BY <4>1 DEF Owing
    <3>5. CASE Hopeless(c, I)
      <4>1. PICK r \in Pkg : /\ GetStatus(c, r) = "TO_BE_INSTALLED"
                             /\ \E old \in I : IsRemovalOf(old, r)
        BY <3>5 DEF Hopeless
      <4>2. PICK old \in I : IsRemovalOf(old, r)
        BY <4>1
      <4>3. old # item /\ old.type # "branch"
        BY <4>1, <4>2 DEF ReqEffect, IsRemovalOf
      <4>4. GetStatus(e, r) = "TO_BE_INSTALLED" /\ old \in J
        BY <4>1, <4>3 DEF Effect, KeepsDecisions, Decided, Keeps
      <4> QED
        BY <4>2, <4>4 DEF Hopeless, Owing
    <3>6. ASSUME NEW old \in I, Answers(c, old, p, d) PROVE Owing(e, J, p, d)
      <4>1. CASE old \in J
        <5>1. Answers(e, old, p, d)
          BY <1>2, <2>1, <3>6, AnswerStays
        <5> QED
          BY <4>1, <5>1 DEF Owing
      <4>2. CASE old \notin J
        <5>1. AnswersSimple(c, item, p, d)
          BY <3>6, <4>2
        <5>2. Owing(e, O, p, d)
          BY <1>7, <2>1, <5>1 DEF ReqEffect
        <5> QED
          BY <1>1, <5>2, OwingGrows
      <4> QED
        BY <4>1, <4>2
    <3> QED
      BY <3>1, <3>3, <3>4, <3>5, <3>6 DEF Owing
  <2> QED
    BY <2>3, <2>4
<1> QED
  BY <1>5, <1>6, <1>7 DEF Met, ReqInv


-----------------------------------------------------------------------------
(* What the items of each type do for requirements *)

\* Of the packages that may be installed for a requirement that is not met, none is there
\* yet, and no two are of one spec.
LEMMA InstallableAreChoices ==
  ASSUME world \in WorldType, NEW c \in ContextType, StatusInv(c), NEW item \in RequireItems,
         ~RequirementIsMet(c, item.dep, item.isChild), NEW s, s = InstallableProviders(c, item)
  PROVE  /\ s \in Seq(Pkg)
         /\ \A i \in DOMAIN s : s[i] \in Providers[item.dep] \ world.installed
         /\ \A i, j \in DOMAIN s : i # j => ~SameSpec(s[i], s[j])
<1> DEFINE providers == (IF item.isChild THEN ExactProviders ELSE Providers)[item.dep]
           ok(p) == /\ GetStatus(c, p) \notin ToBeUninstalled
                    /\ ~IsParallelInstall(c, p)
                    /\ PackageIsPossible(c, p)
                    /\ p \notin world.locked
           found == {p \in providers : ok(p)}
           one   == {p \in found : \A q \in found : SameSpec(q, p) => PkgPosition[p] <= PkgPosition[q]}
           n     == Cardinality(one)
<1>1. /\ item.dep \in Dep /\ item.isChild \in BOOLEAN
      /\ providers \in SUBSET Pkg /\ providers \subseteq Providers[item.dep]
  BY UniverseAssumption DEF RequireItems
<1>2. s = IF item.removeOnly THEN <<>> ELSE InOrder(one)
  BY DEF InstallableProviders
<1>3. ASSUME NEW p \in found PROVE p \in Providers[item.dep] \ world.installed
  <2>1. p \in Pkg /\ p \in Providers[item.dep] /\ GetStatus(c, p) \notin ToBeUninstalled
    BY <1>1
  <2>2. ~IsPresent(c, p)
    <3>1. ~\E q \in (IF item.isChild THEN ExactProviders[item.dep] ELSE Providers[item.dep]) : IsPresent(c, q)
      BY DEF RequirementIsMet
    <3>2. p \in (IF item.isChild THEN ExactProviders[item.dep] ELSE Providers[item.dep])
      OBVIOUS
    <3> QED
      BY <3>1, <3>2
  <2>3. GetStatus(c, p) = "UNINSTALLED"
    BY <2>1, <2>2, StatusType DEF PackageStatus, IsPresent
  <2> QED
    BY <2>1, <2>3 DEF StatusInv
<1> HIDE DEF providers, ok
<1>4. one \in SUBSET Pkg /\ one \subseteq found
  BY <1>1
<1>5. \A p, q \in one : SameSpec(p, q) => p = q
  <2> SUFFICES ASSUME NEW p \in one, NEW q \in one, SameSpec(p, q) PROVE p = q
    OBVIOUS
  <2>1. SameSpec(q, p)
    BY DEF SameSpec
  <2>2. p \in found /\ q \in found
    BY <1>4
  <2>3. PkgPosition[p] <= PkgPosition[q] /\ PkgPosition[q] <= PkgPosition[p]
    BY <2>1, <2>2
  <2>4. PkgPosition[p] \in Int /\ PkgPosition[q] \in Int
    <3>1. DOMAIN PkgSeq \subseteq Int
      BY UniverseAssumption
    <3> QED
      BY <1>4, <3>1, PositionsDiffer
  <2>5. PkgPosition[p] = PkgPosition[q]
    BY <2>3, <2>4
  <2> QED
    BY <1>4, <2>5, PositionsDiffer
<1> HIDE DEF one, found
<1>6. IsFiniteSet(one)
  BY <1>4, UniverseIsFinite, FS_Subset
<1>7. /\ \A x \in one : PkgPosition[x] \in Int
      /\ \A x, y \in one : PkgPosition[x] = PkgPosition[y] => x = y
  <2>1. DOMAIN PkgSeq \subseteq Int
    BY UniverseAssumption
  <2> QED
    BY <1>4, <2>1, PositionsDiffer
<1>8. /\ InOrder(one) \in [1..n -> one]
      /\ \A i, j \in 1..n : InOrder(one)[i] = InOrder(one)[j] => i = j
  BY <1>6, <1>7, ListedOnce DEF InOrder
<1>9. n \in Nat
  BY <1>6, FS_CardinalityType
<1> HIDE DEF n
<1>10. CASE ~item.removeOnly
  <2>1. s = InOrder(one) /\ s \in [1..n -> one] /\ DOMAIN s = 1..n
    BY <1>2, <1>8, <1>10
  <2>2. s \in Seq(Pkg)
    BY <1>4, <1>9, <2>1
  <2>3. \A i \in DOMAIN s : s[i] \in Providers[item.dep] \ world.installed
    BY <1>3, <1>4, <2>1
  <2>4. \A i, j \in DOMAIN s : i # j => ~SameSpec(s[i], s[j])
    BY <1>5, <1>8, <2>1
  <2> QED
    BY <2>2, <2>3, <2>4
<1>11. CASE item.removeOnly
  BY <1>2, <1>11
<1> QED
  BY <1>10, <1>11

\* Uninstall items answer for their package, whatever their other flags are.
LEMMA RemovalAnswers ==
  ASSUME NEW c, NEW item, item.type = "uninstall", NEW d
  PROVE  /\ ReqSimple(c, item) /\ ReqItem(c, item)
         /\ ~item.unlink => AnswersSimple(c, item, item.package, d) /\ Answers(c, item, item.package, d)
BY DEF ReqSimple, ReqItem, AnswersSimple, Answers, IsRemovalOf

\* A package whose requirement cannot be met is upgraded or goes.
LEMMA ReplaceRequirerAnswers ==
  ASSUME world \in WorldType, NEW c \in ContextType, NEW item \in RequireItems,
         SimpleInv(c, item), ReqSimple(c, item),
         NEW out, out = ReplaceRequirer(c, item), ~out.context.invalid
  PROVE  /\ \A new \in ToSet(out.items) : ReqItem(c, new)
         /\ \A p \in Pkg : item.requiring = p =>
              \E new \in ToSet(out.items) : Answers(c, new, p, item.dep)
<1> DEFINE r == item.requiring
           d == item.dep
           upgrades == IF item.upgraded # NONE /\ r # NONE THEN Upgrades(r) ELSE {}
           possible == {u \in upgrades : PackageIsPossible(c, u)}
           settled  == \E u \in possible : \A f \in world.requires[u] : RequirementIsMet(c, f, FALSE)
           goner    == [UninstallItem(r) EXCEPT !.removeOnly = item.removeOnly]
           removal  == IF r # NONE /\ (c.verifying \/ ~settled) THEN <<goner>> ELSE <<>>
           listed   == InOrder(possible)
           installs == [i \in DOMAIN listed |-> InstallItem(listed[i], r, {}, FALSE)]
           both     == installs \o removal
           G        == GoodSimple(c)
<1>1. r \in Pkg \cup {NONE} /\ item.type = "require" /\ item.removeOnly \in BOOLEAN /\ d \in Dep
  BY DEF RequireItems
<1>2. goner.type = "uninstall" /\ goner.package = r /\ ~goner.unlink
  BY DEF UninstallItem
<1>3. ReplaceRequirer(c, item) =
        CASE upgrades # {} -> Outcome(c, <<BranchItem(both)>>)
          [] upgrades = {} /\ removal # <<>> -> Outcome(c, removal)
          [] OTHER -> Outcome(AddError(c), <<>>)
  BY DEF ReplaceRequirer, Map
<1>4. ASSUME upgrades # {}
      PROVE  /\ \A new \in ToSet(out.items) : ReqItem(c, new)
             /\ \A p \in Pkg : r = p => \E new \in ToSet(out.items) : Answers(c, new, p, d)
  <2>1. r \in Pkg /\ Taken(c, r) /\ upgrades = Upgrades(r) /\ LostProvider(c, d)
    BY <1>1, <1>4 DEF SimpleInv, ReqSimple
  <2>2. possible \in SUBSET Pkg /\ possible \subseteq Upgrades(r)
    BY <2>1 DEF Upgrades
  <2>3. listed \in Seq(possible) /\ ToSet(listed) = possible
    BY <2>2, InOrderType, InOrderAll
  <2>4. removal \in {<<>>, <<goner>>} /\ (possible = {} => removal = <<goner>>)
    <3>1. r # NONE /\ (possible = {} => ~settled)
      BY <2>1, UniverseAssumption
    <3> HIDE DEF settled, goner
    <3> QED
      BY <3>1
  <2> HIDE DEF possible, removal, goner, listed
  <2> DEFINE chosen == {InstallItem(u, r, {}, FALSE) : u \in possible}
  <2>5. installs \in Seq(chosen) /\ DOMAIN installs = DOMAIN listed
    <3>1. \A i \in DOMAIN listed : listed[i] \in possible
      BY <2>3, ElementsOfSequence
    <3>2. \A i \in DOMAIN listed : installs[i] \in chosen
      BY <3>1
    <3> HIDE DEF chosen
    <3> QED
      BY <2>3, <3>2, MappedType
  <2>6. \A x \in chosen : \E u \in possible : x = InstallItem(u, r, {}, FALSE)
    OBVIOUS
  <2> HIDE DEF installs, chosen
  <2>7. /\ \A i \in DOMAIN both : (\E u \in possible : both[i] = InstallItem(u, r, {}, FALSE)) \/ both[i] = goner
        /\ both # <<>>
    <3>1. CASE removal = <<goner>>
      <4>1. both = installs \o <<goner>> /\ Len(installs) \in Nat /\ Len(both) = Len(installs) + 1
        BY <2>5, <3>1
      <4>2. \A i \in DOMAIN both : both[i] \in chosen \/ both[i] = goner
        BY <2>5, <4>1
      <4>3. both # <<>>
        BY <4>1
      <4> QED
        BY <2>6, <4>2, <4>3
    <3>2. CASE removal = <<>>
      <4>1. PICK u \in possible : TRUE
        BY <2>4, <3>2
      <4>2. listed # <<>>
        BY <2>3, <4>1 DEF ToSet
      <4>3. both = installs /\ installs # <<>>
        BY <2>3, <2>5, <3>2, <4>2
      <4>4. \A i \in DOMAIN both : both[i] \in chosen
        BY <2>5, <4>3
      <4> QED
        BY <2>6, <4>3, <4>4
    <3> QED
      BY <2>4, <3>1, <3>2
  <2> HIDE DEF both
  <2>8. ASSUME NEW u \in possible, NEW x, x = InstallItem(u, r, {}, FALSE)
        PROVE  AnswersSimple(c, x, r, d) /\ ReqAlternative(c, BranchItem(both), x)
    <3>1. x.type = "install" /\ x.package = u /\ x.upgrades = r /\ x.neededBy = {}
      BY <2>8 DEF InstallItem
    <3>2. IsNewer(u, r)
      BY <2>2 DEF Upgrades, IsNewer
    <3>3. Helps(c, u, r, d)
      BY <2>1, <3>2 DEF Helps
    <3> QED
      BY <2>1, <3>1, <3>2, <3>3 DEF AnswersSimple, ReqAlternative, ReqSimple
  <2>9. AnswersSimple(c, goner, r, d) /\ ReqAlternative(c, BranchItem(both), goner)
    BY <1>2, <2>1, RemovalAnswers DEF ReqAlternative, goner
  <2>10. \A i \in DOMAIN both : AnswersSimple(c, both[i], r, d) /\ ReqAlternative(c, BranchItem(both), both[i])
    BY <2>7, <2>8, <2>9
  <2>11. BranchItem(both).type = "branch" /\ BranchItem(both).possible = both
    BY DEF BranchItem
  <2>12. ReqItem(c, BranchItem(both)) /\ Answers(c, BranchItem(both), r, d)
    BY <2>1, <2>7, <2>10, <2>11 DEF ReqItem, Answers, AnswersBranch
  <2>13. out.items = <<BranchItem(both)>>
    <3> HIDE DEF upgrades
    <3> QED
      BY <1>3, <1>4 DEF Outcome
  <2>14. ToSet(out.items) = {BranchItem(both)}
    BY <2>13 DEF ToSet
  <2> HIDE DEF upgrades
  <2> QED
    BY <2>12, <2>14
<1>5. removal \in {<<>>, <<goner>>}
  <2> HIDE DEF goner, settled
  <2> QED
    OBVIOUS
<1> HIDE DEF upgrades, removal, both, goner
<1>6. CASE upgrades = {} /\ removal # <<>>
  <2>1. out.items = <<goner>>
    BY <1>3, <1>5, <1>6 DEF Outcome
  <2>2. ToSet(out.items) = {goner}
    BY <2>1 DEF ToSet
  <2> QED
    BY <1>2, <2>2, RemovalAnswers
<1>7. CASE upgrades = {} /\ removal = <<>>
  BY <1>3, <1>7, AddErrorIsError DEF Outcome
<1> QED
  BY <1>4, <1>6, <1>7


\* The packages that may be installed for a requirement, one or as a choice, answer it.
LEMMA ChoicesAnswer ==
  ASSUME world \in WorldType, NEW c \in ContextType, StatusInv(c), NEW item \in RequireItems,
         ReqSimple(c, item), ~RequirementIsMet(c, item.dep, item.isChild),
         NEW s, s = InstallableProviders(c, item), s # <<>>,
         NEW installs, installs = [i \in DOMAIN s |-> NewInstall(s[i], {item.requiring} \ {NONE}, FALSE)]
  PROVE  LET O == IF Len(s) = 1 THEN ToSet(installs) ELSE {BranchItem(installs)}
         IN  /\ \A new \in O : ReqItem(c, new)
             /\ \A p \in Pkg : item.requiring = p => \E new \in O : Answers(c, new, p, item.dep)
<1> DEFINE r == item.requiring
           d == item.dep
           branch == BranchItem(installs)
           needers == {r} \ {NONE}
<1>1. /\ s \in Seq(Pkg)
      /\ \A i \in DOMAIN s : s[i] \in Providers[d] \ world.installed
      /\ \A i, j \in DOMAIN s : i # j => ~SameSpec(s[i], s[j])
  BY InstallableAreChoices
<1>2. r \in Pkg \cup {NONE} /\ item.type = "require" /\ NONE \notin Pkg
  BY UniverseAssumption DEF RequireItems
<1>3. DOMAIN s = 1..Len(s) /\ Len(s) \in Nat /\ Len(s) # 0
  BY <1>1
<1>4. /\ DOMAIN installs = DOMAIN s /\ installs # <<>>
      /\ \A i \in DOMAIN s : /\ installs[i].type = "install" /\ installs[i].package = s[i]
                             /\ installs[i].neededBy = needers
  <2>1. \A p, N : /\ NewInstall(p, N, FALSE).type = "install" /\ NewInstall(p, N, FALSE).package = p
                  /\ NewInstall(p, N, FALSE).neededBy = N
    BY DEF NewInstall, InstallItem
  <2>2. DOMAIN installs = DOMAIN s /\ 1 \in DOMAIN installs
    BY <1>3
  <2>3. DOMAIN <<>> = {}
    OBVIOUS
  <2>4. installs # <<>>
    BY <2>2, <2>3, Zenon
  <2> QED
    BY <2>1, <2>2, <2>4
<1>5. ASSUME NEW i \in DOMAIN s
      PROVE  /\ ReqSimple(c, installs[i])
             /\ \A p \in Pkg : r = p => AnswersSimple(c, installs[i], p, d)
  <2>1. s[i] \in Providers[d] /\ s[i] \notin world.installed
    BY <1>1
  <2> QED
    BY <1>4, <2>1 DEF ReqSimple, AnswersSimple, Helps
<1>6. ASSUME Len(s) = 1
      PROVE  ToSet(installs) = {installs[1]} /\ 1 \in DOMAIN s
  <2>1. DOMAIN installs = {1}
    BY <1>3, <1>4, <1>6
  <2> QED
    BY <1>3, <1>6, <2>1 DEF ToSet
<1>7. ASSUME Len(s) = 1
      PROVE  /\ ReqItem(c, installs[1])
             /\ \A p \in Pkg : r = p => Answers(c, installs[1], p, d)
  BY <1>4, <1>5, <1>6, <1>7 DEF ReqItem, Answers
<1>8. ASSUME Len(s) # 1
      PROVE  /\ ReqItem(c, branch)
             /\ \A p \in Pkg : r = p => Answers(c, branch, p, d)
  <2>1. branch.type = "branch" /\ branch.possible = installs
    BY DEF BranchItem
  <2> DEFINE alternatives == branch.possible
  <2>5. /\ DOMAIN alternatives = DOMAIN s
        /\ \A i \in DOMAIN s : alternatives[i].type = "install" /\ alternatives[i].package = s[i]
    BY <1>4, <2>1
  <2> HIDE DEF branch, alternatives
  <2>2. ASSUME NEW i \in DOMAIN s, NEW q \in needers PROVE ChoiceFor(branch, installs[i], q)
    <3>1. q = r /\ r # NONE
      OBVIOUS
    <3>2. d \in world.requires[q] \cup world.children[q]
      BY <1>2, <3>1 DEF ReqSimple
    <3>3. PICK j \in DOMAIN s : j # i
      <4>1. 1 \in DOMAIN s /\ 2 \in DOMAIN s
        BY <1>3, <1>8
      <4> QED
        BY <4>1
    <3>4. j \in DOMAIN branch.possible /\ ~SameSpec(branch.possible[j].package, installs[i].package)
      <4>1. j \in DOMAIN alternatives /\ ~SameSpec(alternatives[j].package, installs[i].package)
        BY <1>1, <1>4, <2>5, <3>3
      <4> QED
        BY <4>1 DEF alternatives
    <3>5. \A k \in DOMAIN branch.possible :
            /\ branch.possible[k].type = "install"
            /\ branch.possible[k].package \in Providers[d] \ world.installed
      <4>1. \A k \in DOMAIN alternatives :
              alternatives[k].type = "install" /\ alternatives[k].package \in Providers[d] \ world.installed
        BY <1>1, <2>5
      <4> QED
        BY <4>1 DEF alternatives
    <3> HIDE DEF d
    <3> QED
      BY <3>2, <3>4, <3>5, Zenon DEF ChoiceFor
  <2>3. \A i \in DOMAIN s : ReqAlternative(c, branch, installs[i])
    BY <1>4, <1>5, <2>2 DEF ReqAlternative
  <2>4. OnlyInstalls(branch)
    BY <1>4, <2>1 DEF OnlyInstalls
  <2> QED
    BY <1>4, <1>5, <2>1, <2>3, <2>4 DEF ReqItem, Answers, AnswersBranch
<1> HIDE DEF branch
<1> QED
  BY <1>6, <1>7, <1>8 DEF branch

\* A require is met, or passed on to what may meet it or do without it.
LEMMA RequireReqEffect ==
  ASSUME world \in WorldType, NEW c, IsUsable(c), StatusInv(c),
         NEW item \in RequireItems, SimpleInv(c, item), ReqSimple(c, item),
         NEW out, out = ProcessRequire(c, item), ~out.context.invalid
  PROVE  ReqEffect(c, item, out.context, ToSet(out.items))
<1> DEFINE s == InstallableProviders(c, item)
           installs == [i \in DOMAIN s |-> NewInstall(s[i], {item.requiring} \ {NONE}, FALSE)]
           met == RequirementIsMet(c, item.dep, item.isChild)
           O == ToSet(out.items)
<1>1. c \in ContextType /\ item.type = "require"
  BY DEF IsUsable, RequireItems
<1>2. /\ met => out = Outcome(c, <<>>)
      /\ ~met /\ s = <<>> => out = ReplaceRequirer(c, item)
      /\ ~met /\ s # <<>> /\ Len(s) = 1 => out = Outcome(c, installs)
      /\ ~met /\ s # <<>> /\ Len(s) # 1 => out = Outcome(c, <<BranchItem(installs)>>)
  BY DEF ProcessRequire, Map
<1> HIDE DEF installs, O, s, met
<1>3. /\ out.context = c
      /\ \A new \in O : ReqItem(c, new)
      /\ \A p \in Pkg : item.requiring = p => met \/ \E new \in O : Answers(c, new, p, item.dep)
  <2>1. CASE met
    <3>1. out.context = c /\ out.items = <<>>
      BY <1>2, <2>1 DEF Outcome
    <3>2. O = {}
      BY <3>1 DEF O, ToSet
    <3> QED
      BY <2>1, <3>1, <3>2
  <2>2. CASE ~met /\ s = <<>>
    <3>1. out = ReplaceRequirer(c, item)
      BY <1>2, <2>2
    <3>2. out.context = c
      BY <1>1, <3>1, ReplaceRequirerItems
    <3> QED
      BY <1>1, <3>1, <3>2, ReplaceRequirerAnswers DEF O
  <2>3. CASE ~met /\ s # <<>>
    <3> DEFINE answers == IF Len(s) = 1 THEN ToSet(installs) ELSE {BranchItem(installs)}
    <3>1. /\ \A new \in answers : ReqItem(c, new)
          /\ \A p \in Pkg : item.requiring = p => \E new \in answers : Answers(c, new, p, item.dep)
      BY <1>1, <2>3, ChoicesAnswer DEF met, s, installs
    <3>2. out.context = c /\ out.items = IF Len(s) = 1 THEN installs ELSE <<BranchItem(installs)>>
      BY <1>2, <2>3 DEF Outcome
    <3>3. ToSet(<<BranchItem(installs)>>) = {BranchItem(installs)}
      BY DEF ToSet
    <3>4. O = answers
      BY <3>2, <3>3 DEF O
    <3> QED
      BY <3>1, <3>2, <3>4
  <2> QED
    BY <2>1, <2>2, <2>3
<1>4. ASSUME NEW p \in Pkg, NEW d \in Dep, AnswersSimple(c, item, p, d) PROVE Owing(c, O, p, d)
  <2>1. item.dep = d /\ item.requiring = p /\ ~item.isChild
    BY <1>1, <1>4 DEF AnswersSimple, AsksFor, IsRemovalOf
  <2>2. item.isChild = FALSE
    BY <2>1 DEF RequireItems
  <2>3. met => RequirementIsMet(c, d, FALSE)
    BY <2>1, <2>2 DEF met
  <2> QED
    BY <1>3, <2>1, <2>3 DEF Owing
<1>5. \A q : ~IsRemovalOf(item, q)
  BY <1>1 DEF IsRemovalOf
<1>6. ReqEffect(c, item, c, O)
  BY <1>3, <1>4, <1>5 DEF ReqEffect
<1> QED
  BY <1>3, <1>6 DEF O


\* A conflict takes nothing away by itself and installs nothing.
LEMMA ConflictReqEffect ==
  ASSUME world \in WorldType, NEW c, IsUsable(c), NEW item \in ConflictItems,
         NEW out, out = ProcessConflict(c, item), ~out.context.invalid, ~out.aborted
  PROVE  ReqEffect(c, item, out.context, ToSet(out.items))
<1> DEFINE match == {p \in (IF item.obsolete THEN OwnProviders ELSE Providers)[item.dep] :
                       item.conflicting = NONE \/ ~SameSpec(p, item.conflicting)}
           of(S) == {p \in match : GetStatus(c, p) \in S}
           going == InOrder(of({"INSTALLED", "TO_BE_INSTALLED_SOFT"}))
           remove == [i \in DOMAIN going |-> [UninstallItem(going[i]) EXCEPT !.obsolete = item.obsolete]]
           e == out.context
<1>1. /\ out.items = remove
      /\ \A q \in Pkg : q \in of({"UNINSTALLED"}) => GetStatus(e, q) = "TO_BE_UNINSTALLED"
      /\ \A q \in Pkg : q \notin of({"UNINSTALLED"}) => GetStatus(e, q) = GetStatus(c, q)
  BY ConflictStatuses
<1>2. item.type = "conflict"
  BY DEF ConflictItems
<1> HIDE DEF match, e
<1>3. \A q \in Pkg : \/ GetStatus(e, q) = GetStatus(c, q)
                     \/ GetStatus(c, q) = "UNINSTALLED" /\ GetStatus(e, q) = "TO_BE_UNINSTALLED"
  BY <1>1
<1>4. \A new \in ToSet(remove) : ReqItem(e, new)
  <2>1. \A i \in DOMAIN going : remove[i].type = "uninstall"
    BY DEF UninstallItem
  <2> HIDE DEF going
  <2>2. DOMAIN remove = DOMAIN going
    OBVIOUS
  <2> HIDE DEF remove
  <2> QED
    BY <2>1, <2>2, RemovalAnswers DEF ToSet
<1> HIDE DEF remove
<1>5. \A q : ~IsRemovalOf(item, q)
  BY <1>2 DEF IsRemovalOf
<1>6. \A p, d : ~AnswersSimple(c, item, p, d)
  BY <1>2 DEF AnswersSimple, AsksFor, IsRemovalOf
<1>7. \A q \in Pkg : GetStatus(c, q) \in ToBeUninstalled => GetStatus(e, q) \in ToBeUninstalled
  BY <1>3 DEF ToBeUninstalled
<1>8. \A q \in Pkg : IsPresent(e, q) <=> IsPresent(c, q)
  BY <1>3 DEF IsPresent, ToBeInstalled
<1>9. \A q \in Pkg : GetStatus(e, q) = "TO_BE_INSTALLED_SOFT" => GetStatus(c, q) = "TO_BE_INSTALLED_SOFT"
  BY <1>3
<1>10. ReqEffect(c, item, e, ToSet(remove))
  <2>1. world.installed \in SUBSET Pkg
    BY DEF WorldType
  <2> QED
    BY <2>1, <1>4, <1>5, <1>6, <1>7, <1>8, <1>9 DEF ReqEffect
<1> QED
  BY <1>1, <1>10 DEF e

\* Who loses a requirement because of a removal asks for it.
LEMMA LosersAsk ==
  ASSUME world \in WorldType, NEW c \in ContextType, NEW item \in UninstallItems,
         item.package \in world.installed, GetStatus(c, item.package) \in ToBeUninstalled,
         NEW s, s = UninstallConsequences(c, item), s \in Seq(ItemType)
  PROVE  /\ \A new \in ToSet(s) : ReqItem(c, new)
         /\ \A r \in Pkg : \A d \in world.requires[r] :
              IsPresent(c, r) /\ item.package \in Providers[d] => Pursued(c, ToSet(s), r, d)
<1> DEFINE p       == item.package
           lost(x) == IsPresent(c, x[1]) /\ ~RequirementIsMet(c, x[2], FALSE)
           known   == {x \in Pkg \X Dep : /\ x[2] \in world.requires[x[1]] \cup world.children[x[1]]
                                         /\ p \in Providers[x[2]]}
           robbed  == {x \in Requiring(p) : lost(x)}
           users   == PairsInOrder(robbed)
           parents == PairsInOrder({x \in Parents(p) : lost(x)})
           losers  == users \o parents
           only    == DepsInOrder({d \in world.children[p] : SingleProvider(d) # NONE})
           asked   == [i \in DOMAIN losers |->
                         RequireItem(losers[i][2], losers[i][1], FALSE, item.removeOnly, item.upgradedTo)]
           freed   == [i \in DOMAIN only |-> [UninstallItem(SingleProvider(only[i])) EXCEPT !.unlink = TRUE]]
<1>1. p \in Pkg
  BY DEF UninstallItems
<1>2. /\ robbed \in SUBSET (Pkg \X Dep) /\ robbed \in SUBSET known
      /\ {x \in Parents(p) : lost(x)} \in SUBSET (Pkg \X Dep)
      /\ {x \in Parents(p) : lost(x)} \in SUBSET known
  BY DEF Requiring, Parents
<1>3. /\ users \in Seq(known) /\ parents \in Seq(known)
      /\ \A x \in robbed : \E i \in DOMAIN users : users[i] = x
  <2>1. users \in Seq(robbed) /\ parents \in Seq({x \in Parents(p) : lost(x)})
    BY <1>2, PairsInOrderType
  <2>2. \A x \in robbed : \E i \in DOMAIN users : users[i] = x
    BY <1>2, PairsInOrderAll
  <2> HIDE DEF users, parents, lost, known, robbed
  <2> QED
    BY <1>2, <2>1, <2>2
<1>4. s = asked \o freed
  BY DEF UninstallConsequences, Map
<1>5. only \in Seq(Dep)
  <2>1. {d \in world.children[p] : SingleProvider(d) # NONE} \in SUBSET Dep
    BY <1>1 DEF WorldType
  <2> QED
    BY <2>1, DepsInOrderType
<1>6. \A x \in Pkg \X Dep : x[2] \in world.requires[x[1]] /\ p \in Providers[x[2]] /\ lost(x) => x \in robbed
  BY DEF Requiring
<1> HIDE DEF users, parents, only, robbed, lost
<1>7. /\ losers \in Seq(known) /\ DOMAIN users \subseteq DOMAIN losers
      /\ \A i \in DOMAIN users : losers[i] = users[i]
  <2> HIDE DEF known
  <2> QED
    BY <1>3
<1>8. \A i \in DOMAIN losers : losers[i] \in known
  BY <1>7, ElementsOfSequence
<1> HIDE DEF losers
<1>9. ASSUME NEW i \in DOMAIN losers
      PROVE  /\ ReqItem(c, asked[i])
             /\ AsksFor(asked[i], losers[i][1], losers[i][2])
  <2> DEFINE r == losers[i][1]  d == losers[i][2]
             new == RequireItem(d, r, FALSE, item.removeOnly, item.upgradedTo)
  <2>1. d \in world.requires[r] \cup world.children[r] /\ LostProvider(c, d)
    BY <1>8 DEF LostProvider
  <2>2. asked[i] = new
    OBVIOUS
  <2>3. new.type = "require" /\ new.dep = d /\ new.requiring = r /\ ~new.isChild
    BY DEF RequireItem
  <2> HIDE DEF new, asked
  <2>4. ReqItem(c, new) /\ AsksFor(new, r, d)
    BY <2>1, <2>3 DEF ReqItem, ReqSimple, AsksFor
  <2> QED
    BY <2>2, <2>4
<1>10. \A i \in DOMAIN only : ReqItem(c, freed[i])
  <2>1. \A i \in DOMAIN only : freed[i].type = "uninstall"
    BY DEF UninstallItem
  <2> HIDE DEF freed
  <2> QED
    BY <2>1, RemovalAnswers
<1>11. /\ asked \in Seq({asked[i] : i \in DOMAIN losers}) /\ DOMAIN asked = DOMAIN losers
       /\ freed \in Seq({freed[i] : i \in DOMAIN only}) /\ DOMAIN freed = DOMAIN only
  <2>1. asked = [i \in DOMAIN losers |-> asked[i]] /\ freed = [i \in DOMAIN only |-> freed[i]]
    OBVIOUS
  <2>2. DOMAIN asked = DOMAIN losers /\ DOMAIN freed = DOMAIN only
    OBVIOUS
  <2> HIDE DEF asked, freed
  <2> QED
    BY <1>5, <1>7, <2>1, <2>2, MappedType
<1> DEFINE S == {asked[i] : i \in DOMAIN losers} \cup {freed[i] : i \in DOMAIN only}
<1> HIDE DEF asked, freed, known
<1>12. ToSet(s) = ToSet(asked) \cup ToSet(freed)
  <2>1. asked \in Seq(S) /\ freed \in Seq(S)
    BY <1>11
  <2> HIDE DEF S
  <2> QED
    BY <1>4, <2>1, ConcatAll
<1>13. \A new \in ToSet(s) : ReqItem(c, new)
  BY <1>9, <1>10, <1>11, <1>12 DEF ToSet
<1>14. ASSUME NEW r \in Pkg, NEW d \in world.requires[r], IsPresent(c, r), p \in Providers[d],
              ~RequirementIsMet(c, d, FALSE)
       PROVE  \E new \in ToSet(s) : AsksFor(new, r, d)
  <2>1. <<r, d>> \in Pkg \X Dep
    BY DEF WorldType
  <2>2. lost(<<r, d>>)
    BY <1>14 DEF lost
  <2>3. <<r, d>> \in robbed
    BY <1>6, <1>14, <2>1, <2>2
  <2>4. PICK i \in DOMAIN users : users[i] = <<r, d>>
    BY <1>3, <2>3
  <2>5. i \in DOMAIN losers /\ losers[i] = <<r, d>>
    BY <1>7, <2>4
  <2>6. AsksFor(asked[i], r, d) /\ asked[i] \in ToSet(asked)
    BY <1>9, <1>11, <2>5 DEF ToSet
  <2> QED
    BY <1>12, <2>6
<1> QED
  BY <1>13, <1>14 DEF Pursued


\* A removal forsakes its package, or those who required it ask for it.
LEMMA UninstallReqEffect ==
  ASSUME world \in WorldType, NEW c, IsUsable(c), StatusInv(c), c.verifying = request.verifying,
         NEW item \in UninstallItems, SimpleInv(c, item),
         NEW out, out = ProcessUninstall(c, item), ~out.context.invalid
  PROVE  ReqEffect(c, item, out.context, ToSet(out.items))
<1> DEFINE p       == item.package
           status  == GetStatus(c, p)
           e       == out.context
           O       == ToSet(out.items)
           dropped == item.unlink /\ UnlinkCancelled(c, p)
           new     == IF item.obsolete THEN "DUE_TO_OBSOLETE"
                      ELSE IF item.unlink THEN "DUE_TO_UNLINK" ELSE "TO_BE_UNINSTALLED"
<1>1. /\ p \in Pkg /\ item.type = "uninstall" /\ item.unlink \in BOOLEAN /\ c \in ContextType
      /\ world.installed \in SUBSET Pkg
  BY DEF UninstallItems, SimpleInv, IsUsable, WorldType
<1>2. out.items \in Seq(ItemType) /\ e \in ContextType
  BY <1>1, ProcessUninstallFollows DEF Follows, OutcomeType
<1>3. /\ \A q \in Pkg : q # p => GetStatus(e, q) = GetStatus(c, q)
      /\ dropped => GetStatus(e, p) = status /\ out.items = <<>>
      /\ ~dropped => /\ status # "TO_BE_INSTALLED"
                     /\ GetStatus(e, p) = IF status \in Final THEN status ELSE new
                     /\ out.items = IF status = "INSTALLED" THEN UninstallConsequences(e, item) ELSE <<>>
  BY UninstallStatuses
<1>4. status \in PackageStatus /\ GetStatus(e, p) \in PackageStatus
  BY <1>1, <1>2, StatusType DEF StatusInv
<1>5. dropped \in BOOLEAN
  BY <1>1 DEF dropped
<1> HIDE DEF dropped, e, p
<1>6. ~dropped => GetStatus(e, p) \in ToBeUninstalled
  BY <1>3 DEF Final, ToBeUninstalled
<1>7. \A q \in Pkg : \/ GetStatus(e, q) = GetStatus(c, q)
                     \/ ~dropped /\ q = p /\ GetStatus(e, q) \in ToBeUninstalled
  BY <1>3, <1>5, <1>6
<1> HIDE DEF new
<1>8. ASSUME ~dropped, status = "INSTALLED"
      PROVE  /\ \A added \in O : ReqItem(e, added)
             /\ \A r \in Pkg : \A d \in world.requires[r] :
                  IsPresent(e, r) /\ p \in Providers[d] => Pursued(e, O, r, d)
  <2>1. out.items = UninstallConsequences(e, item)
    BY <1>3, <1>8
  <2>2. p \in world.installed
    BY <1>1, <1>8 DEF StatusInv, Final, ToBeUninstalled
  <2> QED
    BY <1>2, <1>6, <1>8, <2>1, <2>2, LosersAsk DEF p
<1>9. \A added \in O : ReqItem(e, added)
  <2>1. CASE out.items = <<>>
    <3>1. O = {}
      BY <2>1 DEF ToSet
    <3> QED
      BY <3>1
  <2> QED
    BY <1>3, <1>8, <2>1
<1>10. \A q \in Pkg : IsRemovalOf(item, q) => q = p /\ ~dropped
  BY DEF IsRemovalOf, p, dropped
<1>11. ASSUME NEW q \in Pkg, IsPresent(c, q), ~IsPresent(e, q)
       PROVE  \/ Forsaken(e, q)
              \/ q \in world.installed /\ GetStatus(c, q) = "TO_BE_INSTALLED_SOFT"
              \/ \A r \in Pkg : \A d \in world.requires[r] :
                   IsPresent(e, r) /\ q \in Providers[d] => Pursued(e, O, r, d)
  <2>1. q = p /\ ~dropped
    BY <1>7, <1>11 DEF IsPresent
  <2>2. status \in {"INSTALLED", "TO_BE_INSTALLED_SOFT"}
    BY <1>3, <1>11, <2>1 DEF IsPresent, ToBeInstalled
  <2>3. CASE status = "INSTALLED"
    BY <1>8, <2>1, <2>3
  <2>4. CASE status = "TO_BE_INSTALLED_SOFT" /\ p \notin world.installed
    <3>1. c.verifying
      BY <1>1, <2>4 DEF StatusInv, Final
    <3>2. TakenBack(e, p)
      BY <1>6, <2>1, <2>4, <3>1 DEF TakenBack
    <3> QED
      BY <2>1, <3>2 DEF Forsaken
  <2> QED
    BY <2>1, <2>2, <2>3, <2>4
<1>12. \A q \in Pkg : IsPresent(e, q) => IsPresent(c, q)
  BY <1>7 DEF IsPresent, ToBeInstalled, ToBeUninstalled
<1>13. \A r, d : AnswersSimple(c, item, r, d) => IsRemovalOf(item, r)
  BY <1>1 DEF AnswersSimple, AsksFor
<1>14. \A q \in Pkg : IsRemovalOf(item, q) => ~IsPresent(e, q)
  BY <1>6, <1>10 DEF IsPresent, ToBeInstalled, ToBeUninstalled
<1>15. \A q \in Pkg : IsRemovalOf(item, q) => GetStatus(c, q) # "TO_BE_INSTALLED"
  BY <1>3, <1>10
<1>16. /\ \A q \in Pkg : GetStatus(c, q) \in ToBeUninstalled => GetStatus(e, q) \in ToBeUninstalled
       /\ \A q \in Pkg : GetStatus(e, q) = "TO_BE_INSTALLED_SOFT" => GetStatus(c, q) = "TO_BE_INSTALLED_SOFT"
  BY <1>7 DEF ToBeUninstalled
<1> HIDE DEF O, status
<1>17. ReqEffect(c, item, e, O)
  BY <1>1, <1>9, <1>11, <1>12, <1>13, <1>14, <1>15, <1>16 DEF ReqEffect
<1> QED
  BY <1>17 DEF e, O


\* What an install queues asks for everything that its package requires.
LEMMA InstallAsks ==
  ASSUME world \in WorldType, NEW c \in ContextType, NEW p \in Pkg,
         NEW s, s = InstallConsequences(c, p)
  PROVE  /\ \A new \in ToSet(s) : ReqItem(c, new)
         /\ \A d \in world.requires[p] : Pursued(c, ToSet(s), p, d)
<1> DEFINE lacking   == {d \in world.requires[p] : ~RequirementIsMet(c, d, FALSE)}
           unmet     == DepsInOrder(lacking)
           lackKids  == {d \in world.children[p] : ~RequirementIsMet(c, d, TRUE)}
           unmetKids == DepsInOrder(lackKids)
           opposed   == DepsInOrder(world.conflicts[p])
           replaced  == DepsInOrder(world.obsoletes[p])
           enemies   == {q \in Conflicting(p) : ~SameSpec(q, p)}
           against   == Reverse(InOrder(enemies))
           first     == [i \in DOMAIN unmet |-> RequireItem(unmet[i], p, FALSE, FALSE, NONE)]
           second    == [i \in DOMAIN unmetKids |-> RequireItem(unmetKids[i], p, TRUE, FALSE, NONE)]
           third     == [i \in DOMAIN opposed |-> ConflictItem(opposed[i], p, FALSE)]
           fourth    == [i \in DOMAIN replaced |-> ConflictItem(replaced[i], p, TRUE)]
           fifth     == [i \in DOMAIN against |-> UninstallItem(against[i])]
           T         == {item \in SimpleItemType : ReqItem(c, item)}
<1>1. /\ lacking \in SUBSET Dep /\ lackKids \in SUBSET Dep
      /\ lackKids \subseteq world.children[p] /\ lacking \subseteq world.requires[p]
      /\ world.conflicts[p] \in SUBSET Dep /\ world.obsoletes[p] \in SUBSET Dep
  BY DEF WorldType
<1>2. /\ unmet \in Seq(lacking) /\ ToSet(unmet) = lacking /\ unmetKids \in Seq(lackKids)
      /\ opposed \in Seq(Dep) /\ replaced \in Seq(Dep)
  <2>1. \A D \in SUBSET Dep : DepsInOrder(D) \in Seq(D) /\ DepsInOrder(D) \in Seq(Dep) /\ ToSet(DepsInOrder(D)) = D
    <3> SUFFICES ASSUME NEW D \in SUBSET Dep
                 PROVE  DepsInOrder(D) \in Seq(D) /\ DepsInOrder(D) \in Seq(Dep) /\ ToSet(DepsInOrder(D)) = D
      OBVIOUS
    <3>1. DepsInOrder(D) \in Seq(D) /\ ToSet(DepsInOrder(D)) = D
      BY DepsInOrderType, DepsInOrderAll
    <3> QED
      BY <3>1
  <2> HIDE DEF lacking, lackKids
  <2> QED
    BY <1>1, <2>1
<1>3. against \in Seq(Pkg)
  <2>1. enemies \in SUBSET Pkg
    BY DEF Conflicting
  <2> HIDE DEF enemies
  <2>2. InOrder(enemies) \in Seq(enemies)
    BY <2>1, InOrderType
  <2>3. InOrder(enemies) \in Seq(Pkg)
    BY <2>1, <2>2
  <2> QED
    BY <2>3, ReverseType
<1>4. \A d \in lacking : d \in world.requires[p] /\ d \in Dep
  BY <1>1
<1>5. \A d \in lackKids : d \in world.children[p] /\ d \in Dep
  BY <1>1
<1>6. \A d \in world.requires[p] : RequirementIsMet(c, d, FALSE) \/ d \in lacking
  OBVIOUS
<1>7. s = first \o second \o third \o fourth \o fifth
  BY DEF InstallConsequences, Map
<1> HIDE DEF unmet, unmetKids, opposed, replaced, against, enemies, lacking, lackKids
<1>8. NONE \notin Pkg /\ p # NONE
  BY UniverseAssumption
<1>9. ASSUME NEW d \in Dep, NEW kind \in BOOLEAN,
             IF kind THEN d \in world.children[p] ELSE d \in world.requires[p]
      PROVE  RequireItem(d, p, kind, FALSE, NONE) \in T
  <2> DEFINE item == RequireItem(d, p, kind, FALSE, NONE)
  <2>1. item \in SimpleItemType
    BY RequireItemType
  <2>2. item.type = "require" /\ item.upgraded = NONE /\ item.requiring = p /\ item.dep = d
    BY DEF RequireItem
  <2> HIDE DEF item
  <2>3. ReqItem(c, item)
    BY <1>9, <2>2 DEF ReqItem, ReqSimple
  <2>4. item \in T
    BY <2>1, <2>3
  <2> QED
    BY <2>4 DEF item
<1>10. ASSUME NEW d \in Dep, NEW kind \in BOOLEAN PROVE ConflictItem(d, p, kind) \in T
  BY ConflictItemType DEF ConflictItem, ReqItem, ReqSimple
<1>11. ASSUME NEW q \in Pkg PROVE UninstallItem(q) \in T
  BY UninstallItemType, RemovalAnswers DEF UninstallItem
<1> HIDE DEF T
<1>12. /\ first \in Seq(T) /\ second \in Seq(T) /\ third \in Seq(T) /\ fourth \in Seq(T)
       /\ fifth \in Seq(T)
  <2>1. \A i \in DOMAIN unmet : first[i] \in T
    BY <1>2, <1>4, <1>9, ElementsOfSequence
  <2>2. \A i \in DOMAIN unmetKids : second[i] \in T
    BY <1>2, <1>5, <1>9, ElementsOfSequence
  <2>3. \A i \in DOMAIN opposed : third[i] \in T
    BY <1>2, <1>10, ElementsOfSequence
  <2>4. \A i \in DOMAIN replaced : fourth[i] \in T
    BY <1>2, <1>10, ElementsOfSequence
  <2>5. \A i \in DOMAIN against : fifth[i] \in T
    BY <1>3, <1>11, ElementsOfSequence
  <2>6. first \in Seq(T)
    BY <1>2, <2>1, MappedType
  <2>7. second \in Seq(T)
    BY <1>2, <2>2, MappedType
  <2>8. third \in Seq(T) /\ fourth \in Seq(T) /\ fifth \in Seq(T)
    BY <1>2, <1>3, <2>3, <2>4, <2>5, MappedType
  <2> QED
    BY <2>6, <2>7, <2>8
<1>13. ASSUME NEW d \in lacking PROVE \E new \in ToSet(first) : AsksFor(new, p, d)
  <2>1. PICK i \in DOMAIN unmet : unmet[i] = d
    BY <1>2 DEF ToSet
  <2>2. i \in DOMAIN first /\ first[i] = RequireItem(d, p, FALSE, FALSE, NONE)
    BY <2>1
  <2>3. AsksFor(RequireItem(d, p, FALSE, FALSE, NONE), p, d)
    BY DEF AsksFor, RequireItem
  <2> QED
    BY <2>2, <2>3 DEF ToSet
<1> HIDE DEF first, second, third, fourth, fifth
<1>14. s \in Seq(T) /\ ToSet(first) \subseteq ToSet(s)
  <2> SUFFICES ASSUME \A u, v \in Seq(T) : ToSet(u \o v) = ToSet(u) \cup ToSet(v)
               PROVE  s \in Seq(T) /\ ToSet(first) \subseteq ToSet(s)
    BY ConcatAll
  <2>1. first \o second \in Seq(T) /\ first \o second \o third \in Seq(T)
        /\ first \o second \o third \o fourth \in Seq(T) /\ s \in Seq(T)
    BY <1>7, <1>12
  <2>2. ToSet(first \o second \o third \o fourth \o fifth)
          = ToSet(first \o second \o third \o fourth) \cup ToSet(fifth)
    BY <1>12, <2>1, Zenon
  <2>3. ToSet(first \o second \o third \o fourth) = ToSet(first \o second \o third) \cup ToSet(fourth)
    BY <1>12, <2>1, Zenon
  <2>4. ToSet(first \o second \o third) = ToSet(first \o second) \cup ToSet(third)
    BY <1>12, <2>1, Zenon
  <2>5. ToSet(first \o second) = ToSet(first) \cup ToSet(second)
    BY <1>12, <2>1, Zenon
  <2> QED
    BY <1>7, <2>1, <2>2, <2>3, <2>4, <2>5, Zenon
<1>15. \A new \in ToSet(s) : ReqItem(c, new)
  <2>1. \A i \in DOMAIN s : s[i] \in T
    BY <1>14, ElementsOfSequence
  <2> QED
    BY <2>1 DEF ToSet, T
<1> QED
  BY <1>6, <1>13, <1>14, <1>15 DEF Pursued


\* An install that is not carried out leaves its package to those that go, or was taken back.
LEMMA SkippedInstallReqEffect ==
  ASSUME world \in WorldType, NEW c, IsUsable(c), StatusInv(c), c.verifying = request.verifying,
         NEW item \in InstallItems, item.neededBy # {}, ReqSimple(c, item),
         NEW items, \A new \in ToSet(items) : ReqItem(c, new),
         \/ \A q \in item.neededBy : GetStatus(c, q) \in ToBeUninstalled
         \/ c.verifying /\ GetStatus(c, item.package) \in ToBeUninstalled
  PROVE  ReqEffect(c, item, c, ToSet(items))
<1> DEFINE p == item.package  O == ToSet(items)
<1>1. /\ p \in Pkg /\ item.type = "install" /\ item.neededBy \in SUBSET Pkg /\ p \notin world.installed
      /\ \A q : ~IsRemovalOf(item, q)
  BY DEF InstallItems, ReqSimple, IsRemovalOf
<1> HIDE DEF O
<1>2. ASSUME NEW r \in Pkg, NEW d \in Dep, IsPresent(c, r), AnswersSimple(c, item, r, d)
      PROVE  Excused(c, O, r, d)
  <2>1. /\ Helps(c, p, r, d)
        /\ \A q \in item.neededBy : q = r \/ ChosenFor(c, q, r, d)
    BY <1>1, <1>2 DEF AnswersSimple, AsksFor
  <2>2. CASE \A q \in item.neededBy : GetStatus(c, q) \in ToBeUninstalled
    <3>1. PICK q \in item.neededBy : TRUE
      OBVIOUS
    <3>2. q \in Pkg /\ GetStatus(c, q) \in ToBeUninstalled /\ q # r
      BY <1>1, <1>2, <2>2 DEF IsPresent, ToBeInstalled, ToBeUninstalled
    <3> QED
      BY <2>1, <3>2 DEF Excused
  <2>3. CASE c.verifying /\ GetStatus(c, p) \in ToBeUninstalled
    <3>1. Forsaken(c, p)
      BY <1>1, <2>3 DEF Forsaken, TakenBack
    <3> QED
      BY <1>1, <2>1, <3>1 DEF Excused, Unavoidable
  <2> QED
    BY <2>2, <2>3
<1>3. \A r \in Pkg, d \in Dep : IsPresent(c, r) /\ AnswersSimple(c, item, r, d) => Owing(c, O, r, d)
  BY <1>2 DEF Owing
<1>4. \A new \in O : ReqItem(c, new)
  BY DEF O
<1>5. ReqEffect(c, item, c, O)
  BY <1>1, <1>3, <1>4 DEF ReqEffect
<1> QED
  BY <1>5 DEF O

\* What is to be installed helps, or there is an excuse that it does not.
LEMMA InstallHelps ==
  ASSUME world \in WorldType, NEW e \in ContextType, StatusInv(e), e.verifying = request.verifying,
         NEW O, NEW x \in Pkg, NEW p \in Pkg, NEW d \in Dep, Helps(e, x, p, d),
         \/ IsPresent(e, x)
         \/ Forsaken(e, x)
         \/ RuledOutYet(e, O, x)
         \/ \E r \in Pkg : GetStatus(e, r) = "TO_BE_INSTALLED" /\ \E item \in O : IsRemovalOf(item, r)
  PROVE  Owing(e, O, p, d)
<1>1. ASSUME IsPresent(e, x) PROVE Owing(e, O, p, d)
  <2>1. CASE x \in Providers[d]
    BY <1>1, <2>1 DEF Owing, RequirementIsMet
  <2>2. CASE LostProvider(e, d) /\ IsNewer(x, p)
    <3>1. Taken(e, x)
      BY <1>1, PresentIsTaken
    <3>2. VersionOf[x] \in Int /\ VersionOf[p] \in Int
      BY UniverseAssumption
    <3>3. x # p /\ NameOf[x] = NameOf[p] /\ VersionOf[x] >= VersionOf[p]
      BY <2>2, <3>2 DEF IsNewer
    <3>4. InSeveralVersions(e, p)
      BY <3>1, <3>3 DEF InSeveralVersions
    <3> QED
      BY <2>2, <3>4 DEF Owing, Excused, Unavoidable
  <2> QED
    BY <2>1, <2>2 DEF Helps
<1>2. Forsaken(e, x) => Owing(e, O, p, d)
  BY DEF Owing, Excused, Unavoidable
<1>3. RuledOutYet(e, O, x) => Owing(e, O, p, d)
  BY DEF Owing, Excused
<1>4. Hopeless(e, O) => Owing(e, O, p, d)
  BY DEF Owing
<1> QED
  BY <1>1, <1>2, <1>3, <1>4 DEF Hopeless

\* An upgrade that is not made: it was lost, taken back, ruled out, or the queue has no solution.
LEMMA NotUpgraded ==
  ASSUME world \in WorldType, NEW c \in ContextType, StatusInv(c), c.verifying = request.verifying,
         NEW x \in Pkg, GetStatus(c, x) \in ToBeUninstalled, NEW r \in Pkg, NameOf[r] = NameOf[x],
         Taken(c, r), NEW O, NEW gone \in O, IsRemovalOf(gone, r), x \in world.installed => IsNewer(x, r)
  PROVE  \/ Forsaken(c, x)
         \/ RuledOutYet(c, O, x)
         \/ GetStatus(c, r) = "TO_BE_INSTALLED"
<1>1. CASE x \in world.installed
  <2>1. Doomed(c, O, r)
    BY DEF Doomed
  <2> QED
    BY <1>1, <2>1 DEF RuledOutYet, Replaces
<1>2. CASE x \notin world.installed /\ FindInstalledVersion(x) # NONE
  BY <1>2 DEF Forsaken, LostUpgrade
<1>3. CASE x \notin world.installed /\ c.verifying
  BY <1>3 DEF Forsaken, TakenBack
<1>4. CASE x \notin world.installed /\ FindInstalledVersion(x) = NONE /\ ~c.verifying
  <2>1. r \notin world.installed
    BY <1>4, NoInstalledVersion
  <2> QED
    BY <1>4, <2>1 DEF Taken
<1>5. c.verifying \in BOOLEAN
  BY DEF ContextType
<1> QED
  BY <1>1, <1>2, <1>3, <1>4, <1>5


\* An install asks for what its package requires, and helps who asked for it.
LEMMA InstallReqEffect ==
  ASSUME world \in WorldType, NEW c, IsUsable(c), StatusInv(c), c.verifying = request.verifying,
         NEW item \in InstallItems, SimpleInv(c, item), ReqSimple(c, item),
         NEW out, out = ProcessInstall(c, item), ~out.context.invalid
  PROVE  ReqEffect(c, item, out.context, ToSet(out.items))
<1> DEFINE p        == item.package
           status   == GetStatus(c, p)
           upgrade  == item.upgrades # NONE
           after    == IF upgrade THEN UpgradePackage(c, p, item.penalty)
                                  ELSE InstallPackage(c, p, item.penalty)
           gone     == [UninstallItem(item.upgrades) EXCEPT !.upgradedTo = p,
                                                            !.explicit = item.explicit]
           removal  == IF upgrade THEN <<gone>> ELSE <<>>
           needers  == InOrder(item.neededBy)
           removals == [i \in DOMAIN needers |-> UninstallItem(needers[i])]
           follow   == IF status \in {"UNINSTALLED", "DUE_TO_UNLINK"}
                       THEN InstallConsequences(after, p) ELSE <<>>
           noNeeder == item.neededBy # {} /\ \A q \in item.neededBy : GetStatus(c, q) \in ToBeUninstalled
           backOut  == c.verifying /\ status \in ToBeUninstalled /\ item.neededBy # {}
           e        == out.context
           O        == ToSet(out.items)
<1>1. /\ p \in Pkg /\ item.penalty \in Int /\ item.type = "install"
      /\ item.upgrades \in Pkg \cup {NONE} /\ item.neededBy \in SUBSET Pkg /\ c \in ContextType
      /\ upgrade => NameOf[item.upgrades] = NameOf[p] /\ ~SameSpec(p, item.upgrades)
      /\ upgrade => Taken(c, item.upgrades)
      /\ world.installed \in SUBSET Pkg
  BY DEF InstallItems, SimpleInv, IsUsable, WorldType
<1>2. out = IF noNeeder THEN Outcome(c, <<>>)
            ELSE IF backOut THEN Outcome(c, removals) ELSE Outcome(after, removal \o follow)
  <2>1. ~(upgrade /\ SameSpec(p, item.upgrades))
    BY <1>1
  <2>2. ProcessInstall(c, item) =
          IF noNeeder THEN Outcome(c, <<>>)
          ELSE IF backOut THEN Outcome(c, removals) ELSE Outcome(after, removal \o follow)
    BY <2>1 DEF ProcessInstall, Map
  <2> HIDE DEF after, removal, removals, follow, noNeeder, backOut
  <2> QED
    BY <2>2
<1>3. Effect(c, item, e, O)
  BY InstallEffect
<1>4. CASE noNeeder
  <2>1. e = c /\ out.items = <<>>
    BY <1>2, <1>4 DEF Outcome
  <2>2. \A new \in ToSet(<<>>) : ReqItem(c, new)
    BY DEF ToSet
  <2> QED
    BY <1>4, <2>1, <2>2, SkippedInstallReqEffect
<1>5. CASE ~noNeeder /\ backOut
  <2>1. out = Outcome(c, removals)
    BY <1>2, <1>5
  <2>2. e = c /\ out.items = removals
    BY <2>1 DEF Outcome
  <2>3. \A i \in DOMAIN removals : removals[i].type = "uninstall"
    BY DEF UninstallItem
  <2> HIDE DEF removals
  <2>4. \A new \in ToSet(removals) : ReqItem(c, new)
    BY <2>3, RemovalAnswers DEF ToSet
  <2> QED
    BY <1>5, <2>2, <2>4, SkippedInstallReqEffect
<1>6. CASE ~noNeeder /\ ~backOut
  <2>1. out = Outcome(after, removal \o follow)
    BY <1>2, <1>6
  <2>2. e = after /\ out.items = removal \o follow
    <3> HIDE DEF after, removal, follow
    <3> QED
      BY <2>1 DEF Outcome
  <2>3. /\ IsUsable(e) /\ e.verifying = c.verifying /\ StatusInv(e)
        /\ \A q \in Pkg : q # p => GetStatus(e, q) = GetStatus(c, q)
        /\ p \notin world.installed =>
             \/ e = c /\ status \in ToBeInstalled
             \/ upgrade /\ e = c /\ status \in Final
             \/ /\ status = "UNINSTALLED" /\ GetStatus(e, p) \in ToBeInstalled
                /\ ~upgrade => ~IsParallelInstall(c, p)
    BY <2>2, InstallStatuses
  <2>4. p \in world.installed =>
          /\ upgrade /\ IsNewer(p, item.upgrades)
          /\ \/ e = c /\ status \in ToBeUninstalled \cup ToBeInstalled
             \/ status = "INSTALLED" /\ GetStatus(e, p) \in ToBeInstalled
    <3> SUFFICES ASSUME p \in world.installed
                 PROVE  /\ upgrade /\ IsNewer(p, item.upgrades)
                        /\ \/ e = c /\ status \in ToBeUninstalled \cup ToBeInstalled
                           \/ status = "INSTALLED" /\ GetStatus(e, p) \in ToBeInstalled
      OBVIOUS
    <3>1. upgrade /\ IsNewer(p, item.upgrades)
      BY <1>1, UniverseAssumption DEF ReqSimple
    <3>2. e = UpgradePackage(c, p, item.penalty)
      BY <2>2, <3>1
    <3>3. status \in PackageStatus /\ status # "UNINSTALLED"
      BY <1>1, StatusType DEF StatusInv
    <3>4. /\ status \in ToBeUninstalled \cup ToBeInstalled => e = c
          /\ status \notin ToBeUninstalled \cup ToBeInstalled => GetStatus(e, p) \in ToBeInstalled
      BY <1>1, <3>2, UpgradePackageEffect DEF ToBeInstalled
    <3> HIDE DEF e, status
    <3> QED
      BY <3>1, <3>3, <3>4 DEF PackageStatus
  <2>5. upgrade => gone.type = "uninstall" /\ IsRemovalOf(gone, item.upgrades)
    BY DEF UninstallItem, IsRemovalOf
  <2> DEFINE T == {new \in ItemType : ReqItem(e, new)}
  <2>6. gone.type = "uninstall" /\ (upgrade => gone \in ItemType)
    <3>1. \A b \in BOOLEAN : item.upgrades \in Pkg =>
            [UninstallItem(item.upgrades) EXCEPT !.upgradedTo = p, !.explicit = b] \in SimpleItemType
      BY <1>1, UninstallItemType
    <3>2. item.explicit \in BOOLEAN
      BY DEF InstallItems
    <3> QED
      BY <1>1, <3>1, <3>2 DEF UninstallItem, ItemType
  <2> HIDE DEF gone
  <2>7. removal \in Seq(T) /\ (upgrade => gone \in ToSet(removal))
    <3>1. upgrade => gone \in T
      BY <2>6, RemovalAnswers
    <3>2. upgrade => removal = <<gone>>
      OBVIOUS
    <3>3. ~upgrade => removal = <<>>
      OBVIOUS
    <3> HIDE DEF T, removal
    <3>4. 1 \in DOMAIN <<gone>> /\ <<gone>>[1] = gone
      OBVIOUS
    <3>5. gone \in ToSet(<<gone>>)
      BY <3>4 DEF ToSet
    <3>6. gone \in T => <<gone>> \in Seq(T)
      OBVIOUS
    <3>7. <<>> \in Seq(T)
      OBVIOUS
    <3> QED
      BY <3>1, <3>2, <3>3, <3>5, <3>6, <3>7, Zenon
  <2>8. e \in ContextType
    BY <2>3 DEF IsUsable
  <2>9. follow = IF status \in {"UNINSTALLED", "DUE_TO_UNLINK"} THEN InstallConsequences(e, p) ELSE <<>>
    BY <2>2
  <2> HIDE DEF follow, e, removal
  <2>10. follow \in Seq(T) /\ (status = "UNINSTALLED" => \A d \in world.requires[p] : Pursued(e, ToSet(follow), p, d))
    <3>1. CASE status \in {"UNINSTALLED", "DUE_TO_UNLINK"}
      <4>1. follow = InstallConsequences(e, p)
        BY <2>9, <3>1
      <4>2. follow \in Seq(GoodItems(e))
        BY <1>1, <2>8, <4>1, InstallConsequencesGood
      <4>3. /\ \A new \in ToSet(follow) : ReqItem(e, new)
            /\ \A d \in world.requires[p] : Pursued(e, ToSet(follow), p, d)
        BY <1>1, <2>8, <4>1, InstallAsks
      <4>4. follow \in Seq(ItemType)
        BY <4>2 DEF GoodItems
      <4>5. \A i \in DOMAIN follow : follow[i] \in T
        BY <4>3, <4>4, ElementsOfSequence DEF ToSet
      <4> HIDE DEF T
      <4> QED
        BY <4>3, <4>4, <4>5
    <3>2. CASE status \notin {"UNINSTALLED", "DUE_TO_UNLINK"}
      BY <2>9, <3>2
    <3> QED
      BY <3>1, <3>2
  <2> HIDE DEF T, O
  <2>11. O = ToSet(removal) \cup ToSet(follow)
    BY <2>2, <2>7, <2>10, ConcatAll DEF O
  <2>12. \A new \in O : ReqItem(e, new)
    <3>1. \A i \in DOMAIN removal : removal[i] \in T
      BY <2>7, ElementsOfSequence
    <3>2. \A i \in DOMAIN follow : follow[i] \in T
      BY <2>10, ElementsOfSequence
    <3> QED
      BY <2>11, <3>1, <3>2 DEF ToSet, T
  <2>13. upgrade => item.upgrades \in Pkg /\ gone \in O /\ IsRemovalOf(gone, item.upgrades) /\ Taken(e, item.upgrades)
    <3> SUFFICES ASSUME upgrade
                 PROVE  item.upgrades \in Pkg /\ gone \in O /\ IsRemovalOf(gone, item.upgrades)
                        /\ Taken(e, item.upgrades)
      OBVIOUS
    <3>1. item.upgrades \in Pkg /\ gone \in O /\ IsRemovalOf(gone, item.upgrades)
      BY <1>1, <2>5, <2>7, <2>11
    <3>2. Taken(e, item.upgrades)
      BY <1>1, <1>3, <3>1, TakenStays
    <3> QED
      BY <3>1, <3>2
  <2>14. p \in world.installed => Replaces(e, O, p)
    BY <2>4, <2>13 DEF Replaces, Doomed
  <2> HIDE DEF status, p
  <2>15. \A q \in Pkg : GetStatus(c, q) \in ToBeUninstalled => GetStatus(e, q) \in ToBeUninstalled
    BY <2>3, <2>4 DEF status, ToBeUninstalled, ToBeInstalled
  <2>16. \A q \in world.installed : GetStatus(e, q) = "TO_BE_INSTALLED_SOFT" =>
           GetStatus(c, q) = "TO_BE_INSTALLED_SOFT" \/ Replaces(e, O, q)
    BY <1>1, <2>3, <2>14
  <2>17. \A q \in Pkg : IsPresent(c, q) => IsPresent(e, q)
    BY <2>3, <2>4 DEF status, IsPresent
  <2>18. ASSUME NEW q \in Pkg, IsPresent(e, q), ~IsPresent(c, q)
         PROVE  \A d \in world.requires[q] : Pursued(e, O, q, d)
    <3>1. q = p
      BY <2>3, <2>18 DEF IsPresent
    <3>2. status = "UNINSTALLED"
      BY <2>3, <2>4, <2>18, <3>1 DEF status, IsPresent
    <3> QED
      BY <2>10, <2>11, <3>1, <3>2 DEF Pursued
  <2>19. ASSUME NEW r \in Pkg, NEW d \in Dep, AnswersSimple(c, item, r, d)
         PROVE  Owing(e, O, r, d)
    <3>1. Helps(c, p, r, d)
      BY <1>1, <2>19 DEF AnswersSimple, AsksFor, IsRemovalOf, p
    <3>2. Later(c, e)
      BY <1>3, <2>15, TakenStays DEF Later
    <3>3. Helps(e, p, r, d)
      BY <3>1, <3>2, HelpStays
    <3>4. CASE IsPresent(e, p)
      BY <1>1, <2>3, <2>8, <3>3, <3>4, InstallHelps
    <3>5. CASE ~IsPresent(e, p)
      <4>1. upgrade /\ GetStatus(e, p) \in ToBeUninstalled
        BY <2>3, <2>4, <3>5 DEF status, IsPresent, Final, ToBeUninstalled, ToBeInstalled
      <4>2. p \in world.installed => IsNewer(p, item.upgrades)
        BY <2>4
      <4>3. NameOf[item.upgrades] = NameOf[p]
        BY <1>1, <4>1
      <4>4. \/ Forsaken(e, p)
            \/ RuledOutYet(e, O, p)
            \/ GetStatus(e, item.upgrades) = "TO_BE_INSTALLED"
        BY <1>1, <2>3, <2>8, <2>13, <4>1, <4>2, <4>3, NotUpgraded
      <4> QED
        BY <1>1, <2>3, <2>8, <2>13, <3>3, <4>1, <4>4, InstallHelps
    <3> QED
      BY <3>4, <3>5
  <2>20. \A q : ~IsRemovalOf(item, q)
    BY <1>1 DEF IsRemovalOf
  <2>21. ReqEffect(c, item, e, O)
    BY <2>12, <2>15, <2>16, <2>17, <2>18, <2>19, <2>20 DEF ReqEffect
  <2> QED
    BY <2>21 DEF e, O
<1> QED
  BY <1>4, <1>5, <1>6


\* What an item of any type but a branch does for requirements.
LEMMA SimpleReqEffect ==
  ASSUME world \in WorldType, NEW c, IsUsable(c), StatusInv(c), c.verifying = request.verifying,
         NEW item \in SimpleItemType, SimpleInv(c, item), ReqSimple(c, item),
         NEW out, out = ProcessSimple(c, item), ~out.context.invalid, ~out.aborted
  PROVE  ReqEffect(c, item, out.context, ToSet(out.items))
<1>1. CASE item \in InstallItems
  <2>1. out = ProcessInstall(c, item)
    BY <1>1 DEF ProcessSimple, InstallItems
  <2> QED
    BY <1>1, <2>1, InstallReqEffect
<1>2. CASE item \in RequireItems
  <2>1. out = ProcessRequire(c, item)
    BY <1>2 DEF ProcessSimple, RequireItems
  <2> QED
    BY <1>2, <2>1, RequireReqEffect
<1>3. CASE item \in ConflictItems
  <2>1. out = ProcessConflict(c, item)
    BY <1>3 DEF ProcessSimple, ConflictItems
  <2> QED
    BY <1>3, <2>1, ConflictReqEffect
<1>4. CASE item \in UninstallItems
  <2>1. out = ProcessUninstall(c, item)
    BY <1>4 DEF ProcessSimple, UninstallItems
  <2> QED
    BY <1>4, <2>1, UninstallReqEffect
<1> QED
  BY <1>1, <1>2, <1>3, <1>4 DEF SimpleItemType

\* What a branch with a package that is there was to answer is met, or the package is there
\* in several versions.
LEMMA SatisfiedBranch ==
  ASSUME world \in WorldType, NEW c \in ContextType, StatusInv(c), c.verifying = request.verifying,
         NEW branch \in BranchItems, NEW i \in DOMAIN branch.possible,
         branch.possible[i].type = "install", IsPresent(c, branch.possible[i].package),
         NEW p \in Pkg, NEW d \in Dep, Answers(c, branch, p, d), NEW O
  PROVE  Owing(c, O, p, d)
<1> DEFINE x == branch.possible[i]
<1>1. branch.type = "branch" /\ branch.possible \in Seq(SimpleItemType)
  BY DEF BranchItems
<1>2. AnswersSimple(c, x, p, d)
  BY <1>1 DEF Answers, AnswersBranch
<1>3. x \in SimpleItemType
  BY <1>1, ElementsOfSequence
<1>4. x.type = "install" /\ IsPresent(c, x.package)
  OBVIOUS
<1> HIDE DEF x
<1>5. x.package \in Pkg
  BY <1>3, <1>4 DEF SimpleItemType, InstallItems, RequireItems, ConflictItems, UninstallItems
<1>6. Helps(c, x.package, p, d)
  BY <1>2, <1>4 DEF AnswersSimple, AsksFor, IsRemovalOf
<1> QED
  BY <1>4, <1>5, <1>6, InstallHelps

\* Processing an item of a queue leaves nothing unmet that is not looked after, unless the
\* queue is found to be without a solution.
LEMMA ItemKeepsMet ==
  ASSUME world \in WorldType, request \in RequestType,
         NEW c \in ContextType, ~c.invalid, NEW I \in SUBSET ItemType, Good(c, I), Met(c, I),
         NEW item \in I, NEW out, out = ProcessItem(c, item), ~out.context.invalid, ~out.aborted,
         NEW J, J \subseteq I \cup ToSet(out.items), ToSet(out.items) \subseteq J,
         \A old \in I : old # item => old \in J
  PROVE  Met(out.context, J)
<1>1. /\ IsUsable(c) /\ StatusInv(c) /\ ItemInv(c, item) /\ ReqItem(c, item)
      /\ c.verifying = request.verifying
  BY DEF IsUsable, Good, StatusInv, Met
<1>2. ASSUME NEW x \in SimpleItemType, SimpleInv(c, x), ReqSimple(c, x), out = ProcessSimple(c, x),
             x = item \/ item.type = "branch",
             \A p, d : Answers(c, item, p, d) => AnswersSimple(c, x, p, d)
      PROVE  Met(out.context, J)
  <2> DEFINE e == out.context  O == ToSet(out.items)
  <2>1. Effect(c, x, e, O) /\ ReqEffect(c, x, e, O)
    BY <1>1, <1>2, SimpleEffect, SimpleReqEffect
  <2>2. Keeps(I, x, O, J)
    BY <1>2 DEF Keeps
  <2> HIDE DEF e, O
  <2>3. J \subseteq I \cup O
    BY DEF O
  <2>4. Met(e, J)
    BY <1>1, <1>2, <2>1, <2>2, <2>3, EffectKeepsMet
  <2> QED
    BY <2>4 DEF e
<1>3. CASE item.type # "branch"
  <2>1. item \in SimpleItemType
    BY <1>3 DEF ItemType, BranchItems
  <2>2. SimpleInv(c, item) /\ out = ProcessSimple(c, item)
    BY <1>1, <1>3 DEF ItemInv, ProcessItem
  <2>3. ReqSimple(c, item) /\ \A p, d : Answers(c, item, p, d) => AnswersSimple(c, item, p, d)
    BY <1>1, <1>3 DEF ReqItem, Answers
  <2> QED
    BY <1>2, <2>1, <2>2, <2>3
<1>4. CASE item.type = "branch"
  <2>1. item \in BranchItems
    BY <1>4 DEF ItemType, SimpleItemType, InstallItems, RequireItems, ConflictItems, UninstallItems
  <2>2. item.possible \in Seq(SimpleItemType) /\ item.possible # <<>>
    BY <1>1, <1>4, <2>1 DEF BranchItems, ReqItem
  <2> DEFINE satisfied == \E i \in DOMAIN item.possible :
                            item.possible[i].type = "install" /\ IsPresent(c, item.possible[i].package)
  <2>3. CASE satisfied
    <3>1. out = Outcome(c, <<>>)
      BY <1>4, <2>3 DEF ProcessItem, ProcessBranch
    <3>2. out.context = c /\ out.items = <<>>
      BY <3>1 DEF Outcome
    <3>3. ToSet(out.items) = {}
      BY <3>2 DEF ToSet
    <3>4. J \subseteq I
      BY <3>3
    <3>5. \A q : Doomed(c, I, q) => Doomed(c, J, q)
      BY <1>4 DEF Doomed, IsRemovalOf
    <3>6. \A q : Replaces(c, I, q) => Replaces(c, J, q)
      BY <3>5 DEF Replaces
    <3>7. SoftInv(c, J)
      BY <3>6 DEF Met, SoftInv
    <3>8. \A new \in J : ReqItem(c, new)
      BY <3>4 DEF Met
    <3>9. ASSUME NEW p \in Pkg, IsPresent(c, p), NEW d \in MustHave(p)
          PROVE  Owing(c, J, p, d)
      <4>1. Owing(c, I, p, d) /\ d \in Dep
        BY <3>9 DEF Met, ReqInv, MustHave, WorldType
      <4>2. Excused(c, I, p, d) => Excused(c, J, p, d)
        BY <3>6 DEF Excused, RuledOutYet
      <4>3. Hopeless(c, I) => Hopeless(c, J)
        BY <1>4 DEF Hopeless, IsRemovalOf
      <4>4. ASSUME NEW old \in I, Answers(c, old, p, d) PROVE Owing(c, J, p, d)
        <5>1. CASE old # item
          BY <4>4, <5>1 DEF Owing
        <5>2. CASE old = item
          <6>1. PICK i \in DOMAIN item.possible :
                  item.possible[i].type = "install" /\ IsPresent(c, item.possible[i].package)
            BY <2>3
          <6> QED
            BY <1>1, <2>1, <4>1, <4>4, <5>2, <6>1, SatisfiedBranch
        <5> QED
          BY <5>1, <5>2
      <4> QED
        BY <4>1, <4>2, <4>3, <4>4 DEF Owing
    <3>10. Met(c, J)
      BY <3>7, <3>8, <3>9 DEF Met, ReqInv
    <3> QED
      BY <3>2, <3>10
  <2>4. CASE ~satisfied /\ Len(item.possible) = 1
    <3> DEFINE x == item.possible[1]
    <3>1. 1 \in DOMAIN item.possible /\ x \in SimpleItemType
      BY <2>2, <2>4
    <3>2. SimpleInv(c, x) /\ ReqSimple(c, x)
      BY <1>1, <1>4, <3>1 DEF ItemInv, ReqItem, ReqAlternative
    <3>3. out = ProcessSimple(c, x)
      BY <1>4, <2>2, <2>4 DEF ProcessItem, ProcessBranch
    <3>4. \A p, d : Answers(c, item, p, d) => AnswersSimple(c, x, p, d)
      BY <1>4, <3>1 DEF Answers, AnswersBranch
    <3> HIDE DEF x
    <3> QED
      BY <1>2, <1>4, <3>1, <3>2, <3>3, <3>4
  <2>5. CASE ~satisfied /\ Len(item.possible) # 1
    <3>1. out = [Outcome(c, <<item>>) EXCEPT !.did = FALSE]
      BY <1>4, <2>2, <2>5 DEF ProcessItem, ProcessBranch
    <3>2. out.context = c /\ out.items = <<item>>
      BY <3>1 DEF Outcome
    <3>3. ToSet(out.items) = {item}
      BY <3>2 DEF ToSet
    <3>4. J = I
      BY <3>3
    <3> QED
      BY <3>2, <3>4
  <2> QED
    BY <2>3, <2>4, <2>5
<1> QED
  BY <1>3, <1>4


-----------------------------------------------------------------------------
(* Branches that contain others *)

\* A strictly increasing function on 1..m grows at least as fast as its argument.
LEMMA IncreasingIsLong ==
  ASSUME NEW m \in Nat, NEW n \in Nat, NEW f \in [1..m -> 1..n],
         \A i, j \in 1..m : i < j => f[i] < f[j]
  PROVE  m <= n /\ (m = n => \A i \in 1..m : f[i] = i)
<1>1. \A i \in 1..m : f[i] \in 1..n
  OBVIOUS
<1>2. \A i \in 1..m : f[i] >= i
  <2> DEFINE T == {i \in 1..m : f[i] < i}
  <2>1. T # {} => \E i \in T : \A j \in T : i <= j
    <3>1. T \in SUBSET Nat
      OBVIOUS
    <3> HIDE DEF T
    <3> QED
      BY <3>1, SmallestExists
  <2>2. ASSUME NEW i \in T, \A j \in T : i <= j PROVE FALSE
    <3>1. i \in 1..m /\ i # 1
      BY <1>1
    <3>2. i - 1 \in 1..m /\ i - 1 < i
      BY <3>1
    <3>3. f[i - 1] >= i - 1
      BY <1>1, <2>2, <3>2
    <3>4. f[i - 1] < f[i] /\ f[i] < i
      BY <3>1, <3>2
    <3> QED
      BY <1>1, <3>1, <3>2, <3>3, <3>4
  <2>3. T = {}
    BY <2>1, <2>2
  <2> QED
    BY <1>1, <2>3
<1>3. m <= n
  <2>1. CASE m = 0
    BY <2>1
  <2>2. CASE m # 0
    <3>1. m \in 1..m
      BY <2>2
    <3> QED
      BY <1>1, <1>2, <3>1
  <2> QED
    BY <2>1, <2>2
<1>4. ASSUME m = n PROVE \A i \in 1..m : f[i] <= i
  <2> DEFINE T == {k \in 0..m : m - k \in 1..m /\ f[m - k] > m - k}
  <2>1. T # {} => \E k \in T : \A j \in T : k <= j
    <3>1. T \in SUBSET Nat
      OBVIOUS
    <3> HIDE DEF T
    <3> QED
      BY <3>1, SmallestExists
  <2>2. ASSUME NEW k \in T, \A j \in T : k <= j PROVE FALSE
    <3>1. k \in 0..m /\ m - k \in 1..m /\ f[m - k] > m - k
      OBVIOUS
    <3>2. k # 0
      BY <1>1, <1>4, <3>1
    <3>3. k - 1 \in 0..m /\ k - 1 < k /\ m - (k - 1) \in 1..m
      BY <3>1, <3>2
    <3>4. f[m - (k - 1)] <= m - (k - 1)
      BY <1>1, <2>2, <3>3
    <3>5. f[m - k] < f[m - (k - 1)]
      BY <3>1, <3>3
    <3> HIDE DEF T
    <3> QED
      BY <1>1, <3>1, <3>3, <3>4, <3>5
  <2>3. T = {}
    BY <2>1, <2>2
  <2>4. ASSUME NEW i \in 1..m, f[i] > i PROVE FALSE
    <3>1. m - i \in 0..m /\ m - (m - i) = i
      OBVIOUS
    <3>2. m - i \in T
      BY <2>4, <3>1
    <3> QED
      BY <2>3, <3>2
  <2> QED
    BY <1>1, <2>4
<1> QED
  BY <1>1, <1>2, <1>3, <1>4

\* A branch that contains another one is longer, or they contain each other.
LEMMA ContainsLength ==
  ASSUME NEW B \in BranchItems, NEW K \in BranchItems, BranchContains(B, K)
  PROVE  /\ Len(K.possible) <= Len(B.possible)
         /\ Len(K.possible) = Len(B.possible) => BranchContains(K, B)
<1> DEFINE big == B.possible  sml == K.possible  m == Len(sml)  n == Len(big)
<1>1. /\ m \in Nat /\ n \in Nat /\ DOMAIN sml = 1..m /\ DOMAIN big = 1..n
  BY DEF BranchItems
<1>2. PICK f \in [DOMAIN sml -> DOMAIN big] :
        /\ \A i, j \in DOMAIN sml : i < j => f[i] < f[j]
        /\ \A i \in DOMAIN sml : SameItem(big[f[i]], sml[i])
  BY DEF BranchContains
<1> HIDE DEF m, n, big, sml
<1>3. f \in [1..m -> 1..n] /\ \A i, j \in 1..m : i < j => f[i] < f[j]
  BY <1>1, <1>2
<1>4. m <= n /\ (m = n => \A i \in 1..m : f[i] = i)
  BY <1>1, <1>3, IncreasingIsLong
<1>5. ASSUME m = n PROVE BranchContains(K, B)
  <2>1. \A i \in 1..m : SameItem(big[i], sml[i])
    BY <1>1, <1>2, <1>4, <1>5
  <2>2. \A i \in DOMAIN big : SameItem(sml[i], big[i])
    BY <1>1, <1>5, <2>1 DEF SameItem, SameSpec
  <2> DEFINE id == [i \in DOMAIN big |-> i]
  <2>3. /\ id \in [DOMAIN big -> DOMAIN sml]
        /\ \A i \in DOMAIN big : id[i] = i
    BY <1>1, <1>5
  <2> HIDE DEF id
  <2>4. /\ \A i, j \in DOMAIN big : i < j => id[i] < id[j]
        /\ \A i \in DOMAIN big : SameItem(sml[id[i]], big[i])
    BY <2>2, <2>3
  <2> QED
    BY <2>3, <2>4 DEF BranchContains, big, sml
<1> QED
  BY <1>4, <1>5 DEF m, n, big, sml

\* Containing is transitive.
LEMMA ContainsFurther ==
  ASSUME NEW B \in BranchItems, NEW K \in BranchItems, NEW L \in BranchItems,
         BranchContains(B, K), BranchContains(K, L)
  PROVE  BranchContains(B, L)
<1> DEFINE big == B.possible  mid == K.possible  sml == L.possible
<1>1. PICK f \in [DOMAIN mid -> DOMAIN big] :
        /\ \A i, j \in DOMAIN mid : i < j => f[i] < f[j]
        /\ \A i \in DOMAIN mid : SameItem(big[f[i]], mid[i])
  BY DEF BranchContains
<1>2. PICK g \in [DOMAIN sml -> DOMAIN mid] :
        /\ \A i, j \in DOMAIN sml : i < j => g[i] < g[j]
        /\ \A i \in DOMAIN sml : SameItem(mid[g[i]], sml[i])
  BY DEF BranchContains
<1> HIDE DEF big, mid, sml
<1> DEFINE h == [i \in DOMAIN sml |-> f[g[i]]]
<1>3. h \in [DOMAIN sml -> DOMAIN big] /\ \A i \in DOMAIN sml : h[i] = f[g[i]] /\ g[i] \in DOMAIN mid
  BY <1>1, <1>2
<1> HIDE DEF h
<1>4. \A i, j \in DOMAIN sml : i < j => h[i] < h[j]
  BY <1>1, <1>2, <1>3
<1>5. \A i \in DOMAIN sml : SameItem(big[h[i]], sml[i])
  BY <1>1, <1>2, <1>3 DEF SameItem, SameSpec
<1> QED
  BY <1>3, <1>4, <1>5 DEF BranchContains, big, sml


\* For every branch a pass leaves it, or one that it contains.
LEMMA SmallerBranchStays ==
  ASSUME NEW new \in Seq(ItemType), NEW B \in ToSet(new), B.type = "branch"
  PROVE  \E K \in ToSet(NextItems(new)) : K.type = "branch" /\ (K = B \/ BranchContains(B, K))
<1> DEFINE items == Reverse(new)
           contains(i, j) == /\ items[i].type = "branch" /\ items[j].type = "branch"
                             /\ BranchContains(items[i], items[j])
           dropped == {i \in DOMAIN items : \E j \in DOMAIN items \ {i} :
                         contains(i, j) /\ (i < j \/ ~contains(j, i))}
           left == DOMAIN items \ dropped
           place == [i \in DOMAIN items |-> i]
           kept == Listed(left, place)
           next == [k \in DOMAIN kept |-> items[kept[k]]]
           n == Len(items)
           size(i) == Len(items[i].possible)
           smaller == {i \in DOMAIN items : items[i].type = "branch" /\ (items[i] = B \/ BranchContains(B, items[i]))}
<1>1. items \in Seq(ItemType) /\ ToSet(items) = ToSet(new)
  BY ReverseType, ReverseAll
<1>2. NextItems(new) = next
  BY DEF NextItems
<1> HIDE DEF items
<1>3. n \in Nat /\ DOMAIN items = 1..n
  BY <1>1
<1>4. \A i \in DOMAIN items : items[i].type = "branch" => items[i] \in BranchItems /\ size(i) \in Nat
  <2> SUFFICES ASSUME NEW i \in DOMAIN items, items[i].type = "branch"
               PROVE  items[i] \in BranchItems /\ size(i) \in Nat
    OBVIOUS
  <2>1. items[i] \in ItemType
    BY <1>1, ElementsOfSequence
  <2> DEFINE item == items[i]
  <2>2. item \in BranchItems
    BY <2>1 DEF ItemType, SimpleItemType, InstallItems, RequireItems, ConflictItems, UninstallItems
  <2>3. Len(item.possible) \in Nat
    BY <2>2 DEF BranchItems
  <2> QED
    BY <2>2, <2>3
<1>5. B \in BranchItems
  <2>1. PICK i \in DOMAIN items : items[i] = B
    BY <1>1 DEF ToSet
  <2> QED
    BY <1>4, <2>1
<1> HIDE DEF size, n
<1>6. smaller \in SUBSET DOMAIN items /\ smaller # {}
  BY <1>1 DEF ToSet
<1>7. PICK i \in smaller : \A j \in smaller : size(i) <= size(j)
  <2> DEFINE T == {size(j) : j \in smaller}
  <2>1. T \in SUBSET Nat /\ T # {}
    BY <1>4, <1>6
  <2>2. PICK t \in T : \A u \in T : t <= u
    <3> HIDE DEF T
    <3> QED
      BY <2>1, SmallestExists
  <2> QED
    BY <2>2
<1>8. PICK j \in smaller : /\ size(j) = size(i)
                           /\ \A k \in smaller : size(k) = size(i) => k <= j
  <2> DEFINE T == {n - j : j \in {k \in smaller : size(k) = size(i)}}
  <2>1. T \in SUBSET Nat /\ T # {}
    BY <1>3, <1>6
  <2>2. PICK t \in T : \A u \in T : t <= u
    <3> HIDE DEF T
    <3> QED
      BY <2>1, SmallestExists
  <2>3. PICK j \in smaller : size(j) = size(i) /\ t = n - j
    BY <2>2
  <2>4. \A k \in smaller : size(k) = size(i) => n - j <= n - k
    BY <2>2, <2>3
  <2>5. \A k \in smaller : size(k) = size(i) => k <= j
    BY <1>3, <1>6, <2>3, <2>4
  <2> QED
    BY <2>3, <2>5
<1>9. j \notin dropped
  <2> SUFFICES ASSUME NEW k \in DOMAIN items \ {j}, contains(j, k), j < k \/ ~contains(k, j)
               PROVE  FALSE
    OBVIOUS
  <2>1. items[j] \in BranchItems /\ items[k] \in BranchItems
    BY <1>4
  <2>2. /\ size(k) <= size(j)
        /\ size(k) = size(j) => contains(k, j)
    BY <2>1, ContainsLength DEF size
  <2>3. k \in smaller
    BY <1>5, <2>1, ContainsFurther
  <2>4. size(k) = size(j)
    BY <1>4, <1>7, <1>8, <2>2, <2>3
  <2>5. k <= j /\ j < k
    BY <1>8, <2>2, <2>3, <2>4
  <2> QED
    BY <1>3, <1>6, <2>5
<1> HIDE DEF dropped
<1>10. /\ kept \in [1..Cardinality(left) -> left]
       /\ \A k \in left : \E l \in 1..Cardinality(left) : kept[l] = k
  <2>1. IsFiniteSet(DOMAIN items)
    BY <1>3, FS_Interval
  <2>2. IsFiniteSet(left)
    BY <2>1, FS_Subset
  <2>3. /\ \A k \in left : place[k] \in Int
        /\ \A k, l \in left : place[k] = place[l] => k = l
    BY <1>3
  <2> HIDE DEF left, place
  <2> QED
    BY <2>2, <2>3, ListedOnce
<1> HIDE DEF kept
<1>11. items[j] \in ToSet(next)
  <2>1. PICK l \in 1..Cardinality(left) : kept[l] = j
    BY <1>9, <1>10
  <2>2. l \in DOMAIN next /\ next[l] = items[j]
    BY <1>10, <2>1
  <2> HIDE DEF next
  <2>3. next[l] \in ToSet(next)
    BY <2>2 DEF ToSet
  <2> QED
    BY <2>2, <2>3
<1> QED
  BY <1>2, <1>11

\* What a branch answers, so does one that it contains, or the package is there in several
\* versions.
LEMMA ContainedAnswers ==
  ASSUME SpecsProvideAlike, world \in WorldType, NEW c, NEW B \in BranchItems, NEW K \in BranchItems,
         ReqItem(c, K), BranchContains(B, K),
         NEW p \in Pkg, NEW d \in Dep, Answers(c, B, p, d)
  PROVE  Answers(c, K, p, d) \/ Unavoidable(c, p, d)
<1> DEFINE big == B.possible  sml == K.possible
<1>1. B.type = "branch" /\ K.type = "branch" /\ big \in Seq(SimpleItemType) /\ sml \in Seq(SimpleItemType)
  BY DEF BranchItems
<1>2. /\ \A i \in DOMAIN big : AnswersSimple(c, big[i], p, d)
      /\ (\A i \in DOMAIN big : big[i].type = "install") \/ LostProvider(c, d)
  BY <1>1 DEF Answers, AnswersBranch, OnlyInstalls
<1>3. sml # <<>> /\ \A i \in DOMAIN sml : ReqAlternative(c, K, sml[i])
  BY <1>1 DEF ReqItem
<1>4. PICK f \in [DOMAIN sml -> DOMAIN big] : \A i \in DOMAIN sml : SameItem(big[f[i]], sml[i])
  BY DEF BranchContains
<1>5. \A q, r \in Pkg : SameSpec(q, r) /\ Helps(c, q, p, d) => Helps(c, r, p, d)
  BY DEF SpecsProvideAlike, Helps, IsNewer, SameSpec
<1>6. \A i \in DOMAIN sml : sml[i] \in SimpleItemType
  BY <1>1, ElementsOfSequence
<1>7. \A i \in DOMAIN big : big[i] \in SimpleItemType
  BY <1>1, ElementsOfSequence
<1> HIDE DEF big, sml
<1>8. ASSUME NEW i \in DOMAIN sml, sml[i].type = "install"
      PROVE  sml[i].package \in Pkg /\ Helps(c, sml[i].package, p, d)
  <2> DEFINE x == sml[i]  y == big[f[i]]
  <2>1. x \in SimpleItemType /\ y \in SimpleItemType /\ SameItem(y, x) /\ AnswersSimple(c, y, p, d)
    BY <1>2, <1>4, <1>6, <1>7
  <2>2. x.type = "install"
    BY <1>8
  <2> HIDE DEF x, y
  <2>3. y.type = "install" /\ SameSpec(y.package, x.package)
    BY <2>1, <2>2 DEF SameItem
  <2>4. x.package \in Pkg /\ y.package \in Pkg
    BY <2>1, <2>2, <2>3 DEF SimpleItemType, InstallItems, RequireItems, ConflictItems, UninstallItems
  <2>5. Helps(c, y.package, p, d)
    BY <2>1, <2>3 DEF AnswersSimple, AsksFor, IsRemovalOf
  <2>6. x.package \in Pkg /\ Helps(c, x.package, p, d)
    BY <1>5, <2>3, <2>4, <2>5
  <2> QED
    BY <2>6 DEF x
<1>9. ASSUME NEW i \in DOMAIN sml, sml[i].type = "install"
      PROVE  AnswersSimple(c, sml[i], p, d)
  <2>1. \A r \in sml[i].neededBy : ChosenFor(c, r, p, d)
    <3> SUFFICES ASSUME NEW r \in sml[i].neededBy PROVE ChosenFor(c, r, p, d)
      OBVIOUS
    <3>1. ChoiceFor(K, sml[i], r)
      BY <1>3, <1>9 DEF ReqAlternative
    <3>2. PICK e \in world.requires[r] \cup world.children[r] :
            /\ \A j \in DOMAIN sml :
                 sml[j].type = "install" /\ sml[j].package \in Providers[e] \ world.installed
            /\ \E j \in DOMAIN sml : ~SameSpec(sml[j].package, sml[i].package)
      BY <3>1 DEF ChoiceFor, sml
    <3>3. PICK j \in DOMAIN sml : ~SameSpec(sml[j].package, sml[i].package)
      BY <3>2
    <3>4. /\ sml[j].package \in Providers[e] \ world.installed /\ Helps(c, sml[j].package, p, d)
          /\ sml[i].package \in Providers[e] \ world.installed /\ Helps(c, sml[i].package, p, d)
      BY <1>8, <3>2
    <3> QED
      BY <3>3, <3>4 DEF ChosenFor
  <2> QED
    BY <1>8, <1>9, <2>1 DEF AnswersSimple
<1>10. ASSUME NEW i \in DOMAIN sml, sml[i].type # "install"
       PROVE  /\ LostProvider(c, d)
              /\ AnswersSimple(c, sml[i], p, d) \/ InSeveralVersions(c, p)
  <2> DEFINE x == sml[i]  y == big[f[i]]
  <2>1. x \in SimpleItemType /\ f[i] \in DOMAIN big /\ SameItem(y, x) /\ AnswersSimple(c, y, p, d)
    BY <1>2, <1>4, <1>6
  <2>2. x.type = "uninstall" /\ ~x.unlink /\ Taken(c, x.package)
    BY <1>3, <1>10 DEF ReqAlternative
  <2>3. y.type = "uninstall"
    BY <2>1, <2>2 DEF SameItem
  <2>4. LostProvider(c, d)
    BY <1>2, <2>1, <2>3
  <2> HIDE DEF x, y
  <2>5. SameSpec(p, x.package)
    BY <2>1, <2>3 DEF AnswersSimple, AsksFor, IsRemovalOf, SameItem
  <2>6. x.package \in Pkg
    BY <2>1, <2>2 DEF SimpleItemType, InstallItems, RequireItems, ConflictItems, UninstallItems
  <2>7. x.package = p => AnswersSimple(c, x, p, d)
    BY <2>2 DEF AnswersSimple, IsRemovalOf
  <2>8. x.package # p => InSeveralVersions(c, p)
    <3>1. VersionOf[p] \in Int
      BY UniverseAssumption
    <3> QED
      BY <2>2, <2>5, <2>6, <3>1 DEF InSeveralVersions, SameSpec
  <2> QED
    BY <2>4, <2>7, <2>8 DEF x
<1>11. CASE \A i \in DOMAIN sml : AnswersSimple(c, sml[i], p, d)
  <2>1. OnlyInstalls(K) \/ LostProvider(c, d)
    BY <1>10 DEF OnlyInstalls, sml
  <2> QED
    BY <1>1, <1>3, <1>11, <2>1 DEF Answers, AnswersBranch, sml
<1>12. CASE ~\A i \in DOMAIN sml : AnswersSimple(c, sml[i], p, d)
  BY <1>9, <1>10, <1>12 DEF Unavoidable
<1> QED
  BY <1>11, <1>12


\* Fewer branches answer as much when for each that is left out one that it contains is left.
LEMMA MetWithoutLarger ==
  ASSUME SpecsProvideAlike, world \in WorldType, NEW c, NEW I \in SUBSET ItemType, Met(c, I),
         NEW J, J \subseteq I, \A item \in I : item.type # "branch" => item \in J,
         \A B \in I : B.type = "branch" =>
           \E K \in J : K.type = "branch" /\ (K = B \/ BranchContains(B, K))
  PROVE  Met(c, J)
<1>1. \A q : Doomed(c, I, q) => Doomed(c, J, q)
  BY DEF Doomed, IsRemovalOf
<1>2. \A q : Replaces(c, I, q) => Replaces(c, J, q)
  BY <1>1 DEF Replaces
<1>3. SoftInv(c, J) /\ \A item \in J : ReqItem(c, item)
  BY <1>2 DEF Met, SoftInv
<1>4. ASSUME NEW p \in Pkg, IsPresent(c, p), NEW d \in MustHave(p)
      PROVE  Owing(c, J, p, d)
  <2>1. Owing(c, I, p, d) /\ d \in Dep
    BY <1>4 DEF Met, ReqInv, MustHave, WorldType
  <2>2. Excused(c, I, p, d) => Excused(c, J, p, d)
    BY <1>2 DEF Excused, RuledOutYet
  <2>3. Hopeless(c, I) => Hopeless(c, J)
    BY DEF Hopeless, IsRemovalOf
  <2>4. ASSUME NEW old \in I, Answers(c, old, p, d) PROVE Owing(c, J, p, d)
    <3>1. CASE old \in J
      BY <2>4, <3>1 DEF Owing
    <3>2. CASE old \notin J
      <4>1. old.type = "branch"
        BY <3>2
      <4>2. PICK K \in J : K.type = "branch" /\ (K = old \/ BranchContains(old, K))
        BY <4>1
      <4>3. BranchContains(old, K)
        BY <3>2, <4>2
      <4>4. \A x \in ItemType : x.type = "branch" => x \in BranchItems
        BY DEF ItemType, SimpleItemType, InstallItems, RequireItems, ConflictItems, UninstallItems
      <4>5. old \in BranchItems /\ K \in BranchItems
        BY <4>1, <4>2, <4>4
      <4>6. Answers(c, K, p, d) \/ Unavoidable(c, p, d)
        BY <1>3, <2>1, <2>4, <4>3, <4>5, ContainedAnswers
      <4> QED
        BY <4>2, <4>6 DEF Owing, Excused
    <3> QED
      BY <3>1, <3>2
  <2> QED
    BY <2>1, <2>2, <2>3, <2>4 DEF Owing
<1> QED
  BY <1>3, <1>4 DEF Met, ReqInv

\* So a pass leaves what is answered.
LEMMA PassKeepsMet ==
  ASSUME SpecsProvideAlike, world \in WorldType, NEW c, NEW new \in Seq(ItemType), Met(c, ToSet(new))
  PROVE  Met(c, ToSet(NextItems(new)))
<1>1. ToSet(new) \in SUBSET ItemType
  BY ElementsOfSequence DEF ToSet
<1>2. /\ ToSet(NextItems(new)) \subseteq ToSet(new)
      /\ \A x \in ToSet(new) : x.type # "branch" => x \in ToSet(NextItems(new))
  BY NextItemsAll
<1> QED
  BY <1>1, <1>2, SmallerBranchStays, MetWithoutLarger

\* As long as the world and the request stay, the same contexts are met.
LEMMA MetUnmoved ==
  ASSUME world' = world, request' = request
  PROVE  \A c, I : Met(c, I)' <=> Met(c, I)
<1>1. \A c, p : GetStatus(c, p)' = GetStatus(c, p)
  BY DEF GetStatus
<1>2. \A p : FindInstalledVersion(p)' = FindInstalledVersion(p)
  BY DEF FindInstalledVersion
<1>3. \A c, p : /\ LostUpgrade(c, p)' <=> LostUpgrade(c, p)
                /\ TakenBack(c, p)' <=> TakenBack(c, p)
                /\ Taken(c, p)' <=> Taken(c, p)
  <2>1. \A c, p : LostUpgrade(c, p)' <=> LostUpgrade(c, p)
    BY <1>1, <1>2 DEF LostUpgrade
  <2>2. \A c, p : TakenBack(c, p)' <=> TakenBack(c, p)
    BY <1>1 DEF TakenBack
  <2>3. \A c, p : Taken(c, p)' <=> Taken(c, p)
    BY <1>1 DEF Taken
  <2> QED
    BY <2>1, <2>2, <2>3
<1>4. \A c, p : /\ Forsaken(c, p)' <=> Forsaken(c, p)
                /\ IsPresent(c, p)' <=> IsPresent(c, p)
                /\ InSeveralVersions(c, p)' <=> InSeveralVersions(c, p)
  <2>1. \A c, p : Forsaken(c, p)' <=> Forsaken(c, p)
    BY <1>3 DEF Forsaken
  <2>2. \A c, p : IsPresent(c, p)' <=> IsPresent(c, p)
    BY <1>1 DEF IsPresent
  <2>3. \A c, p : InSeveralVersions(c, p)' <=> InSeveralVersions(c, p)
    BY <1>3 DEF InSeveralVersions
  <2> QED
    BY <2>1, <2>2, <2>3
<1>5. \A c, d : LostProvider(c, d)' <=> LostProvider(c, d)
  BY <1>1 DEF LostProvider
<1>6. \A c, q, p, d : Helps(c, q, p, d)' <=> Helps(c, q, p, d)
  BY <1>5 DEF Helps, IsNewer
<1>7. \A c, r, p, d : ChosenFor(c, r, p, d)' <=> ChosenFor(c, r, p, d)
  BY <1>6 DEF ChosenFor
<1>8. \A c, p, d : Unavoidable(c, p, d)' <=> Unavoidable(c, p, d)
  BY <1>4, <1>5, <1>6 DEF Unavoidable
<1>9. \A c, I, q : Doomed(c, I, q)' <=> Doomed(c, I, q)
  BY <1>1 DEF Doomed
<1>10. \A c, I, q : Replaces(c, I, q)' <=> Replaces(c, I, q)
  BY <1>3, <1>9 DEF Replaces, IsNewer
<1>11. \A c, I, q : RuledOutYet(c, I, q)' <=> RuledOutYet(c, I, q)
  BY <1>1, <1>10 DEF RuledOutYet
<1>12. \A c, I, p, d : Excused(c, I, p, d)' <=> Excused(c, I, p, d)
  BY <1>1, <1>6, <1>7, <1>8, <1>11 DEF Excused
<1>13. \A c, I : Hopeless(c, I)' <=> Hopeless(c, I)
  BY <1>1 DEF Hopeless
<1>14. \A c, item, p, d : AnswersSimple(c, item, p, d)' <=> AnswersSimple(c, item, p, d)
  BY <1>6, <1>7 DEF AnswersSimple
<1>15. \A c, item, p, d : Answers(c, item, p, d)' <=> Answers(c, item, p, d)
  BY <1>5, <1>14 DEF Answers, AnswersBranch
<1>16. \A c, d : RequirementIsMet(c, d, FALSE)' <=> RequirementIsMet(c, d, FALSE)
  BY <1>4 DEF RequirementIsMet
<1>17. \A c, I, p, d : Owing(c, I, p, d)' <=> Owing(c, I, p, d)
  BY <1>12, <1>13, <1>15, <1>16 DEF Owing
<1>18. \A p : MustHave(p)' = MustHave(p)
  BY DEF MustHave
<1>19. \A c, I : ReqInv(c, I)' <=> ReqInv(c, I)
  BY <1>4, <1>17, <1>18 DEF ReqInv
<1>20. \A c, I : SoftInv(c, I)' <=> SoftInv(c, I)
  BY <1>1, <1>10 DEF SoftInv
<1>21. \A c, item : ReqSimple(c, item)' <=> ReqSimple(c, item)
  BY <1>5 DEF ReqSimple, IsNewer
<1>22. \A branch, x, r : ChoiceFor(branch, x, r)' <=> ChoiceFor(branch, x, r)
  BY DEF ChoiceFor
<1>23. \A c, branch, x : ReqAlternative(c, branch, x)' <=> ReqAlternative(c, branch, x)
  BY <1>3, <1>21, <1>22 DEF ReqAlternative
<1>24. \A c, item : ReqItem(c, item)' <=> ReqItem(c, item)
  BY <1>21, <1>23 DEF ReqItem
<1> QED
  BY <1>19, <1>20, <1>24 DEF Met


-----------------------------------------------------------------------------
(* The queues of alternatives *)

\* A copy of an alternative, charged for its channel if it is an install item.
Charged(x, penalty) ==
  IF CopyItem(x).type = "install" THEN [CopyItem(x) EXCEPT !.penalty = penalty] ELSE CopyItem(x)

\* A copy of an item that is no branch, charged or not, does what the item did.
LEMMA CopyServes ==
  ASSUME NEW c, NEW e, Later(c, e), NEW x \in SimpleItemType, NEW penalty,
         NEW y \in {CopyItem(x), Charged(x, penalty)}
  PROVE  /\ ReqSimple(c, x) => ReqItem(e, y)
         /\ \A p, d : d \in Dep /\ AnswersSimple(c, x, p, d) => Answers(e, y, p, d)
<1>1. /\ ReqSimple(c, x) => ReqSimple(e, x)
      /\ \A p, d : d \in Dep /\ AnswersSimple(c, x, p, d) => AnswersSimple(e, x, p, d)
  BY ReqItemStays, AnswerStays
<1>2. CASE x \in InstallItems
  <2> DEFINE copy == [x EXCEPT !.explicit = FALSE]
             paid == [copy EXCEPT !.penalty = penalty]
  <2>1. x.type = "install"
    BY <1>2 DEF InstallItems
  <2>2. CopyItem(x) = copy
    BY <2>1 DEF CopyItem
  <2>3. /\ copy.type = "install" /\ copy.package = x.package /\ copy.upgrades = x.upgrades
        /\ copy.neededBy = x.neededBy
    BY <1>2 DEF InstallItems
  <2>4. /\ paid.type = "install" /\ paid.package = x.package /\ paid.upgrades = x.upgrades
        /\ paid.neededBy = x.neededBy
    BY <1>2 DEF InstallItems
  <2> HIDE DEF copy, paid
  <2>5. y \in {copy, paid}
    BY <2>2, <2>3 DEF paid, Charged
  <2>6. /\ y.type = "install" /\ y.package = x.package /\ y.upgrades = x.upgrades
        /\ y.neededBy = x.neededBy
    BY <2>3, <2>4, <2>5
  <2>7. ReqSimple(e, x) => ReqItem(e, y)
    BY <2>1, <2>6 DEF ReqSimple, ReqItem
  <2>8. \A p, d : AnswersSimple(e, x, p, d) => Answers(e, y, p, d)
    BY <2>1, <2>6 DEF AnswersSimple, Answers, AsksFor, IsRemovalOf
  <2> QED
    BY <1>1, <2>7, <2>8
<1>3. CASE x \in RequireItems \cup ConflictItems \cup UninstallItems
  <2> DEFINE copy == CopyItem(x)
  <2>1. /\ copy.type = x.type /\ x.type \in {"require", "conflict", "uninstall"}
        /\ x.type = "require" =>
             /\ copy.dep = x.dep /\ copy.requiring = x.requiring
             /\ copy.upgraded = x.upgraded /\ copy.isChild = FALSE
        /\ x.type = "uninstall" => copy = x
    BY <1>3, CopyOfOthers
  <2>2. y = copy
    BY <2>1 DEF Charged
  <2> HIDE DEF copy
  <2>3. ReqSimple(e, x) => ReqItem(e, copy)
    BY <2>1 DEF ReqSimple, ReqItem
  <2>4. \A p, d : AnswersSimple(e, x, p, d) => Answers(e, copy, p, d)
    BY <2>1 DEF AnswersSimple, Answers, AsksFor, IsRemovalOf
  <2> QED
    BY <1>1, <2>2, <2>3, <2>4
<1> QED
  BY <1>2, <1>3 DEF SimpleItemType

\* So does a copy of a branch.
LEMMA CopiedBranchServes ==
  ASSUME NEW c, NEW e, Later(c, e), NEW branch \in BranchItems
  PROVE  /\ ReqItem(c, branch) => ReqItem(e, CopyItem(branch))
         /\ \A p, d : d \in Dep /\ Answers(c, branch, p, d) => Answers(e, CopyItem(branch), p, d)
<1> DEFINE alternatives == branch.possible
           back == Reverse(alternatives)
           copy == [branch EXCEPT !.possible = back]
<1>1. branch.type = "branch" /\ alternatives \in Seq(SimpleItemType) /\ branch \in ItemType
  BY DEF BranchItems, ItemType
<1>2. CopyItem(branch) = copy
  BY <1>1 DEF CopyItem
<1>3. back \in Seq(SimpleItemType) /\ ToSet(back) = ToSet(alternatives)
  BY <1>1, ReverseType, ReverseAll
<1>4. copy.type = "branch" /\ copy.possible = back
  BY <1>1 DEF BranchItems
<1>5. ReqItem(c, branch) => ReqItem(e, branch)
  BY <1>1, ReqItemStays
<1>6. \A p, d : d \in Dep /\ Answers(c, branch, p, d) => Answers(e, branch, p, d)
  BY AnswerStays
<1>7. /\ \A i \in DOMAIN back : \E j \in DOMAIN alternatives : back[i] = alternatives[j]
      /\ \A j \in DOMAIN alternatives : \E i \in DOMAIN back : back[i] = alternatives[j]
  <2> HIDE DEF back, alternatives
  <2> QED
    BY <1>3 DEF ToSet
<1>8. alternatives # <<>> => back # <<>>
  <2>1. Len(back) = Len(alternatives)
    BY <1>1 DEF Reverse
  <2> QED
    BY <1>1, <1>3, <2>1
<1> HIDE DEF copy, back, alternatives
<1>9. \A x, r : ChoiceFor(branch, x, r) => ChoiceFor(copy, x, r)
  <2> SUFFICES ASSUME NEW x, NEW r, ChoiceFor(branch, x, r) PROVE ChoiceFor(copy, x, r)
    OBVIOUS
  <2>1. PICK f \in world.requires[r] \cup world.children[r] :
          /\ \A i \in DOMAIN alternatives :
               alternatives[i].type = "install" /\ alternatives[i].package \in Providers[f] \ world.installed
          /\ \E i \in DOMAIN alternatives : ~SameSpec(alternatives[i].package, x.package)
    BY DEF ChoiceFor, alternatives
  <2>2. /\ \A i \in DOMAIN back : back[i].type = "install" /\ back[i].package \in Providers[f] \ world.installed
        /\ \E i \in DOMAIN back : ~SameSpec(back[i].package, x.package)
    BY <1>7, <2>1
  <2> QED
    BY <1>4, <2>2 DEF ChoiceFor
<1>10. \A x : ReqAlternative(e, branch, x) => ReqAlternative(e, copy, x)
  BY <1>9 DEF ReqAlternative
<1>11. ReqItem(e, branch) => ReqItem(e, copy)
  <2> SUFFICES ASSUME ReqItem(e, branch) PROVE ReqItem(e, copy)
    OBVIOUS
  <2>1. alternatives # <<>> /\ \A i \in DOMAIN alternatives : ReqAlternative(e, branch, alternatives[i])
    BY <1>1 DEF ReqItem, alternatives
  <2>2. back # <<>> /\ \A i \in DOMAIN back : ReqAlternative(e, copy, back[i])
    BY <1>7, <1>8, <1>10, <2>1
  <2> QED
    BY <1>4, <2>2 DEF ReqItem
<1>12. ASSUME NEW p, NEW d, Answers(e, branch, p, d) PROVE Answers(e, copy, p, d)
  <2>1. /\ alternatives # <<>> /\ \A i \in DOMAIN alternatives : AnswersSimple(e, alternatives[i], p, d)
        /\ (\A i \in DOMAIN alternatives : alternatives[i].type = "install") \/ LostProvider(e, d)
    BY <1>1, <1>12 DEF Answers, AnswersBranch, OnlyInstalls, alternatives
  <2>2. /\ back # <<>> /\ \A i \in DOMAIN back : AnswersSimple(e, back[i], p, d)
        /\ (\A i \in DOMAIN back : back[i].type = "install") \/ LostProvider(e, d)
    BY <1>7, <1>8, <2>1
  <2> QED
    BY <1>4, <2>2 DEF Answers, AnswersBranch, OnlyInstalls
<1> QED
  BY <1>2, <1>5, <1>6, <1>11, <1>12

\* J are copies of I, with y in the place of first.
AreCopies(I, first, y, J) ==
  /\ \A new \in J : new = y \/ \E old \in I : new = CopyItem(old)
  /\ \A old \in I : CopyItem(old) \in J \/ (old = first /\ y \in J)

HasStatusesOf(e, c) == e.verifying = c.verifying /\ \A q \in Pkg : GetStatus(e, q) = GetStatus(c, q)

\* A queue of branches is served as well by copies of them, over a context with the same
\* statuses, and of one branch by a copy of one of its alternatives.
LEMMA CopiesServe ==
  ASSUME world \in WorldType, NEW c, NEW I \in SUBSET BranchItems, Met(c, I),
         NEW e, HasStatusesOf(e, c),
         NEW first \in I, NEW i \in DOMAIN first.possible, NEW penalty,
         NEW J, AreCopies(I, first, Charged(first.possible[i], penalty), J)
  PROVE  Met(e, J)
<1> DEFINE x    == first.possible[i]
           paid == Charged(x, penalty)
<1>1. Later(c, e)
  BY DEF HasStatusesOf, Later, Taken
<1>2. \A old \in I : old.type = "branch"
  BY DEF BranchItems
<1>3. x \in SimpleItemType
  BY ElementsOfSequence DEF BranchItems
<1>4. /\ \A q : ~\E item \in I : IsRemovalOf(item, q)
      /\ \A q \in Pkg : Doomed(c, I, q) => Doomed(e, J, q)
  BY <1>2 DEF HasStatusesOf, Doomed, IsRemovalOf
<1>5. ReqAlternative(c, first, x)
  BY <1>2 DEF Met, ReqItem
<1>6. /\ \A y \in J : y = paid \/ \E old \in I : y = CopyItem(old)
      /\ \A old \in I : CopyItem(old) \in J \/ (old = first /\ paid \in J)
  BY DEF AreCopies
<1>7. i \in DOMAIN first.possible /\ x = first.possible[i] /\ paid \in {CopyItem(x), Charged(x, penalty)}
  OBVIOUS
<1> HIDE DEF x, paid
<1>8. \A y \in J : ReqItem(e, y)
  <2>1. ReqItem(e, paid)
    BY <1>1, <1>3, <1>5, <1>7, CopyServes DEF ReqAlternative
  <2>2. \A old \in I : ReqItem(e, CopyItem(old))
    BY <1>1, CopiedBranchServes DEF Met
  <2> QED
    BY <1>6, <2>1, <2>2
<1>9. SoftInv(e, J)
  <2>1. world.installed \in SUBSET Pkg
    BY DEF WorldType
  <2>2. \A q \in Pkg : Replaces(c, I, q) => Replaces(e, J, q)
    BY <1>1, <1>4 DEF Replaces, Later
  <2> QED
    BY <2>1, <2>2 DEF HasStatusesOf, Met, SoftInv
<1>10. ASSUME NEW p \in Pkg, IsPresent(e, p), NEW d \in MustHave(p)
      PROVE  Owing(e, J, p, d)
  <2>1. d \in Dep /\ Providers[d] \in SUBSET Pkg
    BY UniverseAssumption DEF MustHave, WorldType
  <2>2. Owing(c, I, p, d)
    BY <1>10 DEF HasStatusesOf, Met, ReqInv, IsPresent
  <2>3. RequirementIsMet(c, d, FALSE) => RequirementIsMet(e, d, FALSE)
    BY <2>1 DEF HasStatusesOf, RequirementIsMet, IsPresent
  <2>4. Excused(c, I, p, d) => Excused(e, J, p, d)
    BY <1>1, <1>4, <2>1, ExcuseStays
  <2>5. ~Hopeless(c, I)
    BY <1>4 DEF Hopeless
  <2>6. ASSUME NEW old \in I, Answers(c, old, p, d) PROVE \E y \in J : Answers(e, y, p, d)
    <3>1. CASE CopyItem(old) \in J
      BY <1>1, <2>1, <2>6, <3>1, CopiedBranchServes
    <3>2. CASE old = first /\ paid \in J
      <4>1. AnswersSimple(c, x, p, d)
        BY <1>2, <1>7, <2>6, <3>2 DEF Answers, AnswersBranch
      <4>2. Answers(e, paid, p, d)
        BY <1>1, <1>3, <1>7, <2>1, <4>1, CopyServes
      <4> QED
        BY <3>2, <4>2
    <3> QED
      BY <1>6, <3>1, <3>2
  <2> QED
    BY <2>2, <2>3, <2>4, <2>5, <2>6 DEF Owing
<1> QED
  BY <1>8, <1>9, <1>10 DEF Met, ReqInv


-----------------------------------------------------------------------------
(* The search *)

MetQueue(q)  == Met(q.context, ToSet(q.items))
MetQueues(s) == \A i \in DOMAIN s : MetQueue(s[i])

\* What is required is owed at most in every queue and in the one being processed, as long as
\* that may have a solution, and not owed in a solution.
MetInv ==
  /\ MetQueues(pending) /\ MetQueues(deferred)
  /\ pc \in {"process", "classify"} /\ ~cur.context.invalid => Met(cur.context, Owed)
  /\ \A i \in DOMAIN complete : Met(complete[i], {})

\* The queue of an alternative of the first branch does what the queue of branches did.
LEMMA AlternativeMet ==
  ASSUME TypeOK, ~cur.context.invalid, Good(cur.context, Owed), Met(cur.context, Owed),
         cur.new = <<>>, \A i \in DOMAIN cur.items : cur.items[i].type = "branch",
         FirstBranch \in DOMAIN cur.items,
         NEW item, NEW n \in DOMAIN cur.items[FirstBranch].possible,
         item = cur.items[FirstBranch].possible[n]
  PROVE  MetQueue(Alternative(item))
<1> DEFINE c     == cur.context
           e     == NewChild(c)
           first == cur.items[FirstBranch]
           penalty == -PriorityOf[CopyItem(item).package]
           paid  == Charged(item, penalty)
           items == [i \in DOMAIN cur.items |-> IF i = FirstBranch THEN paid ELSE CopyItem(cur.items[i])]
           I     == ToSet(cur.items)
           J     == ToSet(items)
<1>1. c \in ContextType /\ cur.items \in Seq(ItemType) /\ world \in WorldType
  BY DEF TypeOK, WorkingType
<1>2. Owed = I
  <2>1. ToSet(cur.new) = {}
    BY DEF ToSet
  <2> QED
    BY <2>1 DEF Owed
<1>3. I \in SUBSET BranchItems
  <2>1. \A i \in DOMAIN cur.items : cur.items[i] \in BranchItems
    BY <1>1, ElementsOfSequence
       DEF ItemType, SimpleItemType, InstallItems, RequireItems, ConflictItems, UninstallItems
  <2> QED
    BY <2>1 DEF ToSet
<1>4. IsUsable(c)
  BY <1>1 DEF Good, StatusInv, IsUsable
<1>5. e.verifying = c.verifying /\ \A q \in Pkg : GetStatus(e, q) = GetStatus(c, q)
  <2>1. e.verifying = c.verifying
    BY <1>1 DEF NewChild, ContextType
  <2> QED
    BY <1>4, <2>1, NewChildStatus
<1>6. first \in I
  BY DEF ToSet
<1>7. \A y \in J : y = paid \/ \E old \in I : y = CopyItem(old)
  <2> HIDE DEF paid
  <2> QED
    BY DEF ToSet
<1>8. \A old \in I : CopyItem(old) \in J \/ (old = first /\ paid \in J)
  <2> HIDE DEF paid
  <2> SUFFICES ASSUME NEW i \in DOMAIN cur.items
               PROVE  \/ CopyItem(cur.items[i]) \in J
                      \/ cur.items[i] = first /\ paid \in J
    BY DEF ToSet
  <2>1. items[i] \in J
    BY DEF ToSet
  <2> HIDE DEF J
  <2> QED
    BY <2>1
<1>9. Alternative(item) = [context |-> e, items |-> items]
  BY DEF Alternative, Queue, Charged
<1>10. Met(c, I)
  BY <1>2
<1>11. n \in DOMAIN first.possible /\ paid = Charged(first.possible[n], penalty)
  OBVIOUS
<1> HIDE DEF c, e, first, I, J, paid, penalty
<1>12. Met(e, J)
  <2>1. AreCopies(I, first, Charged(first.possible[n], penalty), J)
    BY <1>7, <1>8, <1>11 DEF AreCopies
  <2>2. world \in WorldType /\ I \in SUBSET BranchItems /\ Met(c, I) /\ first \in I
    BY <1>1, <1>3, <1>6, <1>10
  <2>3. n \in DOMAIN first.possible /\ HasStatusesOf(e, c)
    BY <1>5, <1>11 DEF HasStatusesOf
  <2> QED
    BY <2>1, <2>2, <2>3, CopiesServe
<1> QED
  BY <1>9, <1>12 DEF MetQueue, J

\* In a turn of the loop, what was put in its place still does what it did.
LEMMA TurnMet ==
  ASSUME NEW S, NEW P \in Seq(S), NEW D \in Seq(S), NEW C,
         MetQueues(P), MetQueues(D), \A i \in DOMAIN C : Met(C[i], {}),
         Turn(P, D, C)
  PROVE  MetInv'
<1>1. world' = world /\ request' = request /\ pc' = "loop" /\ complete' = C
  BY DEF Turn
<1>2. \A c, I : Met(c, I)' <=> Met(c, I)
  BY <1>1, MetUnmoved
<1>3. MetQueues(pending') /\ MetQueues(deferred')
  <2>1. ASSUME D # <<>>
        PROVE  MetQueues(<<Head(D)>>) /\ MetQueues(Tail(D))
    <3>1. Len(D) \in Nat \ {0} /\ 1 \in DOMAIN D /\ Head(D) = D[1]
      BY <2>1
    <3>2. \A i \in DOMAIN Tail(D) : i + 1 \in DOMAIN D /\ Tail(D)[i] = D[i + 1]
      BY <2>1
    <3>3. DOMAIN <<Head(D)>> = {1} /\ <<Head(D)>>[1] = Head(D)
      OBVIOUS
    <3> QED
      BY <3>1, <3>2, <3>3 DEF MetQueues
  <2>2. /\ pending' \in {P, <<Head(D)>>} /\ deferred' \in {D, Tail(D)}
        /\ (pending' = P \/ D # <<>>) /\ (deferred' = D \/ D # <<>>)
    BY DEF Turn
  <2> QED
    BY <2>1, <2>2
<1>4. (MetQueues(pending) /\ MetQueues(deferred))'
  BY <1>2, <1>3 DEF MetQueues, MetQueue
<1>5. (\A i \in DOMAIN complete : Met(complete[i], {}))'
  BY <1>1, <1>2
<1> QED
  BY <1>1, <1>4, <1>5 DEF MetInv

\* Splitting a queue of branches leaves nothing undone.
LEMMA SplitMet == ASSUME TypeOK, OnlyBranchesAreSplit, GoodInv, MetInv, Split PROVE MetInv'
<1> DEFINE alternatives == IF Branches = {} THEN <<>> ELSE cur.items[FirstBranch].possible
           unlikely     == ToDefer(alternatives)
           order(I)     == Reverse(Listed(I, [i \in DOMAIN alternatives |-> i]))
           queues(s)    == [k \in DOMAIN s |-> Alternative(alternatives[s[k]])]
           Serving      == {q \in QueueType : MetQueue(q)}
           P == queues(order(DOMAIN alternatives \ unlikely)) \o pending
           D == queues(order(unlikely)) \o deferred
<1>1. /\ cur \in WorkingType /\ cur.items \in Seq(ItemType)
      /\ pending \in Seq(QueueType) /\ deferred \in Seq(QueueType)
  BY DEF TypeOK, WorkingType
<1>2. /\ ~cur.context.invalid /\ Good(cur.context, Owed) /\ Met(cur.context, Owed) /\ cur.new = <<>>
      /\ \A i \in DOMAIN cur.items : cur.items[i].type = "branch"
  BY DEF Split, GoodInv, MetInv, OnlyBranchesAreSplit, Branches
<1>3. /\ alternatives \in Seq(SimpleItemType)
      /\ \A n \in DOMAIN alternatives :
           /\ FirstBranch \in DOMAIN cur.items
           /\ n \in DOMAIN cur.items[FirstBranch].possible
           /\ alternatives[n] = cur.items[FirstBranch].possible[n]
  <2>1. CASE Branches = {}
    BY <2>1
  <2>2. CASE Branches # {}
    <3>1. Branches \in SUBSET Nat
      BY <1>1 DEF Branches
    <3>2. \E i \in Branches : \A j \in Branches : i <= j
      BY <2>2, <3>1, SmallestExists
    <3>3. FirstBranch \in Branches
      BY <3>2 DEF FirstBranch
    <3> DEFINE branch == cur.items[FirstBranch]
    <3>4. branch \in ItemType /\ branch.type = "branch"
      BY <1>1, <3>3 DEF Branches
    <3> HIDE DEF branch
    <3>5. branch \in BranchItems
      BY <3>4 DEF ItemType, SimpleItemType, InstallItems, RequireItems, ConflictItems, UninstallItems
    <3> QED
      BY <2>2, <3>3, <3>5 DEF BranchItems, Branches, branch
  <2> QED
    BY <2>1, <2>2
<1>4. unlikely \in SUBSET DOMAIN alternatives
  BY DEF ToDefer
<1>5. Turn(P, D, complete)
  BY DEF Split
<1> HIDE DEF alternatives, unlikely
<1>6. ASSUME NEW I \in SUBSET DOMAIN alternatives
      PROVE  queues(order(I)) \in Seq(Serving)
  <2>1. DOMAIN alternatives = 1..Len(alternatives) /\ Len(alternatives) \in Nat
    BY <1>3
  <2>2. Listed(I, [i \in DOMAIN alternatives |-> i]) \in Seq(DOMAIN alternatives)
    BY <2>1, ListedIndices
  <2>3. order(I) \in Seq(DOMAIN alternatives)
    BY <2>2, ReverseType
  <2> HIDE DEF order
  <2>4. ASSUME NEW k \in DOMAIN order(I) PROVE queues(order(I))[k] \in Serving
    <3> DEFINE n == order(I)[k]
               item == alternatives[n]
    <3>1. n \in DOMAIN alternatives /\ item \in SimpleItemType
      BY <1>3, <2>3, ElementsOfSequence
    <3> HIDE DEF n
    <3>2. /\ FirstBranch \in DOMAIN cur.items /\ n \in DOMAIN cur.items[FirstBranch].possible
          /\ item = cur.items[FirstBranch].possible[n]
      BY <1>3, <3>1
    <3> HIDE DEF item
    <3>3. Alternative(item) \in QueueType /\ MetQueue(Alternative(item))
      BY <1>1, <1>2, <3>1, <3>2, AlternativeType, AlternativeMet
    <3> QED
      BY <3>3 DEF item, n
  <2> QED
    BY <2>3, <2>4, MappedType
<1> HIDE DEF order, queues
<1>7. pending \in Seq(Serving) /\ deferred \in Seq(Serving)
  <2>1. /\ \A i \in DOMAIN pending : pending[i] \in Serving
        /\ \A i \in DOMAIN deferred : deferred[i] \in Serving
    BY <1>1, ElementsOfSequence DEF MetInv, MetQueues
  <2> HIDE DEF Serving
  <2> QED
    BY <1>1, <2>1
<1>8. \A q \in Serving : MetQueue(q)
  OBVIOUS
<1> HIDE DEF Serving
<1>9. P \in Seq(Serving) /\ D \in Seq(Serving)
  <2>1. /\ queues(order(DOMAIN alternatives \ unlikely)) \in Seq(Serving)
        /\ queues(order(unlikely)) \in Seq(Serving)
    BY <1>4, <1>6
  <2> QED
    BY <1>7, <2>1
<1> HIDE DEF P, D
<1>10. MetQueues(P) /\ MetQueues(D)
  BY <1>8, <1>9, ElementsOfSequence DEF MetQueues
<1> QED
  BY <1>5, <1>9, <1>10, TurnMet DEF MetInv


\* Processing an item leaves nothing undone.
LEMMA StepMet == ASSUME TypeOK, GoodInv, MetInv, NEW type, Step(type) PROVE MetInv'
<1> DEFINE c     == cur.context
           item  == cur.items[NextItem]
           out   == ProcessItem(c, item)
           left  == RemoveAt(cur.items, NextItem)
           added == cur.new \o out.items
           I     == Owed
           J     == ToSet(left) \cup ToSet(added)
<1>1. /\ c \in ContextType /\ cur.items \in Seq(ItemType) /\ cur.new \in Seq(ItemType)
      /\ world \in WorldType /\ request \in RequestType
      /\ pc = "process" /\ ~c.invalid /\ Good(c, I) /\ Met(c, I)
  BY DEF TypeOK, WorkingType, Step, GoodInv, MetInv
<1>2. NextItem \in DOMAIN cur.items
  BY <1>1, NextItemExists DEF Step
<1>3. item \in ItemType
  BY <1>1, <1>2, ElementsOfSequence
<1>4. out.items \in Seq(ItemType)
  BY <1>1, <1>3, ProcessItemFollows DEF Follows, OutcomeType
<1>5. /\ cur'.context = out.context /\ cur'.items = left /\ cur'.new = added
      /\ pc' = IF out.aborted THEN "aborted" ELSE pc
      /\ UNCHANGED <<world, request, pending, deferred, complete>>
  BY DEF Step
<1>6. I \in SUBSET ItemType /\ item \in I
  BY <1>1, <1>2, ElementsOfSequence DEF Owed, ToSet
<1>7. /\ ToSet(left) \subseteq ToSet(cur.items)
      /\ \A x \in ToSet(cur.items) : x # item => x \in ToSet(left)
  BY <1>1, <1>2, RemoveAtAll
<1> HIDE DEF out, left, c, item
<1>8. ToSet(added) = ToSet(cur.new) \cup ToSet(out.items)
  BY <1>1, <1>4, ConcatAll
<1> HIDE DEF added
<1>9. /\ J \subseteq I \cup ToSet(out.items) /\ ToSet(out.items) \subseteq J
      /\ \A old \in I : old # item => old \in J
  BY <1>7, <1>8 DEF Owed
<1>10. ASSUME ~out.aborted, ~out.context.invalid PROVE Met(out.context, J)
  <2> HIDE DEF I, J
  <2> QED
    BY <1>1, <1>6, <1>9, <1>10, ItemKeepsMet DEF out
<1>11. \A x, X : Met(x, X)' <=> Met(x, X)
  BY <1>5, MetUnmoved
<1>12. Owed' = J
  BY <1>5 DEF Owed
<1>13. (pc \in {"process", "classify"} /\ ~cur.context.invalid => Met(cur.context, Owed))'
  <2>1. pc' = "process" /\ ~cur'.context.invalid => Met(cur'.context, Owed')
    <3> HIDE DEF J
    <3> QED
      BY <1>1, <1>5, <1>10, <1>12
  <2>2. pc' # "classify"
    BY <1>1, <1>5
  <2> QED
    BY <1>11, <2>1, <2>2
<1>14. (MetQueues(pending) /\ MetQueues(deferred))'
  BY <1>5, <1>11 DEF MetInv, MetQueues, MetQueue
<1>15. (\A i \in DOMAIN complete : Met(complete[i], {}))'
  BY <1>5, <1>11 DEF MetInv
<1> QED
  BY <1>13, <1>14, <1>15 DEF MetInv

\* A pass ends with what is left to do in the queue, the larger branches excepted.
LEMMA EndPassMet == ASSUME SpecsProvideAlike, TypeOK, MetInv, EndPass PROVE MetInv'
<1> DEFINE items == NextItems(cur.new)
<1>1. /\ cur.new \in Seq(ItemType) /\ pc = "process" /\ world \in WorldType
      /\ cur.items = <<>> \/ cur.context.invalid
      /\ UNCHANGED <<world, request, pending, deferred, complete>>
  BY DEF TypeOK, WorkingType, EndPass
<1>2. cur'.context = cur.context /\ cur'.items = items /\ cur'.new = <<>>
  BY DEF EndPass, Working
<1>3. ASSUME ~cur.context.invalid PROVE Met(cur.context, ToSet(items))
  <2>1. Owed = ToSet(cur.new)
    BY <1>1, <1>3 DEF Owed, ToSet
  <2>2. Met(cur.context, ToSet(cur.new))
    BY <1>1, <1>3, <2>1 DEF MetInv
  <2> QED
    BY <1>1, <2>2, PassKeepsMet
<1> HIDE DEF items
<1>4. Owed' = ToSet(items)
  BY <1>2 DEF Owed, ToSet
<1>6. \A x, X : Met(x, X)' <=> Met(x, X)
  BY <1>1, MetUnmoved
<1>7. (pc \in {"process", "classify"} /\ ~cur.context.invalid => Met(cur.context, Owed))'
  <2>1. ~cur'.context.invalid => Met(cur'.context, Owed')
    BY <1>2, <1>3, <1>4
  <2> QED
    BY <1>6, <2>1
<1>8. (MetQueues(pending) /\ MetQueues(deferred))'
  BY <1>1, <1>6 DEF MetInv, MetQueues, MetQueue
<1>9. (\A i \in DOMAIN complete : Met(complete[i], {}))'
  BY <1>1, <1>6 DEF MetInv
<1> QED
  BY <1>7, <1>8, <1>9 DEF MetInv

\* A queue that is taken up does what it did.
LEMMA PopQueueMet == ASSUME TypeOK, MetInv, PopQueue PROVE MetInv'
<1> DEFINE q == Head(pending)
<1>1. /\ pending \in Seq(QueueType) /\ pending # <<>>
      /\ cur' = Working(q.context, q.items, FALSE) /\ pending' = Tail(pending)
      /\ UNCHANGED <<world, request, deferred, complete>>
  BY DEF TypeOK, PopQueue
<1>2. MetQueue(q) /\ MetQueues(Tail(pending))
  <2>1. 1 \in DOMAIN pending /\ q = pending[1]
    BY <1>1
  <2>2. \A i \in DOMAIN Tail(pending) : i + 1 \in DOMAIN pending /\ Tail(pending)[i] = pending[i + 1]
    BY <1>1
  <2> HIDE DEF q
  <2> QED
    BY <2>1, <2>2 DEF MetInv, MetQueues
<1> HIDE DEF q
<1>3. cur'.context = q.context /\ cur'.items = q.items /\ cur'.new = <<>>
  BY <1>1 DEF Working
<1>4. Owed' = ToSet(q.items)
  BY <1>3 DEF Owed, ToSet
<1>5. \A x, X : Met(x, X)' <=> Met(x, X)
  BY <1>1, MetUnmoved
<1>6. Met(cur.context, Owed)'
  BY <1>2, <1>3, <1>4, <1>5 DEF MetQueue
<1>7. (MetQueues(pending) /\ MetQueues(deferred))'
  BY <1>1, <1>2, <1>5 DEF MetInv, MetQueues, MetQueue
<1>8. (\A i \in DOMAIN complete : Met(complete[i], {}))'
  BY <1>1, <1>5 DEF MetInv
<1> QED
  BY <1>6, <1>7, <1>8 DEF MetInv


\* Before anything was decided, a package that is installed has what it had, or is to be
\* verified, and nothing else is there.
LEMMA InitialQueueMet ==
  ASSUME world \in WorldType, request \in RequestType
  PROVE  MetQueue(InitialQueue(request))
<1> DEFINE c == NewContext(request.verifying)
           comers   == {p \in request.install : ~IsPresent(c, p)}
           goers    == {p \in request.remove : ~IsAbsent(c, p)}
           wanted   == InOrder(comers)
           unwanted == InOrder(goers)
           installs == [i \in DOMAIN wanted |-> NewInstall(wanted[i], {}, TRUE)]
           removals == [i \in DOMAIN unwanted |->
                          [UninstallItem(unwanted[i]) EXCEPT !.explicit = TRUE, !.removeOnly = TRUE]]
           arrays   == <<world.requires, world.children, world.conflicts>>
           listed   == Listed(ToVerify(arrays), VerifyPosition)
           verified == [i \in DOMAIN listed |-> VerifyItem(listed[i])]
           deps     == DepsInOrder(request.extraDeps)
           opposed  == DepsInOrder(request.extraConflicts)
           requires == [i \in DOMAIN deps |-> RequireItem(deps[i], NONE, FALSE, FALSE, NONE)]
           conflicts == [i \in DOMAIN opposed |-> ConflictItem(opposed[i], NONE, FALSE)]
           G == {item \in ItemType : ReqItem(c, item)}
           items == installs \o removals \o Verifications(request) \o Extras(request)
           I == ToSet(Reverse(items))
<1>1. /\ request.install \in SUBSET Pkg /\ request.remove \in SUBSET Pkg
      /\ request.extraDeps \in SUBSET Dep /\ request.extraConflicts \in SUBSET Dep
      /\ request.verifying \in BOOLEAN
  BY DEF RequestType
<1>2. \A p \in Pkg : GetStatus(c, p) = IF p \in world.installed THEN "INSTALLED" ELSE "UNINSTALLED"
  BY <1>1, NewContextStatus
<1> HIDE DEF c
<1>3. comers \in SUBSET Pkg /\ goers \in SUBSET Pkg /\ \A p \in comers : p \notin world.installed
  BY <1>1, <1>2 DEF IsPresent, ToBeInstalled
<1>4. wanted \in Seq(comers) /\ unwanted \in Seq(goers)
  <2> HIDE DEF comers, goers
  <2> QED
    BY <1>3, InOrderType
<1>5. /\ listed \in Seq(Pkg \X (1..3) \X Dep)
      /\ ToSet(listed) = ToVerify(arrays)
  <2> HIDE DEF arrays
  <2> QED
    BY VerifyListType
<1>6. deps \in Seq(Dep) /\ opposed \in Seq(Dep)
  <2>1. \A D \in SUBSET Dep : DepsInOrder(D) \in Seq(Dep)
    BY DepsInOrderType
  <2> QED
    BY <1>1, <2>1
<1>7. InitialQueue(request) = Queue(c, Reverse(items))
  BY DEF InitialQueue, RequestedInstalls, RequestedRemovals, Map, c
<1> HIDE DEF comers, goers, wanted, unwanted, listed, deps, opposed
<1>8. NONE \notin Pkg
  BY UniverseAssumption
<1>9. installs \in Seq(G)
  <2>1. ASSUME NEW i \in DOMAIN wanted PROVE installs[i] \in G
    <3> DEFINE item == NewInstall(wanted[i], {}, TRUE)
    <3>1. wanted[i] \in Pkg \ world.installed
      BY <1>3, <1>4, ElementsOfSequence
    <3>2. item \in ItemType
      BY <3>1, NewInstallType DEF ItemType
    <3>3. item.type = "install" /\ item.package = wanted[i]
      BY DEF NewInstall, InstallItem
    <3> HIDE DEF item
    <3>4. ReqItem(c, item)
      BY <3>1, <3>3 DEF ReqItem, ReqSimple
    <3> QED
      BY <3>2, <3>4 DEF item
  <2> HIDE DEF G
  <2> QED
    BY <1>4, <2>1, MappedType
<1>10. removals \in Seq(G)
  <2>1. ASSUME NEW i \in DOMAIN unwanted PROVE removals[i] \in G
    <3>1. unwanted[i] \in Pkg
      BY <1>3, <1>4, ElementsOfSequence
    <3>2. removals[i] \in ItemType /\ removals[i].type = "uninstall"
      BY <3>1 DEF UninstallItem, ItemType, SimpleItemType, UninstallItems
    <3> QED
      BY <3>2 DEF ReqItem, ReqSimple
  <2> HIDE DEF G
  <2> QED
    BY <1>4, <2>1, MappedType
<1>11. Verifications(request) = IF request.verifying THEN verified ELSE <<>>
  BY DEF Verifications, Map, listed
<1>12. verified \in Seq(G)
  <2>1. ASSUME NEW i \in DOMAIN listed PROVE verified[i] \in G
    <3> DEFINE x == listed[i]
    <3>1. x \in ToVerify(arrays)
      BY <1>5 DEF ToSet
    <3> HIDE DEF x
    <3>2. x[1] \in Pkg /\ x[2] \in 1..3 /\ x[3] \in Dep /\ x[3] \in arrays[x[2]][x[1]]
      BY <3>1 DEF ToVerify, WorldType
    <3>3. CASE x[2] = 3
      <4>1. ConflictItem(x[3], x[1], FALSE) \in SimpleItemType
        BY <3>2, ConflictItemType
      <4>2. ConflictItem(x[3], x[1], FALSE).type = "conflict"
        BY DEF ConflictItem
      <4> QED
        BY <3>3, <4>1, <4>2 DEF VerifyItem, ReqItem, ReqSimple, ItemType, x
    <3>4. CASE x[2] # 3
      <4> DEFINE item == RequireItem(x[3], x[1], FALSE, FALSE, NONE)
      <4>1. item \in SimpleItemType
        BY <3>2, RequireItemType
      <4>2. item.type = "require" /\ item.upgraded = NONE /\ item.requiring = x[1] /\ item.dep = x[3]
        BY DEF RequireItem
      <4>3. x[3] \in world.requires[x[1]] \cup world.children[x[1]]
        BY <3>2, <3>4
      <4> HIDE DEF item
      <4>4. ReqItem(c, item)
        BY <4>2, <4>3 DEF ReqItem, ReqSimple
      <4> QED
        BY <3>4, <4>1, <4>4 DEF VerifyItem, ItemType, x, item
    <3> QED
      BY <3>3, <3>4
  <2> HIDE DEF G, verified
  <2>2. verified = [i \in DOMAIN listed |-> verified[i]]
    BY DEF verified
  <2> QED
    BY <1>5, <2>1, <2>2, MappedType
<1>13. Extras(request) \in Seq(G)
  <2>1. ASSUME NEW i \in DOMAIN deps PROVE requires[i] \in G
    <3>1. deps[i] \in Dep
      BY <1>6, ElementsOfSequence
    <3> DEFINE item == RequireItem(deps[i], NONE, FALSE, FALSE, NONE)
    <3>2. item \in SimpleItemType
      BY <3>1, RequireItemType
    <3>3. item.type = "require" /\ item.upgraded = NONE /\ item.requiring = NONE
      BY DEF RequireItem
    <3> HIDE DEF item
    <3> QED
      BY <3>2, <3>3 DEF ReqItem, ReqSimple, ItemType, item
  <2>2. ASSUME NEW i \in DOMAIN opposed PROVE conflicts[i] \in G
    <3>1. opposed[i] \in Dep
      BY <1>6, ElementsOfSequence
    <3>2. ConflictItem(opposed[i], NONE, FALSE) \in SimpleItemType
      BY <3>1, ConflictItemType
    <3>3. ConflictItem(opposed[i], NONE, FALSE).type = "conflict"
      BY DEF ConflictItem
    <3> QED
      BY <3>2, <3>3 DEF ReqItem, ReqSimple, ItemType
  <2> HIDE DEF G
  <2>3. requires \in Seq(G) /\ conflicts \in Seq(G)
    BY <1>6, <2>1, <2>2, MappedType
  <2>4. Extras(request) = requires \o conflicts
    BY DEF Extras, Map, deps, opposed
  <2> HIDE DEF requires, conflicts
  <2> QED
    BY <2>3, <2>4
<1> HIDE DEF installs, removals, verified, arrays
<1>14. Verifications(request) \in Seq(G)
  <2>1. <<>> \in Seq(G)
    OBVIOUS
  <2> HIDE DEF G
  <2> QED
    BY <1>11, <1>12, <2>1
<1>15. /\ items \in Seq(G) /\ Reverse(items) \in Seq(G)
       /\ ToSet(Verifications(request)) \subseteq I
  <2> DEFINE first == installs \o removals
             second == first \o Verifications(request)
  <2> HIDE DEF G
  <2>1. first \in Seq(G)
    BY <1>9, <1>10, ConcatAll
  <2> HIDE DEF first
  <2>2. second \in Seq(G) /\ ToSet(second) = ToSet(first) \cup ToSet(Verifications(request))
    BY <1>14, <2>1, ConcatAll
  <2> HIDE DEF second
  <2>3. items = second \o Extras(request)
    BY DEF second, first
  <2>4. items \in Seq(G) /\ ToSet(items) = ToSet(second) \cup ToSet(Extras(request))
    BY <1>13, <2>2, <2>3, ConcatAll
  <2> HIDE DEF items
  <2>5. Reverse(items) \in Seq(G) /\ I = ToSet(items)
    BY <2>4, ReverseType, ReverseAll
  <2> HIDE DEF I
  <2> QED
    BY <2>2, <2>4, <2>5
<1> HIDE DEF items
<1>16. \A item \in I : ReqItem(c, item)
  <2>1. \A item \in I : item \in G
    BY <1>15, ElementsOfSequence DEF ToSet
  <2> QED
    BY <2>1
<1> HIDE DEF I, G
<1>17. SoftInv(c, I)
  <2>1. world.installed \in SUBSET Pkg
    BY DEF WorldType
  <2> QED
    BY <1>2, <2>1 DEF SoftInv
<1>18. ReqInv(c, I)
  <2> SUFFICES ASSUME NEW p \in Pkg, IsPresent(c, p), NEW d \in MustHave(p)
               PROVE  Owing(c, I, p, d)
    BY DEF ReqInv
  <2>1. p \in world.installed
    BY <1>2 DEF IsPresent, ToBeInstalled
  <2>2. d \in world.requires[p] /\ d \in Dep
    BY DEF MustHave, WorldType
  <2>3. CASE Providers[d] \cap world.installed # {}
    <3>1. PICK q \in Providers[d] : q \in world.installed
      BY <2>3
    <3>2. q \in Pkg
      BY <2>2, UniverseAssumption
    <3>3. IsPresent(c, q)
      BY <1>2, <3>1, <3>2 DEF IsPresent
    <3>4. RequirementIsMet(c, d, FALSE)
      BY <3>1, <3>3 DEF RequirementIsMet
    <3> QED
      BY <3>4 DEF Owing
  <2>4. CASE request.verifying
    <3> DEFINE x == <<p, 1, d>>
               item == RequireItem(d, p, FALSE, FALSE, NONE)
    <3>1. x \in ToVerify(arrays)
      <4>1. x \in world.installed \X (1..3) \X Dep
        BY <2>1, <2>2
      <4>2. x[3] = d /\ arrays[x[2]][x[1]] = world.requires[p]
        BY DEF arrays
      <4> HIDE DEF x
      <4> QED
        BY <2>2, <4>1, <4>2 DEF ToVerify
    <3>2. PICK i \in DOMAIN listed : listed[i] = x
      <4> HIDE DEF x
      <4> QED
        BY <1>5, <3>1 DEF ToSet
    <3>3. VerifyItem(x) = item
      BY DEF VerifyItem
    <3>4. i \in DOMAIN verified /\ verified[i] = VerifyItem(listed[i])
      BY DEF verified
    <3>5. AsksFor(item, p, d)
      BY DEF AsksFor, RequireItem
    <3> HIDE DEF x, item
    <3>6. item \in ToSet(verified)
      BY <3>2, <3>3, <3>4 DEF ToSet
    <3>7. item \in I
      BY <1>11, <1>15, <2>4, <3>6
    <3>8. Answers(c, item, p, d)
      BY <3>5 DEF Answers, AnswersSimple, AsksFor
    <3> QED
      BY <3>7, <3>8 DEF Owing
  <2> QED
    BY <2>1, <2>3, <2>4 DEF MustHave
<1>19. Met(c, I)
  BY <1>16, <1>17, <1>18 DEF Met
<1> QED
  BY <1>7, <1>19 DEF MetQueue, Queue, I


\* Every step leaves what is required owed at most, and solutions owe nothing.
LEMMA AlwaysMet == ASSUME SpecsProvideAlike PROVE Spec => []MetInv
<1>1. Init => MetInv
  <2> SUFFICES ASSUME Init PROVE MetInv
    OBVIOUS
  <2>1. world \in WorldType /\ request \in RequestType
    BY UniverseAssumption, RequestAssumption DEF Init
  <2>2. MetQueue(InitialQueue(request))
    BY <2>1, InitialQueueMet
  <2>3. pending = <<InitialQueue(request)>> /\ deferred = <<>> /\ complete = <<>> /\ pc = "loop"
    BY DEF Init
  <2>4. MetQueues(pending) /\ MetQueues(deferred)
    BY <2>2, <2>3 DEF MetQueues
  <2> QED
    BY <2>3, <2>4 DEF MetInv
<1>2. TypeOK /\ OnlyBranchesAreSplit /\ GoodInv /\ MetInv /\ [Next]_vars => MetInv'
  <2> SUFFICES ASSUME TypeOK, OnlyBranchesAreSplit, GoodInv, MetInv, [Next]_vars PROVE MetInv'
    OBVIOUS
  <2>1. CASE PopQueue
    BY <2>1, PopQueueMet
  <2>2. ASSUME NEW type, Step(type) PROVE MetInv'
    BY <2>2, StepMet
  <2>3. CASE EndPass
    BY <2>3, EndPassMet
  <2>4. CASE Reject \/ Prune
    <3>1. Turn(pending, deferred, complete)
      BY <2>4 DEF Reject, Prune
    <3> QED
      BY <3>1, TurnMet DEF MetInv, TypeOK
  <2>5. CASE Complete
    <3> DEFINE found == <<cur.context>> \o complete
    <3>1. Turn(pending, deferred, found)
      BY <2>5 DEF Complete
    <3>2. Met(cur.context, {})
      <4>1. /\ pc = "classify" /\ ~cur.context.invalid /\ cur.items = <<>> /\ cur.new = <<>>
        BY <2>5 DEF Complete, IsSolution, GoodInv
      <4>2. Owed = {}
        BY <4>1 DEF Owed, ToSet
      <4> QED
        BY <4>1, <4>2 DEF MetInv
    <3>3. complete \in Seq(ContextType)
      BY DEF TypeOK
    <3>4. \A i \in DOMAIN found : \/ found[i] = cur.context
                                  \/ i - 1 \in DOMAIN complete /\ found[i] = complete[i - 1]
      BY <3>3
    <3> HIDE DEF found
    <3>5. \A i \in DOMAIN found : Met(found[i], {})
      BY <3>2, <3>4 DEF MetInv
    <3> QED
      BY <3>1, <3>5, TurnMet DEF MetInv, TypeOK
  <2>6. CASE Split
    BY <2>6, SplitMet
  <2>7. CASE Timeout \/ Finish \/ UNCHANGED vars
    <3>1. /\ UNCHANGED <<world, request, pending, deferred, complete, cur>>
          /\ pc' = "done" \/ pc' = pc
      BY <2>7 DEF Timeout, Finish, vars, resolverVars
    <3>2. \A x, X : Met(x, X)' <=> Met(x, X)
      BY <3>1, MetUnmoved
    <3>3. Owed' = Owed
      BY <3>1 DEF Owed
    <3>4. (MetQueues(pending) /\ MetQueues(deferred))'
      BY <3>1, <3>2 DEF MetInv, MetQueues, MetQueue
    <3>5. (\A i \in DOMAIN complete : Met(complete[i], {}))'
      BY <3>1, <3>2 DEF MetInv
    <3>6. pc' \in {"process", "classify"} /\ ~cur'.context.invalid => Met(cur'.context, Owed')
      BY <3>1, <3>3 DEF MetInv
    <3> QED
      BY <3>1, <3>2, <3>4, <3>5, <3>6 DEF MetInv
  <2> QED
    BY <2>1, <2>2, <2>3, <2>4, <2>5, <2>6, <2>7
       DEF Next, Work, InstallStep, RequireStep, ConflictStep, UninstallStep, BranchStep, Terminated
<1> QED
  BY <1>1, <1>2, TypeCorrect, OnlyBranchesRemain, AlwaysGood, PTL DEF Spec

\* In a solution everything that is there has what it requires, but for the exceptions that
\* RequirementsAreMet names, however many packages there are and whatever they require, as long
\* as packages of one name and version provide the same (rc_queue_item_install_process,
\* rc_queue_item_uninstall_process, rc_queue_item_require_process,
\* rc_queue_item_branch_process, rc_resolver_queue_process_once).
THEOREM RequirementsMet == ASSUME SpecsProvideAlike PROVE Spec => []RequirementsAreMet
<1>1. TypeOK /\ MetInv => RequirementsAreMet
  <2> SUFFICES ASSUME TypeOK, MetInv, NEW c \in Solutions, NEW p \in Pkg, IsPresent(c, p),
                      NEW d \in MustHave(p)
               PROVE  RequirementIsMet(c, d, FALSE) \/ Unavoidable(c, p, d) \/ Overlooked(c, p, d)
    BY DEF RequirementsAreMet
  <2>1. Met(c, {})
    BY DEF MetInv, Solutions
  <2>2. RequirementIsMet(c, d, FALSE) \/ Excused(c, {}, p, d)
    BY <2>1 DEF Met, ReqInv, Owing, Hopeless
  <2>3. \A r \in Pkg : Doomed(c, {}, r) => GetStatus(c, r) \in ToBeUninstalled
    BY DEF Doomed, Final, ToBeUninstalled
  <2>4. \A q : RuledOutYet(c, {}, q) => RuledOut(c, q)
    BY <2>3 DEF RuledOutYet, RuledOut, Replaces
  <2> QED
    BY <2>2, <2>4 DEF Excused, Overlooked
<1> QED
  BY <1>1, AlwaysMet, TypeCorrect, PTL

=============================================================================
