----------------------------- MODULE FoldLemmas -----------------------------
(***************************************************************************)
(* Induction for the proofs about what is defined by recursion or folded,  *)
(* and what follows of sums, orders and sequences.  The library's          *)
(* induction theorems take operators as parameters; here a claim is the    *)
(* set of the values it holds for, and the operation that is folded is a   *)
(* function, so that the facts can be cited.  Where a fact has many        *)
(* hypotheses they have a name, and so it can be applied by that name.     *)
(***************************************************************************)
EXTENDS Loops, FiniteSets, FiniteSetTheorems, FunctionTheorems, SequenceTheorems,
        WellFoundedInduction, TLAPS

----------------------------------------------------------------------------
(* Induction *)

(* Every non-empty set of natural numbers has a least element. *)
LEMMA LeastElement ==
    ASSUME NEW T \in SUBSET Nat, T # {}
    PROVE  \E m \in T : \A k \in T : m <= k
<1> DEFINE Below(n) == 0..n
           S == {Below(n) : n \in T}
<1>1. S \subseteq FiniteSubsetsOf(Nat) /\ S # {}
  <2>1. ASSUME NEW n \in T
        PROVE  Below(n) \in FiniteSubsetsOf(Nat)
    <3>1. IsFiniteSet(0..n)
      BY FS_Interval
    <3>2. (0..n) \in SUBSET Nat
      OBVIOUS
    <3> QED  BY <3>1, <3>2 DEF FiniteSubsetsOf
  <2>2. S \subseteq FiniteSubsetsOf(Nat)
    BY <2>1, Zenon
  <2>3. QED  BY <2>2
<1>2. IsWellFoundedOn(StrictSubsetOrdering(Nat), FiniteSubsetsOf(Nat))
  BY FS_StrictSubsetOrderingWellFounded
<1>3. PICK X \in S : \A Y \in S : <<Y, X>> \notin StrictSubsetOrdering(Nat)
  <2> HIDE DEF S
  <2> QED  BY <1>1, <1>2, WFMin
<1>4. PICK m \in T : X = Below(m)
  OBVIOUS
<1>5. \A k \in T : m <= k
  <2> SUFFICES ASSUME NEW k \in T, k < m
               PROVE  FALSE
    OBVIOUS
  <2>1. Below(k) \in S /\ Below(k) \subseteq Below(m) /\ Below(k) # Below(m)
    OBVIOUS
  <2>2. <<Below(k), X>> \in StrictSubsetOrdering(Nat)
    BY <2>1, <1>4 DEF StrictSubsetOrdering
  <2>3. QED  BY <2>1, <2>2, <1>3
<1> QED  BY <1>5

(* So has every non-empty set of positions a greatest element. *)
LEMMA GreatestElement ==
    ASSUME NEW n \in Nat, NEW T \in SUBSET (1 .. n), T # {}
    PROVE  \E m \in T : \A k \in T : k <= m
<1> DEFINE Room == {n - k : k \in T}
<1>1. PICK r \in Room : \A k \in Room : r <= k
  <2>1. Room \in SUBSET Nat
    <3> SUFFICES ASSUME NEW k \in T PROVE n - k \in Nat
      OBVIOUS
    <3>1. k \in 1 .. n
      OBVIOUS
    <3> QED  BY <3>1
  <2>2. Room # {}
    OBVIOUS
  <2> HIDE DEF Room
  <2> QED  BY <2>1, <2>2, LeastElement
<1>2. PICK m \in T : r = n - m
  OBVIOUS
<1>3. ASSUME NEW k \in T PROVE k <= m
  <2>1. n - m <= n - k
    BY <1>1, <1>2
  <2>2. m \in Int /\ k \in Int
    OBVIOUS
  <2> QED  BY <2>1, <2>2
<1> QED  BY <1>3

(* A set of numbers that holds 0 and with a number the next is Nat. *)
LEMMA Counting ==
    ASSUME NEW T, 0 \in T, \A n \in Nat : n \in T => n + 1 \in T
    PROVE  \A n \in Nat : n \in T
<1> DEFINE Bad == {n \in Nat : n \notin T}
<1> SUFFICES ASSUME Bad # {} PROVE FALSE
  OBVIOUS
<1>1. PICK m \in Bad : \A k \in Bad : m <= k
  <2>1. Bad \in SUBSET Nat
    OBVIOUS
  <2> HIDE DEF Bad
  <2> QED  BY <2>1, LeastElement
<1>2. m # 0 /\ m - 1 \in Nat /\ m - 1 \notin Bad
  <2>1. m \in Nat /\ m # 0
    OBVIOUS
  <2>2. m - 1 \in Nat /\ ~(m <= m - 1)
    BY <2>1
  <2> HIDE DEF Bad
  <2> QED  BY <1>1, <2>1, <2>2
<1>3. (m - 1) + 1 \in T
  BY <1>2
<1> QED  BY <1>3

(* The same up to a bound. *)
LEMMA CountingTo ==
    ASSUME NEW N \in Nat, NEW T, 0 \in T,
           \A n \in 0 .. N - 1 : n \in T => n + 1 \in T
    PROVE  \A n \in 0 .. N : n \in T
<1> DEFINE U == {n \in Nat : n <= N => n \in T}
<1>1. 0 \in U
  OBVIOUS
<1>2. \A n \in Nat : n \in U => n + 1 \in U
  OBVIOUS
<1>3. \A n \in Nat : n \in U
  <2> HIDE DEF U
  <2> QED  BY <1>1, <1>2, Counting
<1> QED  BY <1>3

(* A set that holds <<>> and with a sequence all that it grows to by one   *)
(* term holds every sequence.                                              *)
LEMMA Growing ==
    ASSUME NEW A, NEW T, <<>> \in T,
           \A s \in Seq(A) : \A x \in A : s \in T => Append(s, x) \in T
    PROVE  \A s \in Seq(A) : s \in T
<1> SUFFICES ASSUME NEW s \in Seq(A) PROVE s \in T
  OBVIOUS
<1> DEFINE n == Len(s)
           head(k) == [i \in 1 .. k |-> s[i]]
           U == {k \in 0 .. n : head(k) \in T}
<1>1. n \in Nat /\ s = [i \in 1 .. n |-> s[i]] /\ \A i \in 1 .. n : s[i] \in A
  OBVIOUS
<1> HIDE DEF n
<1>2. 0 \in U
  <2>1. head(0) = <<>>
    OBVIOUS
  <2> QED  BY <2>1, <1>1
<1>3. ASSUME NEW k \in 0 .. n - 1, k \in U PROVE k + 1 \in U
  <2>1. head(k) \in [1 .. k -> A] /\ k \in Nat /\ s[k + 1] \in A
    BY <1>1
  <2>2. head(k) \in Seq(A) /\ Len(head(k)) = k
    BY <2>1
  <2>3. head(k + 1) = Append(head(k), s[k + 1])
    BY <2>1, <2>2
  <2>4. head(k) \in T
    BY <1>3
  <2> HIDE DEF head
  <2>5. head(k + 1) \in T
    BY <2>1, <2>2, <2>3, <2>4
  <2> QED  BY <2>5, <1>1
<1> HIDE DEF U
<1>4. \A k \in 0 .. n : k \in U
  BY <1>1, <1>2, <1>3, CountingTo
<1>5. n \in U
  BY <1>1, <1>4
<1> QED  BY <1>1, <1>5 DEF U

(* op takes an element and what was folded, at first base; pick takes an    *)
(* element out of a set.                                                   *)
Folds(op, base, S, A) == base \in A /\ op \in [S \X A -> A]
Picks(pick, S) == \A t \in SUBSET S : t # {} => pick[t] \in t

(* g[t] is the fold of t from base, which takes pick[t] out of t first.    *)
IsFold(g, S, A, base, op, pick) ==
    /\ g \in [SUBSET S -> A] /\ g[{}] = base
    /\ \A t \in SUBSET S : t # {} => g[t] = op[<<pick[t], g[t \ {pick[t]}]>>]

(* The fold of a finite set is defined. *)
LEMMA FoldDefined ==
    ASSUME NEW S, IsFiniteSet(S), NEW A, NEW base,
           NEW op, Folds(op, base, S, A), NEW pick, Picks(pick, S)
    PROVE  \E g : IsFold(g, S, A, base, op, pick)
<1> USE DEF Folds, Picks
<1> DEFINE UpTo(n) == {t \in SUBSET S : Cardinality(t) <= n}
           Body(g, t) == IF t = {} THEN base ELSE op[<<pick[t], g[t \ {pick[t]}]>>]
           Folded(g, n) == g \in [UpTo(n) -> A] /\ \A t \in UpTo(n) : g[t] = Body(g, t)
           T == {n \in Nat : \E g : Folded(g, n)}
<1>1. \A t \in SUBSET S : /\ IsFiniteSet(t) /\ Cardinality(t) \in Nat
                          /\ Cardinality(t) = 0 <=> t = {}
                          /\ t # {} => /\ t \ {pick[t]} \in SUBSET S
                                       /\ Cardinality(t \ {pick[t]}) = Cardinality(t) - 1
  BY FS_Subset, FS_CardinalityType, FS_EmptySet, FS_RemoveElement
<1>2. 0 \in T
  <2> DEFINE g == [t \in UpTo(0) |-> base]
  <2>1. ASSUME NEW t \in UpTo(0) PROVE t = {}
    <3>1. t \in SUBSET S /\ Cardinality(t) <= 0
      OBVIOUS
    <3>2. Cardinality(t) = 0
      <4>1. Cardinality(t) \in Nat
        BY ONLY <3>1, <1>1
      <4> QED  BY ONLY <3>1, <4>1
    <3> QED  BY ONLY <3>1, <3>2, <1>1
  <2>2. Folded(g, 0)
    BY <2>1
  <2> QED  BY <2>2
<1>3. ASSUME NEW n \in Nat, n \in T PROVE n + 1 \in T
  <2>1. PICK g : Folded(g, n)
    BY <1>3
  <2> DEFINE h == [t \in UpTo(n + 1) |-> Body(g, t)]
  <2>2. ASSUME NEW t \in UpTo(n + 1), t # {}
        PROVE  t \ {pick[t]} \in UpTo(n) /\ pick[t] \in S /\ g[t \ {pick[t]}] \in A
    <3>1. t \in SUBSET S /\ Cardinality(t) <= n + 1
      OBVIOUS
    <3>2. t \ {pick[t]} \in SUBSET S /\ Cardinality(t \ {pick[t]}) = Cardinality(t) - 1
      BY ONLY <3>1, <2>2, <1>1
    <3>3. Cardinality(t) \in Nat
      BY ONLY <3>1, <1>1
    <3>4. Cardinality(t \ {pick[t]}) <= n
      BY ONLY <3>1, <3>2, <3>3, n \in Nat
    <3>5. t \ {pick[t]} \in UpTo(n)
      BY <3>2, <3>4
    <3> QED  BY <3>1, <3>5, <2>1, <2>2
  <2>3. h \in [UpTo(n + 1) -> A]
    BY <2>2
  <2>4. ASSUME NEW t \in UpTo(n)
        PROVE  t \in UpTo(n + 1) /\ h[t] = g[t]
    <3>1. t \in SUBSET S /\ Cardinality(t) <= n /\ Cardinality(t) \in Nat
      BY <1>1
    <3>2. t \in UpTo(n + 1)
      BY <3>1
    <3>3. g[t] = Body(g, t)
      BY <2>1
    <3> QED  BY <3>2, <3>3
  <2>5. ASSUME NEW t \in UpTo(n + 1) PROVE h[t] = Body(h, t)
    BY <2>2, <2>4
  <2>6. Folded(h, n + 1)
    BY <2>3, <2>5
  <2> HIDE DEF Folded, h
  <2> QED  BY <2>6
<1>4. Cardinality(S) \in Nat /\ UpTo(Cardinality(S)) = SUBSET S
  BY <1>1, FS_Subset
<1>5. Cardinality(S) \in T
  <2> HIDE DEF T
  <2> QED  BY <1>2, <1>3, <1>4, Counting
<1>6. PICK g : Folded(g, Cardinality(S))
  BY <1>5
<1>7. g \in [SUBSET S -> A] /\ \A t \in SUBSET S : g[t] = Body(g, t)
  BY <1>4, <1>6
<1> QED  BY <1>7 DEF IsFold

(* What holds of the empty set, and of a set if it holds of the set less   *)
(* the element that is picked, holds of all subsets of a finite set.       *)
LEMMA FoldInduction ==
    ASSUME NEW S, IsFiniteSet(S), NEW pick, Picks(pick, S), NEW T, {} \in T,
           \A s \in SUBSET S : s # {} /\ s \ {pick[s]} \in T => s \in T
    PROVE  \A s \in SUBSET S : s \in T
<1> DEFINE U == {n \in Nat : \A s \in SUBSET S : Cardinality(s) <= n => s \in T}
<1>1. \A s \in SUBSET S : IsFiniteSet(s) /\ Cardinality(s) \in Nat
  BY FS_Subset, FS_CardinalityType
<1>2. 0 \in U
  <2>1. \A s \in SUBSET S : Cardinality(s) <= 0 => s = {}
    BY <1>1, FS_EmptySet
  <2> QED  BY <2>1
<1>3. ASSUME NEW n \in Nat, n \in U PROVE n + 1 \in U
  <2> SUFFICES ASSUME NEW s \in SUBSET S, Cardinality(s) <= n + 1, s # {} PROVE s \in T
    OBVIOUS
  <2>1. pick[s] \in s
    BY DEF Picks
  <2>2. s \ {pick[s]} \in SUBSET S /\ Cardinality(s \ {pick[s]}) = Cardinality(s) - 1
    BY <1>1, <2>1, FS_RemoveElement
  <2>3. Cardinality(s \ {pick[s]}) <= n
    BY <2>2, <1>1
  <2>4. s \ {pick[s]} \in T
    BY <1>3, <2>2, <2>3
  <2> HIDE DEF U
  <2> QED  BY <2>4
<1> HIDE DEF U
<1>4. \A n \in Nat : n \in U
  BY <1>2, <1>3, Counting
<1>5. ASSUME NEW s \in SUBSET S PROVE s \in T
  <2>1. Cardinality(s) \in U /\ Cardinality(s) <= Cardinality(s)
    BY <1>1, <1>4
  <2> QED  BY <2>1 DEF U
<1> QED  BY <1>5

(* A fold over the first n positions, the last of them taken out first,    *)
(* passes through the folds over the first 0, 1, ... of them.              *)
LEMMA Running ==
    ASSUME NEW n \in Nat, NEW A, NEW F, F[{}] \in A,
           \A k \in 1 .. n : F[1 .. k - 1] \in A => F[1 .. k] \in A
    PROVE  \A k \in 0 .. n : F[1 .. k] \in A
<1> DEFINE T == {k \in 0 .. n : F[1 .. k] \in A}
<1>1. 0 \in T
  <2>1. 1 .. 0 = {}
    OBVIOUS
  <2> QED  BY <2>1
<1>2. ASSUME NEW k \in 0 .. n - 1, k \in T PROVE k + 1 \in T
  <2>1. k + 1 \in 1 .. n /\ (k + 1) - 1 = k /\ F[1 .. k] \in A
    BY <1>2
  <2>2. F[1 .. (k + 1) - 1] \in A
    BY <2>1
  <2>3. F[1 .. k + 1] \in A
    BY <2>1, <2>2
  <2> QED  BY <2>1, <2>3
<1> HIDE DEF T
<1>3. \A k \in 0 .. n : k \in T
  BY <1>1, <1>2, CountingTo
<1> QED  BY <1>3 DEF T

(* What is computed from its own value one below is defined up to n. *)
IsRun(f, n, A, base, op) ==
    /\ f \in [0 .. n -> A] /\ f[0] = base
    /\ \A k \in 1 .. n : f[k] = op[<<k, f[k - 1]>>]

(* There is such a function. *)
LEMMA RunDefined ==
    ASSUME NEW n \in Nat, NEW A, NEW base, NEW op, Folds(op, base, 1 .. n, A)
    PROVE  \E f : IsRun(f, n, A, base, op)
<1> DEFINE S == 1 .. n
           greatest(t) == CHOOSE m \in t : \A k \in t : k <= m
           pick == [t \in SUBSET S |-> greatest(t)]
<1>1. ASSUME NEW t \in SUBSET S, t # {}
      PROVE  pick[t] \in t /\ \A k \in t : k <= pick[t]
  <2>1. \E m \in t : \A k \in t : k <= m
    BY <1>1, GreatestElement
  <2> QED  BY <2>1
<1> HIDE DEF pick
<1>2. PICK g : IsFold(g, S, A, base, op, pick)
  <2>1. Picks(pick, S)
    BY <1>1 DEF Picks
  <2>2. IsFiniteSet(S)
    BY FS_Interval
  <2> QED  BY <2>1, <2>2, FoldDefined
<1> DEFINE f == [k \in 0 .. n |-> g[1 .. k]]
<1>3. f \in [0 .. n -> A]
  <2>1. \A k \in 0 .. n : (1 .. k) \in SUBSET S
    OBVIOUS
  <2> QED  BY <2>1, <1>2 DEF IsFold
<1>4. f[0] = base
  <2>1. 1 .. 0 = {}
    OBVIOUS
  <2> QED  BY <2>1, <1>2 DEF IsFold
<1>5. ASSUME NEW k \in 1 .. n PROVE f[k] = op[<<k, f[k - 1]>>]
  <2>1. (1 .. k) \in SUBSET S /\ k \in 1 .. k /\ 1 .. k # {} /\ (1 .. k) \ {k} = 1 .. k - 1
    OBVIOUS
  <2>2. pick[1 .. k] \in 1 .. k /\ k <= pick[1 .. k]
    BY <2>1, <1>1
  <2>3. pick[1 .. k] = k
    BY <2>2
  <2>4. g[1 .. k] = op[<<k, g[1 .. k - 1]>>]
    BY <2>1, <2>3, <1>2 DEF IsFold
  <2>5. k \in 0 .. n /\ k - 1 \in 0 .. n
    OBVIOUS
  <2> QED  BY <2>4, <2>5
<1> HIDE DEF f
<1> QED  BY <1>3, <1>4, <1>5 DEF IsRun

----------------------------------------------------------------------------
(* Greatest and least elements, and division *)

(* The greatest of some positions, and of the first k. *)
LEMMA MaxIn ==
    ASSUME NEW n \in Nat, NEW t \in SUBSET (1 .. n), t # {}
    PROVE  Max(t) \in t /\ \A k \in t : k <= Max(t)
<1>1. PICK x \in t : \A k \in t : k <= x
  BY GreatestElement
<1>2. t \subseteq Int
  OBVIOUS
<1>3. \A k \in t : x >= k
  BY <1>1, <1>2
<1>4. Max(t) \in t /\ \A k \in t : Max(t) >= k
  BY <1>3 DEF Max
<1> QED  BY <1>4, <1>2

(* Of the first k positions the greatest is k. *)
LEMMA MaxTo ==
    ASSUME NEW k \in Nat, k # 0
    PROVE  Max(1 .. k) = k /\ (1 .. k) \ {k} = 1 .. k - 1
<1>0. k \in 1 .. k /\ (1 .. k) \in SUBSET (1 .. k) /\ 1 .. k # {}
  OBVIOUS
<1>1. Max(1 .. k) \in 1 .. k /\ \A i \in 1 .. k : i <= Max(1 .. k)
  <2> DEFINE t == 1 .. k
  <2> HIDE DEF t
  <2>1. t \in SUBSET (1 .. k) /\ t # {}
    BY <1>0 DEF t
  <2>2. Max(t) \in t /\ \A i \in t : i <= Max(t)
    BY <2>1, MaxIn
  <2> QED  BY <2>2 DEF t
<1>3. Max(1 .. k) = k
  BY <1>0, <1>1
<1> QED  BY <1>3

(* A set of whole numbers has a least and a greatest one, if it is not     *)
(* empty and there are bounds.                                             *)
LEMMA ExtremesIn ==
    ASSUME NEW b \in Nat, NEW T \in SUBSET (0 .. b), T # {}
    PROVE  /\ Min(T) \in T /\ Max(T) \in T
           /\ \A x \in T : Min(T) <= x /\ x <= Max(T)
<1>1. \E m \in T : \A x \in T : m <= x
  <2>1. T \in SUBSET Nat
    OBVIOUS
  <2> QED  BY <2>1, LeastElement
<1>2. \E m \in T : \A x \in T : m >= x
  <2> DEFINE Room == {b - x : x \in T}
  <2>1. Room \in SUBSET Nat /\ Room # {}
    <3> SUFFICES ASSUME NEW x \in T PROVE b - x \in Nat
      OBVIOUS
    <3>1. x \in 0 .. b
      OBVIOUS
    <3> QED  BY <3>1
  <2>2. PICK r \in Room : \A x \in Room : r <= x
    <3> HIDE DEF Room
    <3> QED  BY <2>1, LeastElement
  <2>3. PICK m \in T : r = b - m
    OBVIOUS
  <2>4. ASSUME NEW x \in T PROVE m >= x
    <3>1. b - m <= b - x
      BY <2>2, <2>3
    <3>2. m \in 0 .. b /\ x \in 0 .. b
      OBVIOUS
    <3> QED  BY <3>1, <3>2
  <2> QED  BY <2>4
<1>3. Min(T) \in T /\ \A x \in T : Min(T) <= x
  BY <1>1 DEF Min
<1>4. Max(T) \in T /\ \A x \in T : Max(T) >= x
  BY <1>2 DEF Max
<1> QED  BY <1>3, <1>4

(* A greatest and a least element are Max and Min.                         *)
LEMMA ExtremeIs ==
    ASSUME NEW S \in SUBSET Int, NEW x \in S
    PROVE  /\ (\A y \in S : y <= x) => Max(S) = x
           /\ (\A y \in S : x <= y) => Min(S) = x
<1>1. ASSUME \A y \in S : y <= x PROVE Max(S) = x
  <2>1. \A y \in S : x >= y
    BY <1>1
  <2>2. Max(S) \in S /\ \A y \in S : Max(S) >= y
    BY <2>1 DEF Max
  <2>3. Max(S) >= x /\ x >= Max(S) /\ Max(S) \in Int /\ x \in Int
    BY <2>1, <2>2
  <2> QED  BY <2>3
<1>2. ASSUME \A y \in S : x <= y PROVE Min(S) = x
  <2>1. Min(S) \in S /\ \A y \in S : Min(S) <= y
    BY <1>2 DEF Min
  <2>2. Min(S) <= x /\ x <= Min(S) /\ Min(S) \in Int /\ x \in Int
    BY <1>2, <2>1
  <2> QED  BY <2>2
<1> QED  BY <1>1, <1>2

(* Division leaves a rest.                                                 *)
LEMMA Divided ==
    ASSUME NEW n \in Nat, NEW d \in Nat \ {0}
    PROVE  /\ n \div d \in Nat /\ n % d \in 0 .. d - 1
           /\ n = d * (n \div d) + (n % d)
OBVIOUS

----------------------------------------------------------------------------
(* Sums *)

Sum(f, S) == MapThenSumSet(LAMBDA x : f[x], S)
One(S) == [t \in SUBSET S |-> CHOOSE x \in t : TRUE]

(* It picks an element. *)
LEMMA OnePicks == ASSUME NEW S PROVE Picks(One(S), S)
BY DEF Picks, One

(* A sum takes one summand after the other.                                *)
IsSum(g, f, S) ==
    /\ g \in [SUBSET S -> Int] /\ g[{}] = 0 /\ g[S] = Sum(f, S)
    /\ \A t \in SUBSET S : t # {} =>
          /\ One(S)[t] \in t /\ t \ {One(S)[t]} \in SUBSET S
          /\ g[t] = f[One(S)[t]] + g[t \ {One(S)[t]}]

(* Every sum of whole numbers can be taken so. *)
LEMMA SumUnrolled ==
    ASSUME NEW S, IsFiniteSet(S), NEW f, \A x \in S : f[x] \in Int
    PROVE  \E g : IsSum(g, f, S)
<1> DEFINE one(t) == CHOOSE x \in t : TRUE
           Eq(F) == F = [t \in SUBSET S |-> IF t = {} THEN 0 ELSE f[one(t)] + F[t \ {one(t)}]]
           F == CHOOSE F1 : Eq(F1)
<1>1. Sum(f, S) = F[S]
  BY DEF Sum, MapThenSumSet, MapThenFoldSet
<1>2. \A t \in SUBSET S : t # {} => one(t) \in t
  OBVIOUS
<1>3. \E F1 : Eq(F1)
  <2> DEFINE op == [p \in S \X Int |-> f[p[1]] + p[2]]
             pick == One(S)
  <2>1. Folds(op, 0, S, Int) /\ Picks(pick, S)
    BY OnePicks DEF Folds
  <2>2. PICK g : IsFold(g, S, Int, 0, op, pick)
    <3> HIDE DEF pick, op
    <3> QED  BY <2>1, FoldDefined
  <2>3. ASSUME NEW t \in SUBSET S, t # {}
        PROVE  op[<<pick[t], g[t \ {pick[t]}]>>] = f[one(t)] + g[t \ {one(t)}]
    <3>1. pick[t] = one(t) /\ one(t) \in S /\ t \ {one(t)} \in SUBSET S
      BY <1>2, <2>3 DEF One
    <3> HIDE DEF pick
    <3> QED  BY <3>1, <2>2 DEF IsFold
  <2>4. \A t \in SUBSET S : g[t] = IF t = {} THEN 0 ELSE f[one(t)] + g[t \ {one(t)}]
    <3> HIDE DEF pick, op
    <3> QED  BY <2>2, <2>3 DEF IsFold
  <2>5. Eq(g)
    <3>1. g \in [SUBSET S -> Int]
      BY <2>2 DEF IsFold
    <3> QED  BY <3>1, <2>4
  <2> QED  BY <2>5
<1>4. Eq(F)
  <2> HIDE DEF Eq
  <2> QED  BY <1>3
<1>5. F[{}] = 0 /\ \A t \in SUBSET S : t # {} => F[t] = f[one(t)] + F[t \ {one(t)}]
  <2> HIDE DEF F, one
  <2> QED  BY <1>4
<1>6. \A t \in SUBSET S : F[t] \in Int
  <2> DEFINE T == {t \in SUBSET S : F[t] \in Int}
  <2> HIDE DEF F
  <2>1. {} \in T
    BY <1>5
  <2>2. ASSUME NEW t \in SUBSET S, t # {}, t \ {One(S)[t]} \in T PROVE t \in T
    <3>1. One(S)[t] = one(t) /\ one(t) \in S
      BY <2>2, <1>2 DEF One
    <3> HIDE DEF one
    <3>2. F[t \ {one(t)}] \in Int /\ f[one(t)] \in Int
      BY <3>1, <2>2
    <3>3. F[t] = f[one(t)] + F[t \ {one(t)}]
      BY <2>2, <1>5
    <3>4. F[t] \in Int
      BY <3>2, <3>3
    <3> QED  BY <3>4
  <2> HIDE DEF T
  <2>3. \A t \in SUBSET S : t \in T
    BY <2>1, <2>2, OnePicks, FoldInduction
  <2> QED  BY <2>3 DEF T
<1>7. \A t \in SUBSET S : t # {} => One(S)[t] = one(t)
  BY DEF One
<1>8. F \in [SUBSET S -> Int]
  <2> HIDE DEF F
  <2> QED  BY <1>4, <1>6
<1>9. S \in SUBSET S
  OBVIOUS
<1> HIDE DEF F, one
<1>10. IsSum(F, f, S)
  BY <1>1, <1>2, <1>5, <1>7, <1>8 DEF IsSum
<1> QED  BY <1>10

(* It is a whole number, *)
LEMMA SumType ==
    ASSUME NEW S, IsFiniteSet(S), NEW f, \A x \in S : f[x] \in Int
    PROVE  Sum(f, S) \in Int
<1>1. PICK g : IsSum(g, f, S)
  BY SumUnrolled
<1>2. S \in SUBSET S
  OBVIOUS
<1> QED  BY <1>1, <1>2 DEF IsSum

(* grows with its summands, *)
LEMMA SumsCompare ==
    ASSUME NEW S, IsFiniteSet(S), NEW e, NEW f,
           \A x \in S : e[x] \in Int /\ f[x] \in Int /\ e[x] <= f[x]
    PROVE  Sum(e, S) <= Sum(f, S)
<1>1. PICK g : IsSum(g, e, S)
  BY SumUnrolled
<1>2. PICK h : IsSum(h, f, S)
  BY SumUnrolled
<1> DEFINE T == {t \in SUBSET S : g[t] <= h[t]}
<1>3. {} \in T
  BY <1>1, <1>2 DEF IsSum
<1>4. ASSUME NEW t \in SUBSET S, t # {}, t \ {One(S)[t]} \in T PROVE t \in T
  <2> DEFINE x == One(S)[t]
             u == t \ {x}
  <2>1. /\ x \in S /\ u \in SUBSET S /\ g[t] = e[x] + g[u] /\ h[t] = f[x] + h[u]
        /\ g[u] \in Int /\ h[u] \in Int
    BY <1>1, <1>2, <1>4 DEF IsSum
  <2>2. g[u] <= h[u]
    BY <1>4
  <2> HIDE DEF x, u
  <2>3. g[t] <= h[t]
    BY <2>1, <2>2
  <2> QED  BY <2>3
<1> HIDE DEF T
<1>5. \A t \in SUBSET S : t \in T
  BY <1>3, <1>4, OnePicks, FoldInduction
<1>6. S \in T
  BY <1>5
<1> QED  BY <1>6, <1>1, <1>2 DEF T, IsSum

(* and of equal ones there are as many as it adds up.                      *)
LEMMA SumOfEqual ==
    ASSUME NEW S, IsFiniteSet(S), NEW v \in Int, NEW f, \A x \in S : f[x] = v
    PROVE  Sum(f, S) = Cardinality(S) * v
<1>1. PICK g : IsSum(g, f, S)
  BY SumUnrolled
<1> DEFINE T == {t \in SUBSET S : g[t] = Cardinality(t) * v}
<1>2. \A t \in SUBSET S : IsFiniteSet(t) /\ Cardinality(t) \in Nat
  BY FS_Subset, FS_CardinalityType
<1>3. {} \in T
  <2>1. Cardinality({}) = 0 /\ 0 * v = 0
    BY FS_EmptySet
  <2> QED  BY <2>1, <1>1 DEF IsSum
<1>4. ASSUME NEW t \in SUBSET S, t # {}, t \ {One(S)[t]} \in T PROVE t \in T
  <2> DEFINE x == One(S)[t]
             u == t \ {x}
  <2>1. x \in t /\ u \in SUBSET S /\ g[t] = f[x] + g[u] /\ f[x] = v
    BY <1>1, <1>4 DEF IsSum
  <2>2. g[u] = Cardinality(u) * v
    BY <1>4
  <2>3. Cardinality(u) = Cardinality(t) - 1
    BY <2>1, <1>2, FS_RemoveElement
  <2> DEFINE n == Cardinality(t)
  <2>4. n \in Nat
    BY <1>2
  <2> HIDE DEF x, u, n
  <2>5. (n - 1) * v = n * v - v /\ n * v \in Int
    BY <2>4
  <2>6. g[t] = n * v
    BY <2>1, <2>2, <2>3, <2>5 DEF n
  <2> QED  BY <2>6 DEF n
<1> HIDE DEF T
<1>5. \A t \in SUBSET S : t \in T
  BY <1>3, <1>4, OnePicks, FoldInduction
<1>6. S \in T
  BY <1>5
<1> QED  BY <1>6, <1>1 DEF T, IsSum

(* What holds of a sum if it holds of the sum with one summand less.       *)
LEMMA SumInduction ==
    ASSUME NEW S, IsFiniteSet(S), NEW T, {} \in T,
           \A s \in SUBSET S : s # {} /\ s \ {One(S)[s]} \in T => s \in T
    PROVE  \A s \in SUBSET S : s \in T
<1> DEFINE pick == One(S)
<1>1. Picks(pick, S)
  BY OnePicks
<1>2. \A s \in SUBSET S : s # {} /\ s \ {pick[s]} \in T => s \in T
  OBVIOUS
<1> HIDE DEF pick
<1> QED  BY <1>1, <1>2, FoldInduction

(* They are of their summands, *)
LEMMA SumSame ==
    ASSUME NEW S, IsFiniteSet(S), NEW e, NEW f, \A x \in S : e[x] \in Int /\ e[x] = f[x]
    PROVE  Sum(e, S) = Sum(f, S)
<1>1. \A x \in S : e[x] \in Int /\ f[x] \in Int /\ e[x] <= f[x] /\ f[x] <= e[x]
  OBVIOUS
<1>2. Sum(e, S) <= Sum(f, S)
  BY <1>1, SumsCompare
<1>3. Sum(f, S) <= Sum(e, S)
  BY <1>1, SumsCompare
<1>4. Sum(e, S) \in Int /\ Sum(f, S) \in Int
  BY <1>1, SumType
<1> QED  BY <1>2, <1>3, <1>4

(* are added term by term, *)
LEMMA SumAdded ==
    ASSUME NEW S, IsFiniteSet(S), NEW e, NEW f, NEW h,
           \A x \in S : e[x] \in Int /\ f[x] \in Int /\ h[x] = e[x] + f[x]
    PROVE  Sum(h, S) = Sum(e, S) + Sum(f, S)
<1>0. \A x \in S : h[x] \in Int
  OBVIOUS
<1>1. PICK g1 : IsSum(g1, e, S)
  BY SumUnrolled
<1>2. PICK g2 : IsSum(g2, f, S)
  BY SumUnrolled
<1>3. PICK g3 : IsSum(g3, h, S)
  BY <1>0, SumUnrolled
<1> DEFINE T == {t \in SUBSET S : g3[t] = g1[t] + g2[t]}
<1>4. {} \in T
  BY <1>1, <1>2, <1>3 DEF IsSum
<1>5. ASSUME NEW t \in SUBSET S, t # {}, t \ {One(S)[t]} \in T PROVE t \in T
  <2> DEFINE x == One(S)[t]
             u == t \ {x}
  <2>1. /\ x \in S /\ u \in SUBSET S
        /\ g1[t] = e[x] + g1[u] /\ g2[t] = f[x] + g2[u] /\ g3[t] = h[x] + g3[u]
        /\ g1[u] \in Int /\ g2[u] \in Int
    BY <1>1, <1>2, <1>3, <1>5 DEF IsSum
  <2>2. g3[u] = g1[u] + g2[u]
    BY <1>5
  <2> HIDE DEF x, u
  <2>3. g3[t] = g1[t] + g2[t]
    BY <2>1, <2>2
  <2> QED  BY <2>3
<1> HIDE DEF T
<1>6. \A t \in SUBSET S : t \in T
  BY <1>4, <1>5, SumInduction
<1>7. S \in T
  BY <1>6
<1> QED  BY <1>7, <1>1, <1>2, <1>3 DEF T, IsSum

(* change by what one summand changes by, *)
Changed(h, f, y, v, S) ==
    /\ y \in S /\ v \in Int
    /\ \A x \in S : f[x] \in Int /\ h[x] = IF x = y THEN f[x] + v ELSE f[x]

(* So a summand that changes changes the sum. *)
LEMMA SumChanged ==
    ASSUME NEW S, IsFiniteSet(S), NEW f, NEW h, NEW y, NEW v, Changed(h, f, y, v, S)
    PROVE  Sum(h, S) = Sum(f, S) + v
<1> USE DEF Changed
<1>0. \A x \in S : h[x] \in Int
  OBVIOUS
<1>1. PICK g1 : IsSum(g1, f, S)
  BY SumUnrolled
<1>2. PICK g2 : IsSum(g2, h, S)
  BY <1>0, SumUnrolled
<1> DEFINE T == {t \in SUBSET S : g2[t] = IF y \in t THEN g1[t] + v ELSE g1[t]}
<1>3. {} \in T
  BY <1>1, <1>2 DEF IsSum
<1>4. ASSUME NEW t \in SUBSET S, t # {}, t \ {One(S)[t]} \in T PROVE t \in T
  <2> DEFINE x == One(S)[t]
             u == t \ {x}
  <2>1. /\ x \in t /\ u \in SUBSET S /\ g1[t] = f[x] + g1[u] /\ g2[t] = h[x] + g2[u]
        /\ g1[u] \in Int
    BY <1>1, <1>2, <1>4 DEF IsSum
  <2>2. g2[u] = IF y \in u THEN g1[u] + v ELSE g1[u]
    BY <1>4
  <2>3. f[x] \in Int /\ h[x] = IF x = y THEN f[x] + v ELSE f[x]
    BY <2>1
  <2>4. y \in t <=> x = y \/ y \in u
    BY <2>1
  <2>5. ~(x = y /\ y \in u)
    OBVIOUS
  <2> HIDE DEF x, u
  <2>6. g2[t] = IF y \in t THEN g1[t] + v ELSE g1[t]
    BY <2>1, <2>2, <2>3, <2>4, <2>5
  <2> QED  BY <2>6
<1> HIDE DEF T
<1>5. \A t \in SUBSET S : t \in T
  BY <1>3, <1>4, SumInduction
<1>6. S \in T
  BY <1>5
<1> QED  BY <1>6, <1>1, <1>2 DEF T, IsSum

(* and are no less than a summand, if none is negative.                    *)
LEMMA SumAtLeast ==
    ASSUME NEW S, IsFiniteSet(S), NEW f, \A x \in S : f[x] \in Nat, NEW y \in S
    PROVE  Sum(f, S) \in Nat /\ f[y] <= Sum(f, S)
<1> DEFINE z == [x \in S |-> 0]
           o == [x \in S |-> IF x = y THEN f[x] ELSE 0]
<1>1. \A x \in S : /\ z[x] = 0 /\ z[x] \in Int /\ f[x] \in Int /\ o[x] \in Int /\ o[x] <= f[x]
                   /\ o[x] = IF x = y THEN z[x] + f[y] ELSE z[x]
  OBVIOUS
<1>2. f[y] \in Int /\ f[y] >= 0
  OBVIOUS
<1> HIDE DEF z, o
<1>3. Sum(z, S) = Cardinality(S) * 0
  BY <1>1, 0 \in Int, SumOfEqual
<1>4. Sum(z, S) = 0
  BY <1>3, FS_CardinalityType
<1>5. Sum(o, S) = Sum(z, S) + f[y]
  <2>1. Changed(o, z, y, f[y], S)
    BY <1>1, <1>2 DEF Changed
  <2> QED  BY <2>1, SumChanged
<1>6. Sum(o, S) <= Sum(f, S) /\ Sum(f, S) \in Int
  BY <1>1, SumsCompare, SumType
<1> QED  BY <1>2, <1>4, <1>5, <1>6

(* A sum of what h leads to is that of what it leads to, as often as it    *)
(* leads there.                                                            *)
Led(e, f, h, F, S, T) ==
    /\ h \in [S -> T] /\ \A x \in T : F[x] \in Int
    /\ \A y \in S : e[y] = F[h[y]]
    /\ \A x \in T : f[x] = Cardinality({y \in S : h[y] = x}) * F[x]

(* So a sum can be taken over what its summands are led to. *)
LEMMA SumByImage ==
    ASSUME NEW S, IsFiniteSet(S), NEW T, IsFiniteSet(T),
           NEW h, NEW F, NEW e, NEW f, Led(e, f, h, F, S, T)
    PROVE  Sum(e, S) = Sum(f, T)
<1> USE DEF Led
<1> DEFINE times(U, x) == Cardinality({y \in U : h[y] = x})
           part(U) == [x \in T |-> times(U, x) * F[x]]
<1>1. ASSUME NEW U \in SUBSET S, NEW x \in T
      PROVE  IsFiniteSet({y \in U : h[y] = x}) /\ times(U, x) \in Nat /\ part(U)[x] \in Int
  <2>1. IsFiniteSet({y \in U : h[y] = x})
    BY FS_Subset
  <2>2. times(U, x) \in Nat
    BY <2>1, FS_CardinalityType
  <2> HIDE DEF times
  <2>3. times(U, x) * F[x] \in Int
    BY <2>2
  <2> QED  BY <2>1, <2>2, <2>3
<1>2. \A y \in S : e[y] \in Int
  OBVIOUS
<1>3. PICK g : IsSum(g, e, S)
  BY <1>2, SumUnrolled
<1> DEFINE Claim == {U \in SUBSET S : g[U] = Sum(part(U), T)}
<1>4. {} \in Claim
  <2> DEFINE p == part({})
  <2>1. \A x \in T : p[x] = 0
    <3> SUFFICES ASSUME NEW x \in T PROVE p[x] = 0
      OBVIOUS
    <3>1. {y \in {} : h[y] = x} = {}
      OBVIOUS
    <3>2. times({}, x) = 0
      BY <3>1, FS_EmptySet
    <3> HIDE DEF times
    <3> QED  BY <3>2
  <2> HIDE DEF p
  <2>2. Sum(p, T) = Cardinality(T) * 0
    BY <2>1, 0 \in Int, SumOfEqual
  <2>3. Sum(p, T) = 0
    BY <2>2, FS_CardinalityType
  <2>4. g[{}] = Sum(part({}), T)
    BY <2>3, <1>3 DEF IsSum, p
  <2> QED  BY <2>4
<1>5. ASSUME NEW U \in SUBSET S, U # {}, U \ {One(S)[U]} \in Claim PROVE U \in Claim
  <2> DEFINE y == One(S)[U]
             W == U \ {y}
             p == part(U)
             q == part(W)
  <2>1. y \in U /\ W \in SUBSET S /\ g[U] = e[y] + g[W] /\ g[W] \in Int
    BY <1>3, <1>5 DEF IsSum
  <2>2. g[W] = Sum(q, T)
    BY <1>5
  <2>3. ASSUME NEW x \in T
        PROVE  q[x] \in Int /\ p[x] = IF x = h[y] THEN q[x] + F[h[y]] ELSE q[x]
    <3>1. times(U, x) = IF x = h[y] THEN times(W, x) + 1 ELSE times(W, x)
      <4>1. CASE x = h[y]
        <5>1. {z \in U : h[z] = x} = {z \in W : h[z] = x} \cup {y} /\ y \notin {z \in W : h[z] = x}
          BY <2>1, <4>1
        <5>2. IsFiniteSet({z \in W : h[z] = x})
          BY <2>1, <1>1
        <5> QED  BY <5>1, <5>2, <4>1, FS_AddElement
      <4>2. CASE x # h[y]
        <5>1. {z \in U : h[z] = x} = {z \in W : h[z] = x}
          BY <2>1, <4>2
        <5> QED  BY <5>1, <4>2
      <4> QED  BY <4>1, <4>2
    <3>2. times(W, x) \in Nat /\ F[x] \in Int
      BY <2>1, <1>1
    <3> HIDE DEF times
    <3>3. (times(W, x) + 1) * F[x] = times(W, x) * F[x] + F[x]
      BY <3>2
    <3>4. p[x] = times(U, x) * F[x] /\ q[x] = times(W, x) * F[x]
      OBVIOUS
    <3> HIDE DEF p, q, W, y
    <3> QED  BY <3>1, <3>2, <3>3, <3>4
  <2>4. h[y] \in T /\ F[h[y]] \in Int /\ e[y] = F[h[y]]
    BY <2>1
  <2> DEFINE z == h[y]
             v == F[z]
  <2> HIDE DEF p, q, W, y
  <2>5. Sum(p, T) = Sum(q, T) + v
    <3>1. z \in T /\ v \in Int
      BY <2>4
    <3>2. \A x \in T : q[x] \in Int /\ p[x] = IF x = z THEN q[x] + v ELSE q[x]
      BY <2>3
    <3> HIDE DEF z, v
    <3>3. Changed(p, q, z, v, T)
      BY <3>1, <3>2 DEF Changed
    <3> QED  BY <3>3, SumChanged
  <2>6. Sum(q, T) \in Int
    BY <2>1, <2>2
  <2>7. g[U] = Sum(p, T)
    BY <2>1, <2>2, <2>4, <2>5, <2>6
  <2> QED  BY <2>7 DEF p
<1>6. \A U \in SUBSET S : U \in Claim
  <2> HIDE DEF Claim
  <2> QED  BY <1>4, <1>5, SumInduction
<1>7. g[S] = Sum(part(S), T)
  <2>1. S \in Claim
    <3> HIDE DEF Claim
    <3> QED  BY <1>6
  <2> QED  BY <2>1
<1>8. Sum(part(S), T) = Sum(f, T)
  <2> DEFINE p == part(S)
  <2>1. \A x \in T : p[x] \in Int /\ p[x] = f[x]
    <3> SUFFICES ASSUME NEW x \in T PROVE p[x] \in Int /\ p[x] = f[x]
      OBVIOUS
    <3>1. S \in SUBSET S
      OBVIOUS
    <3> QED  BY <3>1, <1>1
  <2> HIDE DEF p
  <2>2. Sum(p, T) = Sum(f, T)
    BY <2>1, SumSame
  <2> QED  BY <2>2 DEF p
<1> QED  BY <1>3, <1>7, <1>8 DEF IsSum

(* A sum is one of its summands and the sum of the others.                 *)
LEMMA SumOfPart ==
    ASSUME NEW S, IsFiniteSet(S), NEW f, \A x \in S : f[x] \in Int, NEW g, IsSum(g, f, S)
    PROVE  \A t \in SUBSET S : g[t] = Sum(f, t)
<1> SUFFICES ASSUME NEW V \in SUBSET S PROVE g[V] = Sum(f, V)
  OBVIOUS
<1>1. IsFiniteSet(V)
  BY FS_Subset
<1>2. PICK p : IsSum(p, f, V)
  BY <1>1, SumUnrolled
<1> DEFINE T == {t \in SUBSET V : p[t] = g[t]}
<1>3. {} \in T
  BY <1>2 DEF IsSum
<1>4. ASSUME NEW t \in SUBSET V, t # {}, t \ {One(V)[t]} \in T PROVE t \in T
  <2> DEFINE x == One(V)[t]
             u == t \ {x}
  <2>1. One(S)[t] = x
    BY DEF One
  <2>2. p[t] = f[x] + p[u]
    BY <1>2, <1>4 DEF IsSum
  <2>3. t \in SUBSET S
    OBVIOUS
  <2>4. g[t] = f[x] + g[u]
    BY <1>4, <2>1, <2>3 DEF IsSum
  <2>5. p[u] = g[u]
    BY <1>4
  <2>6. p[t] = g[t]
    BY <2>2, <2>4, <2>5
  <2> QED  BY <2>6
<1> HIDE DEF T
<1>5. \A t \in SUBSET V : t \in T
  BY <1>1, <1>3, <1>4, SumInduction
<1>6. V \in T
  BY <1>5
<1> QED  BY <1>6, <1>2 DEF T, IsSum

Takes(f, S, t) ==
    /\ One(S)[t] \in t
    /\ Sum(f, t) = f[One(S)[t]] + Sum(f, t \ {One(S)[t]})

(* Every sum takes one of its summands. *)
LEMMA SumTakes ==
    ASSUME NEW S, IsFiniteSet(S), NEW f, \A x \in S : f[x] \in Int,
           NEW t \in SUBSET S, t # {}
    PROVE  Takes(f, S, t)
<1>1. PICK g : IsSum(g, f, S)
  BY SumUnrolled
<1>2. \A u \in SUBSET S : g[u] = Sum(f, u)
  BY <1>1, SumOfPart
<1>3. /\ One(S)[t] \in t /\ t \ {One(S)[t]} \in SUBSET S
      /\ g[t] = f[One(S)[t]] + g[t \ {One(S)[t]}]
  BY <1>1 DEF IsSum
<1> QED  BY <1>2, <1>3 DEF Takes

(* The sum of nothing.                                                     *)
LEMMA SumOfNone == ASSUME NEW f PROVE Sum(f, {}) = 0
<1>1. PICK g : IsSum(g, f, {})
  BY FS_EmptySet, SumUnrolled
<1> QED  BY <1>1 DEF IsSum

(* A table adds up to the same by rows and by columns.                     *)
Table(F, rows, cols, S, T) ==
    /\ \A x \in S : \A y \in T : F[x][y] \in Int
    /\ \A x \in S : rows[x] = Sum(F[x], T)
    /\ \A y \in T : cols[y] = Sum([x \in S |-> F[x][y]], S)

(* So the two sums of a table are equal. *)
LEMMA SumSwap ==
    ASSUME NEW S, IsFiniteSet(S), NEW T, IsFiniteSet(T),
           NEW F, NEW rows, NEW cols, Table(F, rows, cols, S, T)
    PROVE  Sum(rows, S) = Sum(cols, T)
<1> USE DEF Table
<1> DEFINE col(y) == [x \in S |-> F[x][y]]
           part(U) == [y \in T |-> Sum(col(y), U)]
           Claim == {U \in SUBSET S : Sum(rows, U) = Sum(part(U), T)}
<1>1. \A x \in S : rows[x] \in Int
  BY SumType
<1>2. {} \in Claim
  <2> DEFINE p == part({})
  <2>1. \A y \in T : p[y] = 0
    BY SumOfNone
  <2> HIDE DEF p
  <2>2. Sum(p, T) = Cardinality(T) * 0
    BY <2>1, 0 \in Int, SumOfEqual
  <2>3. Sum(p, T) = 0
    BY <2>2, FS_CardinalityType
  <2> QED  BY <2>3, SumOfNone DEF p
<1>3. ASSUME NEW U \in SUBSET S, U # {}, U \ {One(S)[U]} \in Claim PROVE U \in Claim
  <2> DEFINE x == One(S)[U]
             W == U \ {x}
             p == part(U)
             q == part(W)
             f == F[x]
  <2>1. x \in U /\ Sum(rows, U) = rows[x] + Sum(rows, W)
    <3>1. U \in SUBSET S /\ U # {}
      BY <1>3
    <3>2. Takes(rows, S, U)
      BY <1>1, <3>1, SumTakes
    <3> QED  BY <3>2 DEF Takes
  <2>2. Sum(rows, W) = Sum(q, T)
    BY <1>3
  <2>3. ASSUME NEW y \in T PROVE f[y] \in Int /\ q[y] \in Int /\ p[y] = f[y] + q[y]
    <3> DEFINE c == col(y)
    <3>1. \A z \in S : c[z] \in Int /\ c[z] = F[z][y]
      OBVIOUS
    <3>2. W \in SUBSET S /\ IsFiniteSet(W) /\ p[y] = Sum(c, U) /\ q[y] = Sum(c, W)
      BY <1>3, FS_Subset
    <3> HIDE DEF c, p, q
    <3>3. Sum(c, U) = c[x] + Sum(c, W)
      <4>1. U \in SUBSET S /\ U # {} /\ \A z \in S : c[z] \in Int
        BY <1>3, <3>1
      <4>2. Takes(c, S, U)
        BY <4>1, SumTakes
      <4> QED  BY <4>2 DEF Takes
    <3>4. Sum(c, W) \in Int
      BY <3>1, <3>2, SumType
    <3>5. c[x] = f[y] /\ f[y] \in Int
      BY <3>1, <2>1
    <3> QED  BY <3>2, <3>3, <3>4, <3>5
  <2>4. rows[x] = Sum(f, T)
    BY <2>1
  <2> HIDE DEF p, q, f, W, x
  <2>5. Sum(p, T) = Sum(f, T) + Sum(q, T)
    BY <2>3, SumAdded
  <2>6. Sum(rows, U) = Sum(p, T)
    BY <2>1, <2>2, <2>4, <2>5
  <2> QED  BY <2>6 DEF p
<1> HIDE DEF Claim
<1>4. \A U \in SUBSET S : U \in Claim
  BY <1>2, <1>3, SumInduction
<1>5. S \in Claim
  BY <1>4
<1>6. Sum(rows, S) = Sum(part(S), T)
  BY <1>5 DEF Claim
<1> DEFINE p == part(S)
<1>7. \A y \in T : p[y] \in Int /\ p[y] = cols[y]
  <2> SUFFICES ASSUME NEW y \in T PROVE p[y] \in Int /\ p[y] = cols[y]
    OBVIOUS
  <2> DEFINE c == col(y)
  <2>1. \A x \in S : c[x] \in Int
    OBVIOUS
  <2>2. p[y] = Sum(c, S) /\ cols[y] = Sum(c, S)
    OBVIOUS
  <2> HIDE DEF c, p
  <2> QED  BY <2>1, <2>2, SumType
<1> HIDE DEF p
<1>8. Sum(p, T) = Sum(cols, T)
  BY <1>7, SumSame
<1> QED  BY <1>6, <1>8 DEF p

(* The order of the summands does not matter.                              *)
Shuffled(e, F, h, S) ==
    /\ h \in [S -> S] /\ \A x \in S : F[x] \in Int
    /\ \A x, y \in S : h[x] = h[y] => x = y
    /\ \A x \in S : \E y \in S : h[y] = x
    /\ \A y \in S : e[y] = F[h[y]]

(* So a permutation leaves a sum as it is. *)
LEMMA SumShuffled ==
    ASSUME NEW S, IsFiniteSet(S), NEW h, NEW F, NEW e, Shuffled(e, F, h, S)
    PROVE  Sum(e, S) = Sum(F, S)
<1> USE DEF Shuffled
<1> DEFINE f == [x \in S |-> Cardinality({y \in S : h[y] = x}) * F[x]]
<1>1. ASSUME NEW x \in S PROVE f[x] = F[x]
  <2>1. PICK z \in S : h[z] = x
    OBVIOUS
  <2>2. {y \in S : h[y] = x} = {z}
    BY <2>1
  <2>3. Cardinality({y \in S : h[y] = x}) = 1
    BY <2>2, FS_Singleton
  <2> DEFINE c == Cardinality({y \in S : h[y] = x})
  <2>4. f[x] = c * F[x] /\ c = 1
    BY <2>3
  <2> HIDE DEF c, f
  <2> QED  BY <2>4
<1>2. \A x \in S : f[x] = Cardinality({y \in S : h[y] = x}) * F[x]
  OBVIOUS
<1> HIDE DEF f
<1>3. Sum(e, S) = Sum(f, S)
  <2>1. Led(e, f, h, F, S, S)
    BY <1>2 DEF Led
  <2> QED  BY <2>1, SumByImage
<1>4. Sum(f, S) = Sum(F, S)
  <2>1. \A x \in S : f[x] \in Int /\ f[x] = F[x]
    BY <1>1
  <2> QED  BY <2>1, SumSame
<1> QED  BY <1>3, <1>4

(* A summand more.                                                         *)
LEMMA SumOfMore ==
    ASSUME NEW S, IsFiniteSet(S), NEW x, x \notin S, NEW f, \A y \in S \cup {x} : f[y] \in Int
    PROVE  /\ IsFiniteSet(S \cup {x})
           /\ Sum(f, S) \in Int
           /\ Sum(f, S \cup {x}) = Sum(f, S) + f[x]
<1> DEFINE U == S \cup {x}
           h == [y \in S |-> y]
           e == [y \in U |-> IF y = x THEN 0 ELSE f[y]]
<1>1. IsFiniteSet(U)
  BY FS_AddElement
<1>2. Sum(f, S) = Sum(e, U)
  <2>1. ASSUME NEW y \in U PROVE e[y] = Cardinality({z \in S : h[z] = y}) * f[y]
    <3>1. f[y] \in Int
      OBVIOUS
    <3>2. CASE y = x
      <4>1. {z \in S : h[z] = y} = {}
        BY <3>2
      <4>2. Cardinality({z \in S : h[z] = y}) = 0
        BY <4>1, FS_EmptySet
      <4> QED  BY <3>1, <3>2, <4>2
    <3>3. CASE y # x
      <4>1. {z \in S : h[z] = y} = {y}
        BY <3>3
      <4>2. Cardinality({z \in S : h[z] = y}) = 1
        BY <4>1, FS_Singleton
      <4>3. e[y] = f[y]
        BY <3>3
      <4> HIDE DEF e, h
      <4> QED  BY <3>1, <4>2, <4>3
    <3> QED  BY <3>2, <3>3
  <2>2. Led(f, e, h, f, S, U)
    <3>1. h \in [S -> U] /\ \A y \in S : f[y] = f[h[y]]
      OBVIOUS
    <3> HIDE DEF h, e
    <3> QED  BY <2>1, <3>1 DEF Led
  <2> HIDE DEF U, h, e
  <2> QED  BY <1>1, <2>2, SumByImage
<1>3. Sum(f, U) = Sum(e, U) + f[x]
  <2>1. Changed(f, e, x, f[x], U)
    BY DEF Changed
  <2> HIDE DEF U, e
  <2> QED  BY <1>1, <2>1, SumChanged
<1>4. Sum(f, S) \in Int
  BY SumType
<1> QED  BY <1>1, <1>2, <1>3, <1>4

(* The sum of the first positions, twice.                                  *)
LEMMA SumOfPositions ==
    ASSUME NEW n \in Nat
    PROVE  2 * Sum([k \in 1 .. n |-> k], 1 .. n) = n * (n + 1)
<1> DEFINE D == 1 .. n
           f == [k \in D |-> k]
           back == [k \in D |-> n + 1 - k]
           all == [k \in D |-> n + 1]
<1>1. IsFiniteSet(D) /\ Cardinality(D) = n
  BY FS_Interval
<1>2. /\ back \in [D -> D] /\ \A k \in D : f[k] = k /\ f[k] \in Int /\ all[k] = n + 1
      /\ f \in [D -> Int] /\ \A k \in D : back[k] \in Int /\ back[k] = f[back[k]] /\ all[k] = f[k] + back[k]
  OBVIOUS
<1>3. \A k, l \in D : back[k] = back[l] => k = l
  OBVIOUS
<1>4. \A k \in D : \E l \in D : back[l] = k
  <2> SUFFICES ASSUME NEW k \in D PROVE \E l \in D : back[l] = k
    OBVIOUS
  <2>1. n + 1 - k \in D /\ back[n + 1 - k] = k
    OBVIOUS
  <2> QED  BY <2>1
<1> HIDE DEF D, f, back, all
<1>5. Sum(back, D) = Sum(f, D)
  <2>1. Shuffled(back, f, back, D)
    BY <1>2, <1>3, <1>4 DEF Shuffled
  <2> QED  BY <1>1, <2>1, SumShuffled
<1>6. Sum(all, D) = Sum(f, D) + Sum(back, D)
  BY <1>1, <1>2, SumAdded
<1>7. Sum(all, D) = n * (n + 1)
  BY <1>1, <1>2, n + 1 \in Int, SumOfEqual
<1>8. Sum(f, D) \in Int
  BY <1>1, <1>2, SumType
<1>9. 2 * Sum(f, D) = n * (n + 1)
  BY <1>5, <1>6, <1>7, <1>8
<1> QED  BY <1>9 DEF D, f

(* The sum of a function is that of its values. *)
LEMMA SumIs == ASSUME NEW S, NEW f, DOMAIN f = S PROVE sum(f) = Sum(f, S)
BY DEF sum, Sum

----------------------------------------------------------------------------
(* Sorting *)

(* It is defined, and takes every position once.                           *)
Order(keys, n, order) ==
    /\ order \in [1 .. n -> 1 .. n]
    /\ \A i, j \in 1 .. n : i < j =>
          \/ keys[order[i]] < keys[order[j]]
          \/ keys[order[i]] = keys[order[j]] /\ order[i] < order[j]

(* There is such an order, *)
LEMMA Ranked ==
    ASSUME NEW n \in Nat, NEW keys, \A i \in 1 .. n : keys[i] \in Int
    PROVE  \E order : Order(keys, n, order)
<1> DEFINE D == 1 .. n
           Before(i) == {j \in D : \/ keys[j] < keys[i]
                                   \/ keys[j] = keys[i] /\ j < i}
           pos == [i \in D |-> 1 + Cardinality(Before(i))]
<1>0. IsFiniteSet(D) /\ Cardinality(D) = n
  BY FS_Interval
<1>1. ASSUME NEW i \in D
      PROVE  /\ IsFiniteSet(Before(i)) /\ i \notin Before(i)
             /\ Cardinality(Before(i)) \in 0 .. n - 1
  <2>1. IsFiniteSet(Before(i)) /\ i \notin Before(i)
    BY <1>0, FS_Subset
  <2>2. Before(i) \subseteq D \ {i} /\ IsFiniteSet(D \ {i}) /\ Cardinality(D \ {i}) = n - 1
    BY <2>1, <1>0, FS_RemoveElement
  <2>3. Cardinality(Before(i)) <= n - 1 /\ Cardinality(Before(i)) \in Nat
    <3> HIDE DEF Before, D
    <3> QED  BY <2>1, <2>2, FS_Subset, FS_CardinalityType
  <2> HIDE DEF Before
  <2> QED  BY <2>1, <2>3
<1>2. ASSUME NEW i \in D, NEW j \in D, i \in Before(j) PROVE pos[i] < pos[j]
  <2>1. Before(i) \subseteq Before(j) \ {i}
    <3> SUFFICES ASSUME NEW k \in Before(i) PROVE k \in Before(j) /\ k # i
      OBVIOUS
    <3>1. k \in D /\ keys[k] \in Int /\ keys[i] \in Int /\ keys[j] \in Int
      OBVIOUS
    <3> QED  BY <1>2, <3>1
  <2>2. /\ IsFiniteSet(Before(j) \ {i})
        /\ Cardinality(Before(j) \ {i}) = Cardinality(Before(j)) - 1
    BY <1>1, <1>2, FS_RemoveElement
  <2>3. Cardinality(Before(i)) <= Cardinality(Before(j)) - 1
    <3> HIDE DEF Before
    <3> QED  BY <2>1, <2>2, FS_Subset
  <2>4. Cardinality(Before(i)) \in Nat /\ Cardinality(Before(j)) \in Nat
    BY <1>1, FS_CardinalityType
  <2>5. pos[i] = 1 + Cardinality(Before(i)) /\ pos[j] = 1 + Cardinality(Before(j))
    OBVIOUS
  <2> HIDE DEF Before, pos
  <2> QED  BY <2>3, <2>4, <2>5
<1>3. \A i, j \in D : i \in Before(j) \/ j \in Before(i) \/ i = j
  <2> SUFFICES ASSUME NEW i \in D, NEW j \in D
               PROVE  i \in Before(j) \/ j \in Before(i) \/ i = j
    OBVIOUS
  <2>1. keys[i] \in Int /\ keys[j] \in Int
    OBVIOUS
  <2> QED  BY <2>1
<1>4. pos \in [D -> D]
  <2> SUFFICES ASSUME NEW i \in D PROVE 1 + Cardinality(Before(i)) \in D
    OBVIOUS
  <2>1. Cardinality(Before(i)) \in 0 .. n - 1
    BY <1>1
  <2> HIDE DEF Before
  <2> QED  BY <2>1
<1> HIDE DEF Before, pos
<1>5. \A i, j \in D : pos[i] = pos[j] => i = j
  <2>1. \A i \in D : pos[i] \in Int
    BY <1>4
  <2> QED  BY <1>2, <1>3, <2>1
<1>6. pos \in Surjection(D, D)
  <2>1. pos \in Injection(D, D)
    BY <1>4, <1>5, Fun_IsInj
  <2> HIDE DEF D
  <2> QED  BY <2>1, <1>0, FS_Injection
<1>7. \A k \in D : \E i \in D : pos[i] = k
  BY <1>6 DEF Surjection
<1> DEFINE order == [k \in D |-> CHOOSE i \in D : pos[i] = k]
<1>8. \A k \in D : order[k] \in D /\ pos[order[k]] = k
  BY <1>7
<1>9. order \in [D -> D]
  BY <1>8
<1> HIDE DEF order
<1>10. ASSUME NEW k \in D, NEW l \in D, k < l
       PROVE  \/ keys[order[k]] < keys[order[l]]
              \/ keys[order[k]] = keys[order[l]] /\ order[k] < order[l]
  <2>1. order[k] # order[l] /\ order[k] \in D /\ order[l] \in D
    BY <1>8, <1>10
  <2>2. order[l] \notin Before(order[k])
    <3>1. order[l] \in Before(order[k]) => l < k
      BY <1>2, <1>8
    <3> QED  BY <3>1, <1>10
  <2>3. order[k] \in Before(order[l])
    BY <2>1, <2>2, <1>3
  <2> QED  BY <2>3 DEF Before
<1> QED  BY <1>9, <1>10 DEF Order

(* it takes every position once, *)
LEMMA OrderTakesAll ==
    ASSUME NEW n \in Nat, NEW keys, \A i \in 1 .. n : keys[i] \in Int,
           NEW order, Order(keys, n, order)
    PROVE  /\ \A i, j \in 1 .. n : order[i] = order[j] => i = j
           /\ \A i \in 1 .. n : \E k \in 1 .. n : order[k] = i
<1> DEFINE D == 1 .. n
<1>a. /\ order \in [D -> D]
      /\ \A i, j \in D : i < j =>
           \/ keys[order[i]] < keys[order[j]]
           \/ keys[order[i]] = keys[order[j]] /\ order[i] < order[j]
  BY ONLY Order(keys, n, order) DEF Order
<1>b. D \subseteq Int /\ \A i \in D : keys[i] \in Int
  BY ONLY n \in Nat, \A i \in 1 .. n : keys[i] \in Int
<1>1. order \in [D -> D] /\ \A k \in D : order[k] \in D /\ order[k] \in Int /\ keys[order[k]] \in Int
  <2> HIDE DEF D
  <2>1. ASSUME NEW k \in D PROVE order[k] \in D
    BY ONLY <1>a, <2>1
  <2> QED  BY ONLY <1>a, <1>b, <2>1
<1>2. \A i, j \in D : i < j => order[i] # order[j]
  <2> HIDE DEF D
  <2> SUFFICES ASSUME NEW i \in D, NEW j \in D, i < j PROVE order[i] # order[j]
    OBVIOUS
  <2> SUFFICES ASSUME order[i] = order[j] PROVE FALSE
    OBVIOUS
  <2>1. keys[order[i]] < keys[order[i]] \/ order[i] < order[i]
    BY ONLY <1>a, i \in D, j \in D, i < j, order[i] = order[j]
  <2>2. order[i] \in Int /\ keys[order[i]] \in Int
    BY ONLY <1>1, i \in D
  <2> QED  BY ONLY <2>1, <2>2
<1>3. \A i, j \in D : order[i] = order[j] => i = j
  <2> SUFFICES ASSUME NEW i \in D, NEW j \in D, i # j PROVE order[i] # order[j]
    OBVIOUS
  <2>1. i < j \/ j < i
    OBVIOUS
  <2> QED  BY <1>2, <2>1
<1>4. order \in Injection(D, D)
  BY <1>1, <1>3, Fun_IsInj
<1>5. IsFiniteSet(D)
  BY FS_Interval
<1>6. order \in Surjection(D, D)
  <2> HIDE DEF D
  <2> QED  BY <1>4, <1>5, FS_Injection
<1>7. \A i \in D : \E k \in D : order[k] = i
  BY <1>6 DEF Surjection
<1> QED  BY <1>3, <1>7

(* and sorted is one. *)
LEMMA Sorted ==
    ASSUME NEW n \in Nat, NEW keys, DOMAIN keys = 1 .. n, \A i \in 1 .. n : keys[i] \in Int
    PROVE  Order(keys, n, sorted(keys))
<1>1. \E order \in [1 .. n -> 1 .. n] : \A i, j \in 1 .. n : i < j =>
          \/ keys[order[i]] < keys[order[j]]
          \/ keys[order[i]] = keys[order[j]] /\ order[i] < order[j]
  BY Ranked DEF Order
<1> DEFINE P(order) == \A i, j \in 1 .. n : i < j =>
          \/ keys[order[i]] < keys[order[j]]
          \/ keys[order[i]] = keys[order[j]] /\ order[i] < order[j]
<1>2. sorted(keys) = CHOOSE order \in [1 .. n -> 1 .. n] : P(order)
  BY DEF sorted
<1>3. \E order \in [1 .. n -> 1 .. n] : P(order)
  BY <1>1
<1>4. sorted(keys) \in [1 .. n -> 1 .. n] /\ P(sorted(keys))
  <2> HIDE DEF P
  <2> QED  BY <1>2, <1>3
<1> QED  BY <1>4 DEF Order

(* What is in order already, sorting leaves as it is.                      *)
LEMMA SortedAlready ==
    ASSUME NEW n \in Nat, NEW keys, \A k \in 1 .. n : keys[k] \in Int,
           \A k, m \in 1 .. n : k <= m => keys[k] <= keys[m],
           NEW order, Order(keys, n, order)
    PROVE  \A k \in 1 .. n : order[k] = k
<1>1. \A k \in 1 .. n : order[k] \in 1 .. n
  BY DEF Order
<1>2. ASSUME NEW i \in 1 .. n, NEW j \in 1 .. n, i < j PROVE order[i] < order[j]
  <2> DEFINE p == order[i]
             q == order[j]
  <2>1. p \in 1 .. n /\ q \in 1 .. n /\ keys[p] \in Int /\ keys[q] \in Int
    BY <1>1
  <2>2. keys[p] < keys[q] \/ p < q
    BY <1>2 DEF Order
  <2>3. q <= p => keys[q] <= keys[p]
    BY <2>1
  <2> HIDE DEF p, q
  <2>4. p < q
    BY <2>1, <2>2, <2>3
  <2> QED  BY <2>4 DEF p, q
<1> DEFINE T == {k \in 0 .. n : k # 0 => k <= order[k]}
           U == {d \in 0 .. n : d # n => order[n - d] <= n - d}
<1>3. 0 \in T
  OBVIOUS
<1>4. ASSUME NEW k \in 0 .. n - 1, k \in T PROVE k + 1 \in T
  <2>1. k + 1 \in 1 .. n /\ k + 1 \in 0 .. n /\ order[k + 1] \in 1 .. n
    BY <1>1
  <2>2. CASE k = 0
    BY <2>1, <2>2
  <2>3. CASE k # 0
    <3>1. k \in 1 .. n /\ k < k + 1
      BY <2>3
    <3>2. order[k] < order[k + 1] /\ k <= order[k] /\ order[k] \in 1 .. n
      BY <3>1, <2>1, <1>1, <1>2, <1>4
    <3>3. k + 1 <= order[k + 1]
      BY <3>1, <3>2, <2>1
    <3> QED  BY <3>3, <2>1
  <2> QED  BY <2>2, <2>3
<1>5. 0 \in U
  <2>1. n # 0 => n \in 1 .. n /\ n - 0 = n
    OBVIOUS
  <2> QED  BY <2>1, <1>1
<1>6. ASSUME NEW d \in 0 .. n - 1, d \in U PROVE d + 1 \in U
  <2>1. d + 1 \in 0 .. n
    OBVIOUS
  <2>2. CASE d + 1 = n
    BY <2>1, <2>2
  <2>3. CASE d + 1 # n
    <3> DEFINE k == n - (d + 1)
               m == n - d
    <3>1. k \in 1 .. n /\ m \in 1 .. n /\ k < m /\ m = k + 1 /\ d # n
      BY <2>3
    <3>2. order[m] <= m
      BY <3>1, <1>6
    <3> HIDE DEF k, m
    <3>3. order[k] < order[m] /\ order[k] \in 1 .. n /\ order[m] \in 1 .. n
      BY <3>1, <1>1, <1>2
    <3>4. order[k] <= k
      BY <3>1, <3>2, <3>3
    <3> QED  BY <3>4, <2>1 DEF k
  <2> QED  BY <2>2, <2>3
<1> HIDE DEF T, U
<1>7. \A k \in 0 .. n : k \in T
  BY <1>3, <1>4, CountingTo
<1>8. \A d \in 0 .. n : d \in U
  BY <1>5, <1>6, CountingTo
<1>9. ASSUME NEW k \in 1 .. n PROVE order[k] = k
  <2>1. k \in 0 .. n /\ k # 0 /\ n - k \in 0 .. n /\ n - k # n /\ n - (n - k) = k
    OBVIOUS
  <2>2. k <= order[k]
    BY <2>1, <1>7 DEF T
  <2>3. order[k] <= k
    <3>1. n - k \in U
      BY <2>1, <1>8
    <3>2. order[n - (n - k)] <= n - (n - k)
      BY <3>1, <2>1 DEF U
    <3> QED  BY <3>2, <2>1
  <2> QED  BY <2>2, <2>3, <1>1
<1> QED  BY <1>9

----------------------------------------------------------------------------
(* Sequences *)

(* A sequence with another term.                                           *)
LEMMA Appended ==
    ASSUME NEW A, NEW s \in Seq(A), NEW x \in A
    PROVE  /\ Append(s, x) \in Seq(A) /\ Append(s, x) # <<>> /\ Len(s) \in Nat
           /\ Len(Append(s, x)) = Len(s) + 1 /\ Append(s, x)[Len(s) + 1] = x
           /\ \A k \in 1 .. Len(s) : Append(s, x)[k] = s[k] /\ s[k] \in A
OBVIOUS

(* A sequence after another one.                                           *)
LEMMA Joined ==
    ASSUME NEW A, NEW a \in Seq(A)
    PROVE  /\ a \o <<>> = a /\ <<>> \o a = a
           /\ \A b \in Seq(A) : /\ a \o b \in Seq(A) /\ Len(a \o b) = Len(a) + Len(b)
                                /\ Len(a) \in Nat /\ Len(b) \in Nat
                                /\ \A k \in 1 .. Len(a) : (a \o b)[k] = a[k]
                                /\ \A k \in 1 .. Len(b) : (a \o b)[Len(a) + k] = b[k]
           /\ \A b \in Seq(A) : \A x \in A : a \o Append(b, x) = Append(a \o b, x)
<1>1. a \o <<>> = a /\ <<>> \o a = a
  OBVIOUS
<1>2. ASSUME NEW b \in Seq(A)
      PROVE  /\ a \o b \in Seq(A) /\ Len(a \o b) = Len(a) + Len(b)
             /\ Len(a) \in Nat /\ Len(b) \in Nat
             /\ \A k \in 1 .. Len(a) : (a \o b)[k] = a[k]
             /\ \A k \in 1 .. Len(b) : (a \o b)[Len(a) + k] = b[k]
  OBVIOUS
<1>3. ASSUME NEW b \in Seq(A), NEW x \in A PROVE a \o Append(b, x) = Append(a \o b, x)
  OBVIOUS
<1> QED  BY <1>1, <1>2, <1>3

(* Those goes through the terms one after the other.                       *)
Keep(kept, x, V) == IF x \in V THEN Append(kept, x) ELSE kept
IsKeeping(g, n, s, V, A) ==
    /\ g \in [0 .. n -> Seq(A)] /\ g[0] = <<>> /\ g[n] = Those(s, V)
    /\ \A k \in 1 .. n : g[k] = Keep(g[k - 1], s[k], V)

(* Every loop can be followed so. *)
LEMMA ThoseUnrolled ==
    ASSUME NEW A, NEW s, s \in Seq(A), NEW V
    PROVE  \E g : IsKeeping(g, Len(s), s, V, A)
<1> DEFINE n == Len(s)
           D == 1 .. n
           B == Seq(A)
           Eq(F) == F = [t \in SUBSET D |->
                           IF t = {} THEN <<>>
                           ELSE IF s[Max(t)] \in V THEN Append(F[t \ {Max(t)}], s[Max(t)])
                                ELSE F[t \ {Max(t)}]]
           F == CHOOSE f : Eq(f)
<1>1. n \in Nat /\ DOMAIN s = D /\ IsFiniteSet(D) /\ \A k \in D : s[k] \in A
  <2>1. n \in Nat
    OBVIOUS
  <2>2. IsFiniteSet(D)
    BY <2>1, FS_Interval
  <2> QED  BY <2>1, <2>2
<1>2. \A t \in SUBSET D : t # {} => Max(t) \in t
  BY <1>1, MaxIn
<1>3. Those(s, V) = F[D]
  BY <1>1 DEF Those, FoldLeft, MapThenFoldSet
<1> HIDE DEF n
<1>4. \E f : Eq(f)
  <2> DEFINE pick == [t \in SUBSET D |-> Max(t)]
             op == [p \in D \X B |-> Keep(p[2], s[p[1]], V)]
  <2>1. Folds(op, <<>>, D, B) /\ Picks(pick, D)
    <3>1. ASSUME NEW k \in D, NEW kept \in B PROVE Keep(kept, s[k], V) \in B
      <4>1. s[k] \in A
        BY <1>1
      <4> QED  BY <4>1 DEF Keep
    <3>2. op \in [D \X B -> B] /\ <<>> \in B
      BY <3>1
    <3>3. Picks(pick, D)
      BY <1>2 DEF Picks
    <3> QED  BY <3>2, <3>3 DEF Folds
  <2>2. PICK g : IsFold(g, D, B, <<>>, op, pick)
    <3> HIDE DEF pick, op, D, B
    <3> QED  BY <1>1, <2>1, FoldDefined
  <2>3. ASSUME NEW t \in SUBSET D, t # {}
        PROVE  op[<<pick[t], g[t \ {pick[t]}]>>] = Keep(g[t \ {Max(t)}], s[Max(t)], V)
    <3>1. Max(t) \in D /\ t \ {Max(t)} \in SUBSET D
      BY <1>2, <2>3
    <3> HIDE DEF B
    <3> QED  BY <3>1, <2>2 DEF IsFold
  <2>4. \A t \in SUBSET D : g[t] = IF t = {} THEN <<>> ELSE Keep(g[t \ {Max(t)}], s[Max(t)], V)
    <3> HIDE DEF B, op
    <3> QED  BY <2>2, <2>3 DEF IsFold
  <2>5. Eq(g)
    <3>1. g \in [SUBSET D -> B]
      BY <2>2 DEF IsFold
    <3> HIDE DEF B
    <3> QED  BY <3>1, <2>4 DEF Keep
  <2> QED  BY <2>5
<1>5. Eq(F)
  <2> HIDE DEF Eq
  <2> QED  BY <1>4
<1>6. F[{}] = <<>> /\ \A k \in D : F[1 .. k] = Keep(F[1 .. k - 1], s[k], V)
  <2>1. ASSUME NEW k \in D PROVE F[1 .. k] = Keep(F[1 .. k - 1], s[k], V)
    <3>0. k \in Nat /\ k # 0
      BY <1>1
    <3>1. (1 .. k) \in SUBSET D /\ (1 .. k) # {} /\ Max(1 .. k) = k /\ (1 .. k) \ {k} = 1 .. k - 1
      <4>1. Max(1 .. k) = k /\ (1 .. k) \ {k} = 1 .. k - 1
        BY <3>0, MaxTo
      <4>2. (1 .. k) \in SUBSET D /\ 1 \in 1 .. k
        BY <1>1, <3>0
      <4> QED  BY <4>1, <4>2
    <3> HIDE DEF F
    <3> QED  BY <1>5, <3>1 DEF Keep
  <2> HIDE DEF F
  <2> QED  BY <1>5, <2>1
<1> DEFINE g == [k \in 0 .. n |-> F[1 .. k]]
<1>7. \A k \in 0 .. n : F[1 .. k] \in B
  <2> HIDE DEF F
  <2>1. ASSUME NEW k \in D, F[1 .. k - 1] \in B PROVE F[1 .. k] \in B
    <3>1. s[k] \in A /\ F[1 .. k] = Keep(F[1 .. k - 1], s[k], V)
      BY <1>1, <1>6
    <3> QED  BY <3>1, <2>1 DEF Keep
  <2>2. F[{}] \in B
    BY <1>6
  <2> HIDE DEF B
  <2> QED  BY ONLY <2>1, <2>2, <1>1, Running
<1>8. g[0] = <<>> /\ g[n] = Those(s, V) /\ \A k \in 1 .. n : g[k] = Keep(g[k - 1], s[k], V)
  <2> HIDE DEF F
  <2> QED  BY <1>1, <1>3, <1>6
<1> HIDE DEF F, g, B
<1>9. g \in [0 .. n -> B]
  BY <1>7 DEF g
<1> QED  BY <1>8, <1>9 DEF n, B, IsKeeping

(* So it takes the last one at the end.                                    *)
LEMMA ThoseGrows ==
    ASSUME NEW A, NEW V
    PROVE  /\ Those(<<>>, V) = <<>>
           /\ \A s \in Seq(A) : Those(s, V) \in Seq(A)
           /\ \A s \in Seq(A) : \A x \in A :
                Those(Append(s, x), V) = Keep(Those(s, V), x, V)
<1>1. Those(<<>>, V) = <<>>
  <2>1. <<>> \in Seq(A) /\ Len(<<>>) = 0
    OBVIOUS
  <2>2. PICK g : IsKeeping(g, Len(<<>>), <<>>, V, A)
    BY <2>1, ThoseUnrolled
  <2> QED  BY <2>1, <2>2 DEF IsKeeping
<1>2. ASSUME NEW s \in Seq(A) PROVE Those(s, V) \in Seq(A)
  <2>1. PICK g : IsKeeping(g, Len(s), s, V, A)
    BY ThoseUnrolled
  <2>2. Len(s) \in 0 .. Len(s)
    OBVIOUS
  <2> QED  BY <2>1, <2>2 DEF IsKeeping
<1>3. ASSUME NEW s \in Seq(A), NEW x \in A
      PROVE  Those(Append(s, x), V) = Keep(Those(s, V), x, V)
  <2> DEFINE n == Len(s)
             r == Append(s, x)
  <2>1. n \in Nat /\ r \in Seq(A) /\ Len(r) = n + 1 /\ r[n + 1] = x /\ \A k \in 1 .. n : r[k] = s[k]
    OBVIOUS
  <2>2. PICK g : IsKeeping(g, n, s, V, A)
    BY ThoseUnrolled
  <2> HIDE DEF n, r
  <2>4. PICK h : IsKeeping(h, n + 1, r, V, A)
    <3>1. \E h : IsKeeping(h, Len(r), r, V, A)
      BY <2>1, ThoseUnrolled
    <3> QED  BY <2>1, <3>1
  <2> DEFINE T == {k \in 0 .. n : h[k] = g[k]}
  <2>5. 0 \in T
    BY <2>1, <2>2, <2>4 DEF IsKeeping
  <2>6. ASSUME NEW k \in 0 .. n - 1, k \in T PROVE k + 1 \in T
    <3>1. k + 1 \in 1 .. n /\ k + 1 \in 1 .. n + 1 /\ (k + 1) - 1 = k /\ r[k + 1] = s[k + 1]
      BY <2>1
    <3>2. h[k + 1] = Keep(h[k], r[k + 1], V) /\ g[k + 1] = Keep(g[k], s[k + 1], V)
      BY <3>1, <2>2, <2>4 DEF IsKeeping
    <3> QED  BY <3>1, <3>2, <2>6
  <2> HIDE DEF T
  <2>7. \A k \in 0 .. n : k \in T
    BY <2>1, <2>5, <2>6, CountingTo
  <2>8. h[n] = g[n]
    <3>1. n \in T
      BY <2>1, <2>7
    <3> QED  BY <3>1 DEF T
  <2>9. n + 1 \in 1 .. n + 1 /\ (n + 1) - 1 = n
    BY <2>1
  <2>10. Those(r, V) = Keep(Those(s, V), x, V)
    BY <2>1, <2>2, <2>4, <2>8, <2>9 DEF IsKeeping
  <2> QED  BY <2>10 DEF r
<1> QED  BY <1>1, <1>2, <1>3

(* Of the positions up to n it takes those in V. *)
LEMMA ThosePositions ==
    ASSUME NEW n \in Nat, NEW V \in SUBSET (1 .. n)
    PROVE  Len(Those([i \in 1 .. n |-> i], V)) = Cardinality(V)
<1> DEFINE id(k) == [i \in 1 .. k |-> i]
           T == {k \in 0 .. n : Len(Those(id(k), V)) = Cardinality(V \cap (1 .. k))}
<1>1. \A k \in 0 .. n : id(k) \in Seq(Nat) /\ Len(id(k)) = k
  <2> SUFFICES ASSUME NEW k \in 0 .. n PROVE id(k) \in Seq(Nat) /\ Len(id(k)) = k
    OBVIOUS
  <2>1. k \in Nat /\ id(k) \in [1 .. k -> Nat]
    OBVIOUS
  <2> QED  BY <2>1
<1>2. 0 \in T
  <2>1. id(0) = <<>> /\ V \cap (1 .. 0) = {}
    OBVIOUS
  <2>2. Those(<<>>, V) = <<>>
    BY ThoseGrows
  <2> QED  BY <2>1, <2>2, FS_EmptySet
<1>3. ASSUME NEW k \in 0 .. n - 1, k \in T PROVE k + 1 \in T
  <2> DEFINE below == V \cap (1 .. k)
  <2>1. k \in 0 .. n /\ k + 1 \in 0 .. n /\ k \in Nat
    OBVIOUS
  <2>2. id(k + 1) = Append(id(k), k + 1)
    <3>1. id(k) \in Seq(Nat) /\ Len(id(k)) = k
      BY <1>1, <2>1
    <3> QED  BY <3>1, <2>1
  <2>3. Those(id(k + 1), V) = Keep(Those(id(k), V), k + 1, V) /\ Those(id(k), V) \in Seq(Nat)
    <3>1. id(k) \in Seq(Nat) /\ k + 1 \in Nat
      BY <1>1, <2>1
    <3> HIDE DEF id
    <3> QED  BY <2>2, <3>1, ThoseGrows
  <2>4. Len(Those(id(k), V)) = Cardinality(below)
    BY <1>3
  <2>5. IsFiniteSet(below) /\ k + 1 \notin below
    <3>1. IsFiniteSet(1 .. k)
      BY FS_Interval
    <3>2. IsFiniteSet(below)
      BY <3>1, FS_Subset
    <3> QED  BY <3>2, <2>1
  <2>6. CASE k + 1 \in V
    <3>1. V \cap (1 .. k + 1) = below \cup {k + 1}
      BY <2>6, <2>1
    <3>2. Cardinality(below \cup {k + 1}) = Cardinality(below) + 1
      BY <2>5, FS_AddElement
    <3>3. Those(id(k + 1), V) = Append(Those(id(k), V), k + 1)
      BY <2>3, <2>6 DEF Keep
    <3> HIDE DEF id, below
    <3>4. Len(Those(id(k + 1), V)) = Len(Those(id(k), V)) + 1
      BY <2>3, <3>3, <2>1
    <3> QED  BY <2>1, <2>4, <3>1, <3>2, <3>4
  <2>7. CASE k + 1 \notin V
    <3>1. V \cap (1 .. k + 1) = below
      BY <2>7, <2>1
    <3>2. Those(id(k + 1), V) = Those(id(k), V)
      BY <2>3, <2>7 DEF Keep
    <3> HIDE DEF id, below
    <3> QED  BY <2>1, <2>4, <3>1, <3>2
  <2> QED  BY <2>6, <2>7
<1> HIDE DEF T, id
<1>4. \A k \in 0 .. n : k \in T
  BY <1>2, <1>3, CountingTo
<1>5. n \in T
  BY <1>4
<1>6. V \cap (1 .. n) = V
  OBVIOUS
<1> QED  BY <1>5, <1>6 DEF T, id

(* A sequence that ends otherwise is another one.                          *)
EndAlike(s, x, t, y, A) ==
    s \in Seq(A) /\ t \in Seq(A) /\ x \in A /\ y \in A /\ Append(s, x) = Append(t, y)

(* Sequences with the same last term are the same before it. *)
LEMMA SameEnd ==
    ASSUME NEW A, NEW s, NEW t, NEW x, NEW y, EndAlike(s, x, t, y, A)
    PROVE  s = t /\ x = y
<1>0. s \in Seq(A) /\ t \in Seq(A) /\ x \in A /\ y \in A /\ Append(s, x) = Append(t, y)
  BY DEF EndAlike
<1>1. /\ Len(s) \in Nat /\ Len(t) \in Nat
      /\ Len(Append(s, x)) = Len(s) + 1 /\ Len(Append(t, y)) = Len(t) + 1
      /\ Append(s, x)[Len(s) + 1] = x /\ Append(t, y)[Len(t) + 1] = y
      /\ \A k \in 1 .. Len(s) : Append(s, x)[k] = s[k]
      /\ \A k \in 1 .. Len(t) : Append(t, y)[k] = t[k]
  BY <1>0, Appended
<1>2. Len(s) = Len(t) /\ x = y
  BY <1>0, <1>1
<1>3. \A k \in 1 .. Len(s) : s[k] = t[k]
  BY <1>0, <1>1, <1>2
<1>4. s = t
  BY <1>0, <1>2, <1>3, SeqEqual
<1> QED  BY <1>2, <1>4

IsFlattening(f, n, cs, A) ==
    /\ f \in [0 .. n -> Seq(A)] /\ f[0] = <<>> /\ f[n] = FlattenSeq(cs)
    /\ \A k \in 1 .. n : f[k] = f[k - 1] \o cs[k]

(* Every flattening can be followed so. *)
LEMMA FlattenUnrolled ==
    ASSUME NEW A, NEW cs \in Seq(Seq(A))
    PROVE  \E f : IsFlattening(f, Len(cs), cs, A)
<1> DEFINE n == Len(cs)
           B == Seq(A)
           op == [p \in (1 .. n) \X B |-> p[2] \o cs[p[1]]]
           Eq(F) == F = [i \in 1 .. n |-> IF i = 1 THEN cs[i] ELSE F[i - 1] \o cs[i]]
           F == CHOOSE f : Eq(f)
<1>1. n \in Nat /\ \A k \in 1 .. n : cs[k] \in B
  OBVIOUS
<1>2. <<>> \in B /\ \A s \in B, t \in B : s \o t \in B
  OBVIOUS
<1>3. n = 0 => FlattenSeq(cs) = <<>>
  BY DEF FlattenSeq
<1>4. n # 0 => FlattenSeq(cs) = F[n]
  BY DEF FlattenSeq
<1> HIDE DEF n, B
<1>5. PICK f : IsRun(f, n, B, <<>>, op)
  <2>1. Folds(op, <<>>, 1 .. n, B)
    BY <1>1, <1>2 DEF Folds
  <2> HIDE DEF op
  <2> QED  BY <1>1, <2>1, RunDefined
<1>6. /\ f \in [0 .. n -> B] /\ f[0] = <<>>
      /\ \A k \in 1 .. n : f[k - 1] \in B /\ f[k] = f[k - 1] \o cs[k]
  <2>1. f \in [0 .. n -> B] /\ f[0] = <<>>
    BY <1>5 DEF IsRun
  <2>2. ASSUME NEW k \in 1 .. n PROVE f[k - 1] \in B /\ f[k] = f[k - 1] \o cs[k]
    <3>1. k - 1 \in 0 .. n
      BY <1>1
    <3>2. f[k - 1] \in B
      BY <3>1, <2>1
    <3>3. f[k] = op[<<k, f[k - 1]>>]
      <4> HIDE DEF op
      <4> QED  BY <1>5 DEF IsRun
    <3> QED  BY <3>2, <3>3
  <2> QED  BY <2>1, <2>2
<1>7. \E g : Eq(g)
  <2> DEFINE g == [i \in 1 .. n |-> f[i]]
  <2>1. ASSUME NEW i \in 1 .. n
        PROVE  f[i] = IF i = 1 THEN cs[i] ELSE g[i - 1] \o cs[i]
    <3>1. CASE i = 1
      <4>0. 1 \in 1 .. n /\ 1 - 1 = 0
        BY <3>1
      <4>1. f[1] = f[0] \o cs[1] /\ cs[1] \in B
        BY <4>0, <1>1, <1>6
      <4>2. <<>> \o cs[1] = cs[1]
        BY <4>1 DEF B
      <4> QED  BY <3>1, <4>1, <4>2, <1>6
    <3>2. CASE i # 1
      <4>1. i - 1 \in 1 .. n
        BY <3>2, <1>1
      <4> QED  BY <3>2, <4>1, <1>6
    <3> QED  BY <3>1, <3>2
  <2>2. Eq(g)
    BY <2>1
  <2> QED  BY <2>2
<1>8. Eq(F)
  <2> HIDE DEF Eq
  <2> QED  BY <1>7
<1> HIDE DEF F
<1> DEFINE T == {k \in 0 .. n : k # 0 => F[k] = f[k]}
<1>9. 0 \in T
  BY <1>1
<1>10. ASSUME NEW k \in 0 .. n - 1, k \in T PROVE k + 1 \in T
  <2>1. k + 1 \in 1 .. n /\ (k + 1) - 1 = k /\ k + 1 \in 0 .. n
    BY <1>1
  <2>2. F[k + 1] = IF k + 1 = 1 THEN cs[k + 1] ELSE F[k] \o cs[k + 1]
    BY <2>1, <1>8
  <2>3. f[k + 1] = f[k] \o cs[k + 1]
    BY <2>1, <1>6
  <2>4. CASE k = 0
    <3>1. <<>> \o cs[1] = cs[1]
      <4>1. cs[1] \in B
        BY <2>1, <2>4, <1>1
      <4> QED  BY <4>1 DEF B
    <3> QED  BY <3>1, <2>1, <2>2, <2>3, <2>4, <1>6
  <2>5. CASE k # 0
    <3>1. F[k] = f[k]
      BY <1>10, <2>5
    <3>2. k + 1 # 1
      BY <2>5
    <3>3. F[k + 1] = f[k + 1]
      BY <3>1, <3>2, <2>2, <2>3
    <3> QED  BY <3>3, <2>1
  <2> QED  BY <2>4, <2>5
<1> HIDE DEF T
<1>11. \A k \in 0 .. n : k \in T
  BY <1>1, <1>9, <1>10, CountingTo
<1>12. f[n] = FlattenSeq(cs)
  <2>1. n \in T
    BY <1>1, <1>11
  <2>2. n # 0 => F[n] = f[n]
    BY <2>1 DEF T
  <2> QED  BY <2>2, <1>3, <1>4, <1>6
<1>13. IsFlattening(f, n, cs, A)
  BY <1>6, <1>12 DEF IsFlattening, B
<1> QED  BY <1>13 DEF n

(* They take what is appended at the end.                                  *)
LEMMA FlattenGrows ==
    ASSUME NEW A
    PROVE  /\ FlattenSeq(<<>>) = <<>>
           /\ \A cs \in Seq(Seq(A)) : FlattenSeq(cs) \in Seq(A)
           /\ \A cs \in Seq(Seq(A)) : \A c \in Seq(A) :
                FlattenSeq(Append(cs, c)) = FlattenSeq(cs) \o c
<1>1. FlattenSeq(<<>>) = <<>>
  BY DEF FlattenSeq
<1>2. ASSUME NEW cs \in Seq(Seq(A)) PROVE FlattenSeq(cs) \in Seq(A)
  <2>1. PICK f : IsFlattening(f, Len(cs), cs, A)
    BY FlattenUnrolled
  <2>2. Len(cs) \in 0 .. Len(cs)
    OBVIOUS
  <2> QED  BY <2>1, <2>2 DEF IsFlattening
<1>3. ASSUME NEW cs \in Seq(Seq(A)), NEW c \in Seq(A)
      PROVE  FlattenSeq(Append(cs, c)) = FlattenSeq(cs) \o c
  <2> DEFINE n == Len(cs)
             r == Append(cs, c)
  <2>1. /\ n \in Nat /\ r \in Seq(Seq(A)) /\ Len(r) = n + 1 /\ r[n + 1] = c
        /\ \A k \in 1 .. n : r[k] = cs[k]
    BY Appended
  <2>2. PICK g : IsFlattening(g, n, cs, A)
    BY FlattenUnrolled
  <2> HIDE DEF n, r
  <2>3. PICK h : IsFlattening(h, n + 1, r, A)
    <3>1. \E h : IsFlattening(h, Len(r), r, A)
      BY <2>1, FlattenUnrolled
    <3> QED  BY <2>1, <3>1
  <2> DEFINE T == {k \in 0 .. n : h[k] = g[k]}
  <2>4. 0 \in T
    BY <2>1, <2>2, <2>3 DEF IsFlattening
  <2>5. ASSUME NEW k \in 0 .. n - 1, k \in T PROVE k + 1 \in T
    <3>1. k + 1 \in 1 .. n /\ k + 1 \in 1 .. n + 1 /\ (k + 1) - 1 = k /\ r[k + 1] = cs[k + 1]
      BY <2>1
    <3>2. h[k + 1] = h[k] \o r[k + 1] /\ g[k + 1] = g[k] \o cs[k + 1]
      BY <3>1, <2>2, <2>3 DEF IsFlattening
    <3>3. h[k + 1] = g[k + 1]
      BY <3>1, <3>2, <2>5
    <3> QED  BY <3>1, <3>3
  <2> HIDE DEF T
  <2>6. \A k \in 0 .. n : k \in T
    BY <2>1, <2>4, <2>5, CountingTo
  <2>7. h[n] = g[n]
    <3>1. n \in T
      BY <2>1, <2>6
    <3> QED  BY <3>1 DEF T
  <2>8. n + 1 \in 1 .. n + 1 /\ (n + 1) - 1 = n
    BY <2>1
  <2>9. FlattenSeq(r) = FlattenSeq(cs) \o c
    BY <2>1, <2>2, <2>3, <2>7, <2>8 DEF IsFlattening
  <2> QED  BY <2>9 DEF r
<1> QED  BY <1>1, <1>2, <1>3

(* Three sequences, flattened.                                             *)
Flattened(p, q, r) == FlattenSeq(<<p, q, r>>) = p \o q \o r

(* They come one after the other. *)
LEMMA FlattenThree ==
    ASSUME NEW A, NEW p \in Seq(A), NEW q \in Seq(A), NEW r \in Seq(A)
    PROVE  Flattened(p, q, r)
<1> DEFINE B == Seq(A)
<1>1. /\ <<>> \in Seq(B) /\ <<p>> \in Seq(B) /\ <<p, q>> \in Seq(B)
      /\ <<p>> = Append(<<>>, p) /\ <<p, q>> = Append(<<p>>, q)
      /\ <<p, q, r>> = Append(<<p, q>>, r)
  <2> HIDE DEF B
  <2>1. p \in B /\ q \in B /\ r \in B
    BY DEF B
  <2> QED  BY <2>1
<1>2. <<>> \o p = p
  OBVIOUS
<1>3. FlattenSeq(<<p>>) = <<>> \o p
  BY <1>1, FlattenGrows
<1>4. FlattenSeq(<<p, q>>) = FlattenSeq(<<p>>) \o q
  BY <1>1, FlattenGrows
<1>5. FlattenSeq(<<p, q, r>>) = FlattenSeq(<<p, q>>) \o r
  BY <1>1, FlattenGrows
<1> QED  BY <1>2, <1>3, <1>4, <1>5 DEF Flattened

----------------------------------------------------------------------------
(* Counting in sequences *)

(* The terms in V, *)
Tally(s, V) == Cardinality({k \in 1 .. Len(s) : s[k] \in V})
Bit(x, V) == IF x \in V THEN 1 ELSE 0

(* are counted term by term, *)
LEMMA TallyGrows ==
    ASSUME NEW A, NEW V
    PROVE  /\ Tally(<<>>, V) = 0
           /\ \A s \in Seq(A) : Tally(s, V) \in Nat
           /\ \A s \in Seq(A) : \A x \in A :
                Tally(Append(s, x), V) = Tally(s, V) + Bit(x, V)
<1>1. Tally(<<>>, V) = 0
  <2>1. {k \in 1 .. Len(<<>>) : <<>>[k] \in V} = {}
    OBVIOUS
  <2> QED  BY <2>1, FS_EmptySet DEF Tally
<1>2. ASSUME NEW s \in Seq(A)
      PROVE  /\ IsFiniteSet({k \in 1 .. Len(s) : s[k] \in V}) /\ Tally(s, V) \in Nat
  <2> DEFINE at == {k \in 1 .. Len(s) : s[k] \in V}
  <2>1. Len(s) \in Nat /\ at \subseteq 1 .. Len(s)
    OBVIOUS
  <2>2. IsFiniteSet(1 .. Len(s))
    BY <2>1, FS_Interval
  <2> HIDE DEF at
  <2>3. IsFiniteSet(at) /\ Cardinality(at) \in Nat
    BY <2>1, <2>2, FS_Subset, FS_CardinalityType
  <2> QED  BY <2>3 DEF Tally, at
<1>3. ASSUME NEW s \in Seq(A), NEW x \in A
      PROVE  Tally(Append(s, x), V) = Tally(s, V) + Bit(x, V)
  <2> DEFINE n == Len(s)
             r == Append(s, x)
             at == {k \in 1 .. n : s[k] \in V}
             now == {k \in 1 .. Len(r) : r[k] \in V}
  <2>1. /\ n \in Nat /\ Len(r) = n + 1 /\ r[n + 1] = x /\ \A k \in 1 .. n : r[k] = s[k]
    BY Appended
  <2> HIDE DEF n, r
  <2>2. now = IF x \in V THEN at \cup {n + 1} ELSE at
    BY <2>1
  <2>3. n + 1 \notin at
    BY <2>1
  <2>4. IsFiniteSet(at) /\ Cardinality(at) \in Nat
    BY <1>2 DEF Tally, n
  <2> HIDE DEF at, now
  <2>5. Cardinality(at \cup {n + 1}) = Cardinality(at) + 1
    BY <2>3, <2>4, FS_AddElement
  <2>6. Cardinality(now) = Cardinality(at) + Bit(x, V)
    BY <2>2, <2>4, <2>5 DEF Bit
  <2> QED  BY <2>6 DEF Tally, at, now, n, r
<1> QED  BY <1>1, <1>2, <1>3

(* add up, *)
LEMMA TallyJoins ==
    ASSUME NEW A, NEW a \in Seq(A), NEW b \in Seq(A), NEW V
    PROVE  Tally(a \o b, V) = Tally(a, V) + Tally(b, V)
<1> DEFINE T == {s \in Seq(A) : Tally(a \o s, V) = Tally(a, V) + Tally(s, V)}
<1>0. Tally(<<>>, V) = 0 /\ Tally(a, V) \in Nat
  BY TallyGrows
<1>1. <<>> \in T
  BY <1>0, Joined
<1>2. ASSUME NEW s \in Seq(A), NEW x \in A, s \in T PROVE Append(s, x) \in T
  <2>1. a \o Append(s, x) = Append(a \o s, x) /\ a \o s \in Seq(A) /\ Append(s, x) \in Seq(A)
    BY Joined, Appended
  <2>2. /\ Tally(Append(a \o s, x), V) = Tally(a \o s, V) + Bit(x, V)
        /\ Tally(Append(s, x), V) = Tally(s, V) + Bit(x, V)
        /\ Tally(s, V) \in Nat /\ Tally(a \o s, V) \in Nat
    BY <2>1, TallyGrows
  <2>3. Tally(a \o s, V) = Tally(a, V) + Tally(s, V) /\ Bit(x, V) \in Nat
    BY <1>2 DEF Bit
  <2>4. Tally(a \o Append(s, x), V) = Tally(a, V) + Tally(Append(s, x), V)
    BY <1>0, <2>1, <2>2, <2>3
  <2> QED  BY <2>1, <2>4
<1> HIDE DEF T
<1>3. \A s \in Seq(A) : s \in T
  BY <1>1, <1>2, Growing
<1> QED  BY <1>3 DEF T

(* and neighbours in R do, but for those at the seam.                      *)
Couples(s, R) == Cardinality({k \in 1 .. Len(s) - 1 : <<s[k], s[k + 1]>> \in R})
Seam(a, b, R) == IF a # <<>> /\ b # <<>> /\ <<a[Len(a)], b[1]>> \in R THEN 1 ELSE 0

(* and neighbours in R so too; *)
LEMMA CouplesGrow ==
    ASSUME NEW A, NEW R
    PROVE  /\ Couples(<<>>, R) = 0
           /\ \A s \in Seq(A) : Couples(s, R) \in Nat
           /\ \A s \in Seq(A) : \A x \in A :
                Couples(Append(s, x), R) = Couples(s, R) + Seam(s, <<x>>, R)
<1>1. Couples(<<>>, R) = 0
  <2>1. {k \in 1 .. Len(<<>>) - 1 : <<<<>>[k], <<>>[k + 1]>> \in R} = {}
    OBVIOUS
  <2> QED  BY <2>1, FS_EmptySet DEF Couples
<1>2. ASSUME NEW s \in Seq(A)
      PROVE  /\ IsFiniteSet({k \in 1 .. Len(s) - 1 : <<s[k], s[k + 1]>> \in R})
             /\ Couples(s, R) \in Nat
  <2> DEFINE at == {k \in 1 .. Len(s) - 1 : <<s[k], s[k + 1]>> \in R}
  <2>1. Len(s) - 1 \in Int /\ at \subseteq 1 .. Len(s) - 1
    OBVIOUS
  <2>2. IsFiniteSet(1 .. Len(s) - 1)
    BY <2>1, FS_Interval
  <2> HIDE DEF at
  <2>3. IsFiniteSet(at) /\ Cardinality(at) \in Nat
    BY <2>1, <2>2, FS_Subset, FS_CardinalityType
  <2> QED  BY <2>3 DEF Couples, at
<1>3. ASSUME NEW s \in Seq(A), NEW x \in A
      PROVE  Couples(Append(s, x), R) = Couples(s, R) + Seam(s, <<x>>, R)
  <2> DEFINE n == Len(s)
             r == Append(s, x)
             at == {k \in 1 .. n - 1 : <<s[k], s[k + 1]>> \in R}
             now == {k \in 1 .. Len(r) - 1 : <<r[k], r[k + 1]>> \in R}
  <2>1. /\ n \in Nat /\ Len(r) = n + 1 /\ r[n + 1] = x /\ \A k \in 1 .. n : r[k] = s[k]
        /\ (s = <<>> <=> n = 0) /\ <<x>> # <<>> /\ <<x>>[1] = x
    BY Appended
  <2> HIDE DEF n, r
  <2>2. ASSUME NEW k \in 1 .. n - 1 PROVE <<r[k], r[k + 1]>> = <<s[k], s[k + 1]>>
    <3>1. k \in 1 .. n /\ k + 1 \in 1 .. n
      BY <2>1
    <3> QED  BY <3>1, <2>1
  <2>3. n # 0 => r[n] = s[n]
    BY <2>1
  <2>4. Seam(s, <<x>>, R) = IF n # 0 /\ <<s[n], x>> \in R THEN 1 ELSE 0
    BY <2>1 DEF Seam, n
  <2>5. 1 .. Len(r) - 1 = IF n = 0 THEN {} ELSE (1 .. n - 1) \cup {n}
    <3>1. 1 .. Len(r) - 1 = 1 .. n
      BY <2>1
    <3>2. 1 .. n = IF n = 0 THEN {} ELSE (1 .. n - 1) \cup {n}
      <4>1. n \in Nat
        BY <2>1
      <4>2. \A k : k \in 1 .. n <=> n # 0 /\ (k \in 1 .. n - 1 \/ k = n)
        BY ONLY <4>1
      <4>3. n = 0 => 1 .. n = {}
        BY ONLY <4>1
      <4>4. n # 0 => 1 .. n = (1 .. n - 1) \cup {n}
        <5> DEFINE u == 1 .. n
                   v == 1 .. n - 1
        <5>1. \A k : k \in u <=> n # 0 /\ (k \in v \/ k = n)
          BY <4>2
        <5> HIDE DEF u, v
        <5>2. n # 0 => u = v \cup {n}
          BY ONLY <5>1
        <5> QED  BY <5>2 DEF u, v
      <4> QED  BY <4>3, <4>4
    <3> QED  BY <3>1, <3>2
  <2>6. now = IF n # 0 /\ <<s[n], x>> \in R THEN at \cup {n} ELSE at
    <3>1. CASE n = 0
      BY <3>1, <2>5
    <3>2. CASE n # 0
      <4>1. \A k : k \in now <=> k \in at \/ (k = n /\ <<s[n], x>> \in R)
        BY <3>2, <2>1, <2>2, <2>3, <2>5
      <4> HIDE DEF now, at
      <4> QED  BY <3>2, <4>1, SMTT(40)
    <3> QED  BY <3>1, <3>2
  <2>7. n \notin at
    BY <2>1
  <2>8. IsFiniteSet(at) /\ Cardinality(at) \in Nat
    BY <1>2 DEF Couples, n
  <2> HIDE DEF at, now
  <2>10. Cardinality(at \cup {n}) = Cardinality(at) + 1
    BY <2>7, <2>8, FS_AddElement
  <2>9. Cardinality(now) = Cardinality(at) + Seam(s, <<x>>, R)
    BY <2>4, <2>6, <2>8, <2>10
  <2> QED  BY <2>9 DEF Couples, at, now, n, r
<1> QED  BY <1>1, <1>2, <1>3

(* joined, sequences have those of both, and one more if their seam is in  *)
(* R.                                                                      *)
LEMMA CouplesJoin ==
    ASSUME NEW A, NEW a \in Seq(A), NEW b \in Seq(A), NEW R
    PROVE  Couples(a \o b, R) = Couples(a, R) + Couples(b, R) + Seam(a, b, R)
<1> DEFINE T == {s \in Seq(A) : Couples(a \o s, R) = Couples(a, R) + Couples(s, R) + Seam(a, s, R)}
<1>0. Couples(<<>>, R) = 0 /\ Couples(a, R) \in Nat
  BY CouplesGrow
<1>1. <<>> \in T
  BY <1>0, Joined DEF Seam
<1>2. ASSUME NEW s \in Seq(A), NEW x \in A, s \in T PROVE Append(s, x) \in T
  <2> DEFINE r == Append(s, x)
  <2>1. a \o r = Append(a \o s, x) /\ a \o s \in Seq(A) /\ r \in Seq(A)
    BY Joined, Appended
  <2>2. /\ Couples(Append(a \o s, x), R) = Couples(a \o s, R) + Seam(a \o s, <<x>>, R)
        /\ Couples(r, R) = Couples(s, R) + Seam(s, <<x>>, R)
        /\ Couples(s, R) \in Nat /\ Couples(a \o s, R) \in Nat
    BY <2>1, CouplesGrow
  <2>3. Seam(a \o s, <<x>>, R) + Seam(a, s, R) = Seam(a, r, R) + Seam(s, <<x>>, R)
    <3>1. CASE s = <<>>
      <4>1. a \o s = a /\ r = <<x>>
        BY <3>1
      <4> QED  BY <3>1, <4>1 DEF Seam
    <3>2. CASE s # <<>>
      <4>1. Len(s) \in Nat /\ Len(s) # 0 /\ Len(a) \in Nat
        BY <3>2
      <4>2. (a \o s)[Len(a \o s)] = s[Len(s)] /\ a \o s # <<>>
        BY <3>2, <4>1
      <4>3. r[1] = s[1] /\ r # <<>>
        BY <4>1
      <4> HIDE DEF r
      <4> QED  BY <3>2, <4>2, <4>3 DEF Seam
    <3> QED  BY <3>1, <3>2
  <2>4. /\ Seam(a \o s, <<x>>, R) \in Nat /\ Seam(a, s, R) \in Nat
        /\ Seam(a, r, R) \in Nat /\ Seam(s, <<x>>, R) \in Nat
    BY DEF Seam
  <2>5. Couples(a \o s, R) = Couples(a, R) + Couples(s, R) + Seam(a, s, R)
    BY <1>2
  <2> DEFINE c == Couples(a \o s, R)
             p == Couples(a, R)
             q == Couples(s, R)
             t1 == Seam(a \o s, <<x>>, R)
             t2 == Seam(a, s, R)
             t3 == Seam(a, r, R)
             t4 == Seam(s, <<x>>, R)
  <2>7. /\ c \in Nat /\ p \in Nat /\ q \in Nat /\ t1 \in Nat /\ t2 \in Nat /\ t3 \in Nat /\ t4 \in Nat
        /\ Couples(a \o r, R) = c + t1 /\ Couples(r, R) = q + t4 /\ t1 + t2 = t3 + t4 /\ c = p + q + t2
    BY <1>0, <2>1, <2>2, <2>3, <2>4, <2>5
  <2> HIDE DEF r, c, p, q, t1, t2, t3, t4
  <2>6. Couples(a \o r, R) = p + Couples(r, R) + t3
    BY ONLY <2>7
  <2> QED  BY <2>1, <2>6 DEF r, p, t3
<1> HIDE DEF T
<1>3. \A s \in Seq(A) : s \in T
  BY <1>1, <1>2, Growing
<1> QED  BY <1>3 DEF T

----------------------------------------------------------------------------
(* Sequences in order *)

(* Any two terms of a sequence, in their order, are in R.                  *)
Ordered(s, R) == \A k, m \in 1 .. Len(s) : k < m => <<s[k], s[m]>> \in R

(* A sequence and a term are in order if the sequence is, and each of its  *)
(* terms with the new one.                                                 *)
LEMMA OrderedGrows ==
    ASSUME NEW A, NEW s \in Seq(A), NEW x \in A, NEW R
    PROVE  Ordered(Append(s, x), R) <=> Ordered(s, R) /\ \A y \in Range(s) : <<y, x>> \in R
<1> DEFINE n == Len(s)
           r == Append(s, x)
<1>1. /\ n \in Nat /\ DOMAIN s = 1 .. n /\ Len(r) = n + 1 /\ r[n + 1] = x
      /\ \A k \in 1 .. n : r[k] = s[k] /\ k \in 1 .. n + 1 /\ k < n + 1
      /\ n + 1 \in 1 .. n + 1
  OBVIOUS
<1> HIDE DEF n, r
<1>2. ASSUME Ordered(r, R) PROVE Ordered(s, R) /\ \A y \in Range(s) : <<y, x>> \in R
  <2>1. Ordered(s, R)
    BY <1>1, <1>2 DEF Ordered, n
  <2>2. ASSUME NEW y \in Range(s) PROVE <<y, x>> \in R
    <3>1. PICK k \in 1 .. n : s[k] = y
      BY <1>1 DEF Range
    <3>2. <<r[k], r[n + 1]>> \in R
      BY <1>1, <1>2 DEF Ordered
    <3> QED  BY <3>1, <3>2, <1>1
  <2> QED  BY <2>1, <2>2
<1>3. ASSUME Ordered(s, R), \A y \in Range(s) : <<y, x>> \in R PROVE Ordered(r, R)
  <2> SUFFICES ASSUME NEW k \in 1 .. n + 1, NEW m \in 1 .. n + 1, k < m
               PROVE  <<r[k], r[m]>> \in R
    BY <1>1 DEF Ordered
  <2>1. k \in 1 .. n
    BY <1>1
  <2>2. CASE m \in 1 .. n
    BY <2>1, <2>2, <1>1, <1>3 DEF Ordered, n
  <2>3. CASE m = n + 1
    <3>1. s[k] \in Range(s)
      BY <2>1, <1>1 DEF Range
    <3>2. r[k] = s[k] /\ r[m] = x
      BY <2>1, <2>3, <1>1
    <3> QED  BY <3>1, <3>2, <1>3
  <2> QED  BY <2>2, <2>3, <1>1
<1> QED  BY <1>2, <1>3 DEF r

(* A term more. *)
LEMMA RangeGrows ==
    ASSUME NEW A, NEW s \in Seq(A), NEW x \in A
    PROVE  Range(Append(s, x)) = Range(s) \cup {x} /\ Range(<<>>) = {} /\ Range(s) \subseteq A
<1> DEFINE n == Len(s)
           r == Append(s, x)
<1>1. /\ n \in Nat /\ DOMAIN s = 1 .. n /\ DOMAIN r = 1 .. n + 1 /\ r[n + 1] = x
      /\ \A k \in 1 .. n : r[k] = s[k] /\ k \in 1 .. n + 1 /\ s[k] \in A
      /\ n + 1 \in 1 .. n + 1
  OBVIOUS
<1> HIDE DEF n, r
<1>2. ASSUME NEW y \in Range(r) PROVE y \in Range(s) \cup {x}
  <2>1. PICK k \in 1 .. n + 1 : y = r[k]
    BY <1>1 DEF Range
  <2>2. k \in 1 .. n \/ k = n + 1
    BY <1>1
  <2> QED  BY <2>1, <2>2, <1>1 DEF Range
<1>3. ASSUME NEW y \in Range(s) \cup {x} PROVE y \in Range(r)
  BY <1>1 DEF Range
<1>4. Range(<<>>) = {} /\ Range(s) \subseteq A
  BY <1>1 DEF Range
<1> QED  BY <1>2, <1>3, <1>4 DEF r

(* Of the terms in order, those in V are in order.                         *)
Kept(s, V, R) ==
    /\ Range(Those(s, V)) = Range(s) \cap V
    /\ Ordered(s, R) => Ordered(Those(s, V), R)

(* This is so of every sequence, V and R. *)
LEMMA ThoseInOrder ==
    ASSUME NEW A, NEW s \in Seq(A), NEW V, NEW R
    PROVE  Kept(s, V, R)
<1> DEFINE T == {t \in Seq(A) : Kept(t, V, R)}
<1>0. Those(<<>>, V) = <<>> /\ \A t \in Seq(A) : Those(t, V) \in Seq(A)
  BY ThoseGrows
<1>1. <<>> \in T
  BY <1>0 DEF Kept, Range, Ordered
<1>2. ASSUME NEW t \in Seq(A), NEW x \in A, t \in T PROVE Append(t, x) \in T
  <2> DEFINE r == Append(t, x)
             u == Those(t, V)
  <2>1. Those(r, V) = Keep(u, x, V) /\ u \in Seq(A) /\ r \in Seq(A)
    BY ThoseGrows, Appended
  <2>2. Range(r) = Range(t) \cup {x}
    BY RangeGrows
  <2>3. Ordered(r, R) => Ordered(t, R) /\ \A y \in Range(t) : <<y, x>> \in R
    BY OrderedGrows
  <2>4. Range(u) = Range(t) \cap V /\ (Ordered(t, R) => Ordered(u, R))
    BY <1>2 DEF Kept
  <2> HIDE DEF r, u
  <2>5. CASE x \in V
    <3>1. Those(r, V) = Append(u, x)
      BY <2>1, <2>5 DEF Keep
    <3>2. Range(Append(u, x)) = Range(u) \cup {x}
      BY <2>1, RangeGrows
    <3>3. Ordered(Append(u, x), R) <=> Ordered(u, R) /\ \A y \in Range(u) : <<y, x>> \in R
      BY <2>1, OrderedGrows
    <3>4. Kept(r, V, R)
      BY <3>1, <3>2, <3>3, <2>2, <2>3, <2>4, <2>5 DEF Kept
    <3> QED  BY <3>4, <2>1 DEF r
  <2>6. CASE x \notin V
    <3>1. Those(r, V) = u
      BY <2>1, <2>6 DEF Keep
    <3>2. Kept(r, V, R)
      BY <3>1, <2>2, <2>3, <2>4, <2>6 DEF Kept
    <3> QED  BY <3>2, <2>1 DEF r
  <2> QED  BY <2>5, <2>6
<1> HIDE DEF T
<1>3. \A t \in Seq(A) : t \in T
  BY <1>1, <1>2, Growing
<1> QED  BY <1>3 DEF T

(* Of those in V, those in W.                                              *)
Sifted(s, V, W) == Those(Those(s, V), W) = Those(s, V \cap W)

(* Taking twice is taking what is in both sets. *)
LEMMA ThoseOfThose ==
    ASSUME NEW A, NEW s \in Seq(A), NEW V, NEW W
    PROVE  Sifted(s, V, W)
<1> DEFINE T == {t \in Seq(A) : Sifted(t, V, W)}
<1>0. /\ Those(<<>>, V) = <<>> /\ Those(<<>>, W) = <<>> /\ Those(<<>>, V \cap W) = <<>>
      /\ \A t \in Seq(A) : Those(t, V) \in Seq(A)
  BY ThoseGrows
<1>1. <<>> \in T
  BY <1>0 DEF Sifted
<1>2. ASSUME NEW t \in Seq(A), NEW x \in A, t \in T PROVE Append(t, x) \in T
  <2> DEFINE r == Append(t, x)
             u == Those(t, V)
  <2>1. /\ r \in Seq(A) /\ u \in Seq(A) /\ Those(r, V) = Keep(u, x, V)
        /\ Those(r, V \cap W) = Keep(Those(t, V \cap W), x, V \cap W)
        /\ Those(Append(u, x), W) = Keep(Those(u, W), x, W)
    BY <1>0, ThoseGrows, Appended
  <2>2. Those(u, W) = Those(t, V \cap W)
    BY <1>2 DEF Sifted
  <2> HIDE DEF r, u
  <2>3. Those(Those(r, V), W) = Those(r, V \cap W)
    <3>1. CASE x \in V
      <4>1. Keep(u, x, V) = Append(u, x)
        BY <3>1 DEF Keep
      <4>2. Keep(Those(u, W), x, W) = Keep(Those(t, V \cap W), x, V \cap W)
        BY <3>1, <2>2 DEF Keep
      <4> QED  BY <2>1, <4>1, <4>2
    <3>2. CASE x \notin V
      <4>1. Keep(u, x, V) = u
        BY <3>2 DEF Keep
      <4>2. Keep(Those(t, V \cap W), x, V \cap W) = Those(t, V \cap W)
        BY <3>2 DEF Keep
      <4> QED  BY <2>1, <2>2, <4>1, <4>2
    <3> QED  BY <3>1, <3>2
  <2> QED  BY <2>1, <2>3 DEF Sifted, r
<1> HIDE DEF T
<1>3. \A t \in Seq(A) : t \in T
  BY <1>1, <1>2, Growing
<1> QED  BY <1>3 DEF T

(* If none of a sequence's terms is in V, none is kept.                    *)
LEMMA ThoseNone ==
    ASSUME NEW A, NEW s \in Seq(A), NEW V, Range(s) \cap V = {}
    PROVE  Those(s, V) = <<>>
<1>1. Kept(s, V, A)
  BY ThoseInOrder
<1>2. Range(Those(s, V)) = {}
  BY <1>1 DEF Kept
<1>3. Those(s, V) \in Seq(A)
  BY ThoseGrows
<1> DEFINE u == Those(s, V)
<1> HIDE DEF u
<1>4. ASSUME NEW t \in Seq(A), Range(t) = {} PROVE t = <<>>
  <2> SUFFICES ASSUME t # <<>> PROVE FALSE
    OBVIOUS
  <2>1. 1 \in DOMAIN t
    BY <1>4
  <2> QED  BY <2>1, <1>4 DEF Range
<1> QED  BY <1>2, <1>3, <1>4
=============================================================================
