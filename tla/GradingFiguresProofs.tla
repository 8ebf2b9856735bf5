------------------------ MODULE GradingFiguresProofs ------------------------
(***************************************************************************)
(* Proofs about the figures that are graded: the evidence that is drawn    *)
(* from an exam's transcript, the bands of its two scoring passes, and the *)
(* report on a corpus of exams that people have rated.                     *)
(***************************************************************************)
EXTENDS TranscriptEvidence, CalibrationReport, FoldLemmas
----------------------------------------------------------------------------
(* Totals *)

(* The total takes one term after the other. *)
LEMMA TotalUnrolled ==
    ASSUME NEW s \in Seq(Int)
    PROVE  \E g \in [0 .. Len(s) -> Int] :
             /\ g[0] = 0 /\ g[Len(s)] = Total(s)
             /\ \A k \in 1 .. Len(s) : g[k] = g[k - 1] + s[k]
<1> DEFINE D == 1 .. Len(s)
           Eq(F) == F = [t \in SUBSET D |-> IF t = {} THEN 0 ELSE F[t \ {Max(t)}] + s[Max(t)]]
           F == CHOOSE f : Eq(f)
<1>1. Len(s) \in Nat /\ DOMAIN s = D /\ IsFiniteSet(D)
  BY FS_Interval
<1>2. \A t \in SUBSET D : t # {} => Max(t) \in t
  BY <1>1, MaxIn
<1>3. Total(s) = F[D]
  BY <1>1 DEF Total, FoldLeft, MapThenFoldSet
<1>4. \E f : Eq(f)
  <2> DEFINE pick == [t \in SUBSET D |-> Max(t)]
             op == [p \in D \X Int |-> p[2] + s[p[1]]]
  <2>1. Folds(op, 0, D, Int) /\ Picks(pick, D)
    BY <1>2 DEF Folds, Picks
  <2>2. PICK g : IsFold(g, D, Int, 0, op, pick)
    <3> HIDE DEF pick, op, D
    <3> QED  BY <1>1, <2>1, FoldDefined
  <2>3. ASSUME NEW t \in SUBSET D, t # {}
        PROVE  op[<<pick[t], g[t \ {pick[t]}]>>] = g[t \ {Max(t)}] + s[Max(t)]
    <3>1. Max(t) \in D /\ t \ {Max(t)} \in SUBSET D
      BY <1>2, <2>3
    <3> QED  BY <3>1, <2>2 DEF IsFold
  <2>4. \A t \in SUBSET D : g[t] = IF t = {} THEN 0 ELSE g[t \ {Max(t)}] + s[Max(t)]
    BY <2>2, <2>3 DEF IsFold
  <2>5. Eq(g)
    BY <2>2, <2>4 DEF IsFold
  <2> QED  BY <2>5
<1>5. Eq(F)
  <2> HIDE DEF Eq
  <2> QED  BY <1>4
<1>6. F[{}] = 0 /\ \A k \in D : F[1 .. k] = F[1 .. k - 1] + s[k]
  <2>1. ASSUME NEW k \in D PROVE F[1 .. k] = F[1 .. k - 1] + s[k]
    <3>1. (1 .. k) \in SUBSET D /\ (1 .. k) # {} /\ Max(1 .. k) = k /\ (1 .. k) \ {k} = 1 .. k - 1
      BY <1>1, MaxTo, k \in Nat, k # 0, SMTT(40)
    <3> HIDE DEF F
    <3> QED  BY <1>5, <3>1
  <2> HIDE DEF F
  <2> QED  BY <1>5, <2>1
<1> DEFINE g == [k \in 0 .. Len(s) |-> F[1 .. k]]
<1>7. \A k \in 0 .. Len(s) : F[1 .. k] \in Int
  <2> HIDE DEF F
  <2>1. \A k \in D : F[1 .. k - 1] \in Int => F[1 .. k] \in Int
    BY <1>6, <1>1
  <2>2. F[{}] \in Int
    BY <1>6
  <2> QED  BY ONLY <2>1, <2>2, <1>1, Running
<1>8. g[0] = 0 /\ g[Len(s)] = Total(s) /\ \A k \in 1 .. Len(s) : g[k] = g[k - 1] + s[k]
  <2> HIDE DEF F
  <2> QED  BY <1>1, <1>3, <1>6
<1> HIDE DEF F, g
<1> QED  BY <1>7, <1>8 DEF g

(* The sum of the first terms is what the sum of all passes through.       *)
LEMMA TotalPrefix ==
    ASSUME NEW s \in Seq(Int), NEW g \in [0 .. Len(s) -> Int], g[0] = 0,
           \A k \in 1 .. Len(s) : g[k] = g[k - 1] + s[k],
           NEW i \in 0 .. Len(s), NEW t, t = [k \in 1 .. i |-> s[k]]
    PROVE  Total(t) = g[i]
<1>1. t \in Seq(Int) /\ Len(t) = i
  <2>1. i \in Nat /\ \A k \in 1 .. i : s[k] \in Int
    OBVIOUS
  <2>2. t \in [1 .. i -> Int]
    BY <2>1
  <2> QED  BY <2>1, <2>2
<1>2. PICK h \in [0 .. i -> Int] :
         h[0] = 0 /\ h[i] = Total(t) /\ \A k \in 1 .. i : h[k] = h[k - 1] + t[k]
  <2>1. \E h \in [0 .. Len(t) -> Int] :
          h[0] = 0 /\ h[Len(t)] = Total(t) /\ \A k \in 1 .. Len(t) : h[k] = h[k - 1] + t[k]
    BY ONLY <1>1, TotalUnrolled
  <2>2. Len(t) = i
    BY ONLY <1>1
  <2> QED  BY ONLY <2>1, <2>2
<1> DEFINE T == {k \in 0 .. i : h[k] = g[k]}
<1>3. 0 \in T
  BY <1>2
<1>4. ASSUME NEW k \in 0 .. i - 1, k \in T PROVE k + 1 \in T
  <2>1. k + 1 \in 1 .. i /\ k + 1 \in 1 .. Len(s) /\ (k + 1) - 1 = k
    OBVIOUS
  <2>2. h[k + 1] = h[k] + t[k + 1] /\ g[k + 1] = g[k] + s[k + 1]
    BY <2>1, <1>2
  <2> QED  BY <2>1, <2>2, <1>4, SMTT(40)
<1> HIDE DEF T
<1>5. \A k \in 0 .. i : k \in T
  BY i \in Nat, <1>3, <1>4, CountingTo
<1>6. i \in T
  BY <1>5
<1> QED  BY <1>6, <1>2 DEF T

(* A term more.                                                            *)
LEMMA TotalGrows ==
    ASSUME NEW s \in Seq(Int), NEW x \in Int
    PROVE  Total(Append(s, x)) = Total(s) + x /\ Total(s) \in Int /\ Total(<<>>) = 0
<1> DEFINE n == Len(s)
           r == Append(s, x)
<1>1. /\ n \in Nat /\ r \in Seq(Int) /\ Len(r) = n + 1 /\ r[n + 1] = x
      /\ \A k \in 1 .. n : r[k] = s[k]
  BY Appended
<1> HIDE DEF n, r
<1>2. PICK g \in [0 .. n + 1 -> Int] :
         g[0] = 0 /\ g[n + 1] = Total(r) /\ \A k \in 1 .. n + 1 : g[k] = g[k - 1] + r[k]
  <2>1. \E g \in [0 .. Len(r) -> Int] :
          g[0] = 0 /\ g[Len(r)] = Total(r) /\ \A k \in 1 .. Len(r) : g[k] = g[k - 1] + r[k]
    BY ONLY <1>1, TotalUnrolled
  <2> QED  BY <2>1, <1>1
<1>3. Total(s) = g[n]
  <2>1. s = [k \in 1 .. n |-> s[k]]
    BY DEF n
  <2>2. s = [k \in 1 .. n |-> r[k]]
    BY <2>1, <1>1
  <2>3. n \in 0 .. Len(r) /\ g \in [0 .. Len(r) -> Int] /\ \A k \in 1 .. Len(r) : g[k] = g[k - 1] + r[k]
    BY <1>1, <1>2
  <2>4. r \in Seq(Int) /\ g[0] = 0
    BY <1>1, <1>2
  <2> QED  BY ONLY <2>2, <2>3, <2>4, TotalPrefix, ZenonT(60)
<1>4. n + 1 \in 1 .. n + 1 /\ (n + 1) - 1 = n /\ n \in 0 .. n + 1
  BY <1>1
<1>5. g[n + 1] = g[n] + x /\ g[n] \in Int
  BY <1>1, <1>2, <1>4
<1>6. Total(<<>>) = 0
  <2>1. <<>> \in Seq(Int) /\ Len(<<>>) = 0
    OBVIOUS
  <2>2. \E h \in [0 .. Len(<<>>) -> Int] : h[0] = 0 /\ h[Len(<<>>)] = Total(<<>>)
    BY ONLY <2>1, TotalUnrolled
  <2> QED  BY <2>1, <2>2
<1> QED  BY <1>2, <1>3, <1>5, <1>6 DEF r

(* Three terms. *)
LEMMA TotalOfThree ==
    ASSUME NEW x \in Int, NEW y \in Int, NEW z \in Int
    PROVE  Total(<<x, y, z>>) = x + y + z
<1>1. /\ <<>> \in Seq(Int) /\ <<x>> \in Seq(Int) /\ <<x, y>> \in Seq(Int)
      /\ <<x>> = Append(<<>>, x) /\ <<x, y>> = Append(<<x>>, y)
      /\ <<x, y, z>> = Append(<<x, y>>, z)
  OBVIOUS
<1>2. Total(<<x>>) = 0 + x
  BY <1>1, TotalGrows
<1>3. Total(<<x, y>>) = Total(<<x>>) + y
  BY <1>1, TotalGrows
<1>4. Total(<<x, y, z>>) = Total(<<x, y>>) + z
  BY <1>1, TotalGrows
<1> QED  BY <1>2, <1>3, <1>4

----------------------------------------------------------------------------
(* T-units *)

Token == [dep : {"ROOT", "conj", "advcl"}, head : Nat, subject : BOOLEAN]
Roots == {t \in DOMAIN doc : doc[t].dep = "ROOT"}

(* What looking at token t makes of the heads found so far. *)
Look(found, t) ==
    IF ConjWithSubject(t) /\ doc[t].head \in found THEN found \cup {t} ELSE found

(* Going through the document once, as t_unit_heads does. *)
Through(heads) ==
    FoldLeft(LAMBDA found, t : IF ConjWithSubject(t) /\ doc[t].head \in found
                               THEN found \cup {t} ELSE found,
             heads, [t \in DOMAIN doc |-> t])

(* A pass looks at one token after the other. *)
LEMMA PassUnrolled ==
    ASSUME NEW n \in Nat, DOMAIN doc = 1 .. n, NEW heads \in SUBSET (1 .. n)
    PROVE  \E g \in [0 .. n -> SUBSET (1 .. n)] :
             /\ g[0] = heads /\ g[n] = Through(heads)
             /\ \A k \in 1 .. n : g[k] = Look(g[k - 1], k)
<1> DEFINE D == 1 .. n
           A == SUBSET D
           Eq(F) == F = [t \in SUBSET D |->
                           IF t = {} THEN heads
                           ELSE IF ConjWithSubject(Max(t)) /\ doc[Max(t)].head \in F[t \ {Max(t)}]
                                THEN F[t \ {Max(t)}] \cup {Max(t)} ELSE F[t \ {Max(t)}]]
           F == CHOOSE f : Eq(f)
<1>1. IsFiniteSet(D)
  BY FS_Interval
<1>2. \A t \in SUBSET D : t # {} => Max(t) \in t
  BY MaxIn
<1>3. Through(heads) = F[D]
  <2> DEFINE id == [t \in D |-> t]
             Id(F0) == F0 = [t \in SUBSET D |->
                           IF t = {} THEN heads
                           ELSE IF ConjWithSubject(id[Max(t)]) /\ doc[id[Max(t)]].head \in F0[t \ {Max(t)}]
                                THEN F0[t \ {Max(t)}] \cup {id[Max(t)]} ELSE F0[t \ {Max(t)}]]
             F1 == CHOOSE f : Id(f)
  <2>1. Through(heads) = F1[D]
    BY DEF Through, FoldLeft, MapThenFoldSet
  <2>2. ASSUME NEW F0 PROVE Id(F0) <=> Eq(F0)
    <3>1. \A t \in SUBSET D : t # {} => id[Max(t)] = Max(t)
      BY <1>2
    <3> HIDE DEF id, D
    <3> QED  BY <3>1
  <2>3. F1 = F
    <3> HIDE DEF Id, Eq
    <3> QED  BY <2>2
  <2> QED  BY <2>1, <2>3
<1>4. \E f : Eq(f)
  <2> DEFINE pick == [t \in SUBSET D |-> Max(t)]
             op == [p \in D \X A |-> Look(p[2], p[1])]
  <2>1. Folds(op, heads, D, A) /\ Picks(pick, D)
    BY <1>2 DEF Folds, Picks, Look
  <2>2. PICK g : IsFold(g, D, A, heads, op, pick)
    <3> HIDE DEF pick, op, D
    <3> QED  BY <1>1, <2>1, FoldDefined
  <2>3. ASSUME NEW t \in SUBSET D, t # {}
        PROVE  op[<<pick[t], g[t \ {pick[t]}]>>] = Look(g[t \ {Max(t)}], Max(t))
    <3>1. Max(t) \in D /\ t \ {Max(t)} \in SUBSET D
      BY <1>2, <2>3
    <3> QED  BY <3>1, <2>2 DEF IsFold
  <2>4. \A t \in SUBSET D : g[t] = IF t = {} THEN heads ELSE Look(g[t \ {Max(t)}], Max(t))
    BY <2>2, <2>3 DEF IsFold
  <2>5. Eq(g)
    BY <2>2, <2>4 DEF IsFold, Look
  <2> QED  BY <2>5
<1>5. Eq(F)
  <2> HIDE DEF Eq
  <2> QED  BY <1>4
<1>6. F[{}] = heads /\ \A k \in D : F[1 .. k] = Look(F[1 .. k - 1], k)
  <2>1. ASSUME NEW k \in D PROVE F[1 .. k] = Look(F[1 .. k - 1], k)
    <3>1. (1 .. k) \in SUBSET D /\ (1 .. k) # {} /\ Max(1 .. k) = k /\ (1 .. k) \ {k} = 1 .. k - 1
      BY MaxTo, k \in Nat, k # 0
    <3> HIDE DEF F
    <3> QED  BY <1>5, <3>1, ZenonT(60) DEF Look
  <2> HIDE DEF F
  <2> QED  BY <1>5, <2>1
<1> DEFINE g == [k \in 0 .. n |-> F[1 .. k]]
<1>7. \A k \in 0 .. n : F[1 .. k] \in A
  <2> HIDE DEF F
  <2>1. \A k \in D : F[1 .. k - 1] \in A => F[1 .. k] \in A
    BY <1>6 DEF Look
  <2>2. F[{}] \in A
    BY <1>6
  <2> QED  BY ONLY <2>1, <2>2, n \in Nat, Running
<1>8. g[0] = heads /\ g[n] = Through(heads) /\ \A k \in 1 .. n : g[k] = Look(g[k - 1], k)
  <2> HIDE DEF F
  <2> QED  BY <1>3, <1>6
<1> HIDE DEF F, g
<1> QED  BY <1>7, <1>8 DEF g

(* A chain of coordinations within some tokens leads from t to a root. *)
Leads(c, n, t, within) ==
    /\ c \in [1 .. n -> within] /\ c[1] = t /\ doc[c[n]].dep = "ROOT"
    /\ \A i \in 1 .. n - 1 : ConjWithSubject(c[i]) /\ doc[c[i]].head = c[i + 1]

(* All of the tokens found have one, no longer than they are many. *)
Chained(found) ==
    \A t \in found : \E n \in 1 .. Cardinality(found) : \E c : Leads(c, n, t, found)

(* Looking at a token keeps it so. *)
LEMMA LookChained ==
    ASSUME NEW n \in Nat, DOMAIN doc = 1 .. n, NEW found \in SUBSET (1 .. n), Chained(found),
           NEW t \in 1 .. n
    PROVE  Chained(Look(found, t))
<1>1. IsFiniteSet(found) /\ Cardinality(found) \in Nat
  <2>1. IsFiniteSet(1 .. n)
    BY FS_Interval
  <2> QED  BY <2>1, FS_Subset, FS_CardinalityType
<1>2. CASE t \in found \/ ~(ConjWithSubject(t) /\ doc[t].head \in found)
  <2>1. Look(found, t) = found
    BY <1>2 DEF Look
  <2> QED  BY <2>1
<1>3. CASE t \notin found /\ ConjWithSubject(t) /\ doc[t].head \in found
  <2> DEFINE more == found \cup {t}
  <2>1. Look(found, t) = more
    BY <1>3 DEF Look
  <2>2. Cardinality(more) = Cardinality(found) + 1
    BY <1>1, <1>3, FS_AddElement
  <2>3. ASSUME NEW u \in found
        PROVE  \E m \in 1 .. Cardinality(more) : \E c : Leads(c, m, u, more)
    <3>0. PICK m \in 1 .. Cardinality(found) : \E c : Leads(c, m, u, found)
      BY DEF Chained
    <3>1. PICK c : Leads(c, m, u, found)
      BY <3>0
    <3>2. c \in [1 .. m -> more]
      BY <3>1 DEF Leads
    <3>3. Leads(c, m, u, more)
      BY <3>1, <3>2 DEF Leads
    <3>4. m \in 1 .. Cardinality(more)
      BY <1>1, <2>2
    <3> QED  BY <3>3, <3>4
  <2>4. \E m \in 1 .. Cardinality(more) : \E c : Leads(c, m, t, more)
    <3>0. PICK m \in 1 .. Cardinality(found) : \E c : Leads(c, m, doc[t].head, found)
      BY <1>3 DEF Chained
    <3>1. PICK c : Leads(c, m, doc[t].head, found)
      BY <3>0
    <3> DEFINE d == [i \in 1 .. m + 1 |-> IF i = 1 THEN t ELSE c[i - 1]]
    <3>2. /\ d \in [1 .. m + 1 -> more] /\ d[1] = t /\ d[m + 1] = c[m]
          /\ \A i \in 2 .. m + 1 : d[i] = c[i - 1]
      BY <3>1 DEF Leads
    <3>3. ASSUME NEW i \in 1 .. (m + 1) - 1
          PROVE  ConjWithSubject(d[i]) /\ doc[d[i]].head = d[i + 1]
      <4>1. d[i + 1] = c[i]
        BY <3>2
      <4>2. CASE i = 1
        BY <4>1, <4>2, <3>1, <3>2, <1>3 DEF Leads
      <4>3. CASE i # 1
        <5>1. i - 1 \in 1 .. m - 1 /\ d[i] = c[i - 1] /\ (i - 1) + 1 = i
          BY <4>3, <3>2
        <5>2. ConjWithSubject(c[i - 1]) /\ doc[c[i - 1]].head = c[(i - 1) + 1]
          BY <5>1, <3>1 DEF Leads
        <5> QED  BY <5>1, <5>2, <4>1
      <4> QED  BY <4>2, <4>3
    <3> HIDE DEF d
    <3>4. Leads(d, m + 1, t, more)
      BY <3>1, <3>2, <3>3 DEF Leads
    <3>5. m + 1 \in 1 .. Cardinality(more)
      BY <1>1, <2>2
    <3> QED  BY <3>4, <3>5
  <2> HIDE DEF more
  <2>5. \A u \in more : u \in found \/ u = t
    BY DEF more
  <2>6. Chained(more)
    BY <2>3, <2>4, <2>5 DEF Chained
  <2> QED  BY <2>1, <2>6
<1> QED  BY <1>2, <1>3

(* A pass keeps it so, forgets nothing, and finds what is coordinated with *)
(* something that was found before it.                                     *)
LEMMA PassDoes ==
    ASSUME NEW n \in Nat, DOMAIN doc = 1 .. n, NEW heads \in SUBSET (1 .. n)
    PROVE  /\ Through(heads) \in SUBSET (1 .. n) /\ heads \subseteq Through(heads)
           /\ Chained(heads) => Chained(Through(heads))
           /\ \A t \in 1 .. n : ConjWithSubject(t) /\ doc[t].head \in heads => t \in Through(heads)
<1>1. PICK g \in [0 .. n -> SUBSET (1 .. n)] :
         /\ g[0] = heads /\ g[n] = Through(heads)
         /\ \A k \in 1 .. n : g[k] = Look(g[k - 1], k)
  BY PassUnrolled
<1>2. \A k \in 0 .. n : heads \subseteq g[k]
  <2> DEFINE T == {k \in 0 .. n : heads \subseteq g[k]}
  <2>1. 0 \in T
    BY <1>1
  <2>2. ASSUME NEW k \in 0 .. n - 1, k \in T PROVE k + 1 \in T
    <3>1. k + 1 \in 1 .. n /\ (k + 1) - 1 = k /\ heads \subseteq g[k]
      BY <2>2
    <3>2. g[k + 1] = Look(g[k], k + 1)
      BY <3>1, <1>1
    <3> QED  BY <3>1, <3>2 DEF Look
  <2> HIDE DEF T
  <2>3. \A k \in 0 .. n : k \in T
    BY <2>1, <2>2, CountingTo
  <2> QED  BY <2>3 DEF T
<1>3. ASSUME Chained(heads) PROVE Chained(Through(heads))
  <2> DEFINE T == {k \in 0 .. n : Chained(g[k])}
  <2>1. 0 \in T
    BY <1>1, <1>3
  <2>2. ASSUME NEW k \in 0 .. n - 1, k \in T PROVE k + 1 \in T
    <3>1. k + 1 \in 1 .. n /\ (k + 1) - 1 = k /\ Chained(g[k]) /\ g[k] \in SUBSET (1 .. n)
      BY <2>2, <1>1
    <3>2. g[k + 1] = Look(g[k], k + 1)
      BY <3>1, <1>1
    <3> QED  BY <3>1, <3>2, LookChained
  <2> HIDE DEF T
  <2>3. \A k \in 0 .. n : k \in T
    BY <2>1, <2>2, CountingTo
  <2>4. n \in 0 .. n
    OBVIOUS
  <2> QED  BY <2>3, <2>4, <1>1 DEF T
<1>4. ASSUME NEW t \in 1 .. n, ConjWithSubject(t), doc[t].head \in heads
      PROVE  t \in Through(heads)
  <2> DEFINE T == {k \in 0 .. n : t <= k => t \in g[k]}
  <2>1. 0 \in T
    OBVIOUS
  <2>2. ASSUME NEW k \in 0 .. n - 1, k \in T PROVE k + 1 \in T
    <3>1. k + 1 \in 1 .. n /\ (k + 1) - 1 = k /\ (t <= k => t \in g[k])
      BY <2>2
    <3>2. g[k + 1] = Look(g[k], k + 1)
      BY <3>1, <1>1
    <3>3. CASE t = k + 1
      <4>0. k \in 0 .. n
        OBVIOUS
      <4>1. doc[t].head \in g[k]
        BY <4>0, <1>2, <1>4
      <4> QED  BY <4>1, <3>1, <3>2, <3>3, <1>4 DEF Look
    <3>4. CASE t # k + 1
      BY <3>1, <3>2, <3>4 DEF Look
    <3> QED  BY <3>3, <3>4
  <2> HIDE DEF T
  <2>3. \A k \in 0 .. n : k \in T
    BY <2>1, <2>2, CountingTo
  <2>4. n \in 0 .. n
    OBVIOUS
  <2> QED  BY <2>3, <2>4, <1>1 DEF T
<1> QED  BY <1>1, <1>2, <1>3, <1>4

(* The passes that t_unit_heads makes, one for each token. *)
LEMMA HeadsUnrolled ==
    ASSUME NEW n \in Nat, n = Len(doc), DOMAIN doc = 1 .. n
    PROVE  \E f \in [0 .. n -> SUBSET (1 .. n)] :
             /\ f[0] = Roots /\ f[n] = t_unit_heads
             /\ \A k \in 1 .. n : f[k] = Through(f[k - 1])
<1> DEFINE A == SUBSET (1 .. n)
           Eq(F) == F = [k \in 0 .. n |-> IF k = 0 THEN Roots ELSE Through(F[k - 1])]
           F == CHOOSE f : Eq(f)
<1>1. t_unit_heads = F[n]
  BY DEF t_unit_heads, Through, Roots
<1>2. \E f : Eq(f)
  <2> DEFINE op == [p \in (1 .. n) \X A |-> Through(p[2])]
  <2>1. Folds(op, Roots, 1 .. n, A)
    <3>1. \A heads \in A : Through(heads) \in A
      BY PassDoes
    <3>2. Roots \in A
      BY DEF Roots
    <3> QED  BY <3>1, <3>2 DEF Folds
  <2>2. PICK g : IsRun(g, n, A, Roots, op)
    <3> HIDE DEF op, A
    <3> QED  BY <2>1, RunDefined
  <2>3. ASSUME NEW k \in 1 .. n PROVE k - 1 \in 0 .. n /\ g[k - 1] \in A /\ g[k] = Through(g[k - 1])
    <3>1. k - 1 \in 0 .. n
      OBVIOUS
    <3>2. g[k - 1] \in A /\ g[k] = op[<<k, g[k - 1]>>]
      <4> HIDE DEF op, A
      <4> QED  BY <3>1, <2>2 DEF IsRun
    <3>3. <<k, g[k - 1]>> \in (1 .. n) \X A
      BY <3>2
    <3>4. op[<<k, g[k - 1]>>] = Through(g[k - 1])
      BY <3>3
    <3> QED  BY <3>1, <3>2, <3>4
  <2>4. Eq(g)
    BY <2>2, <2>3 DEF IsRun
  <2> QED  BY <2>4
<1>3. Eq(F)
  <2> HIDE DEF Eq
  <2> QED  BY <1>2
<1> HIDE DEF F
<1>4. F[0] = Roots /\ \A k \in 1 .. n : F[k] = Through(F[k - 1])
  BY <1>3
<1>5. \A k \in 0 .. n : F[k] \in A
  <2> DEFINE T == {k \in 0 .. n : F[k] \in A}
  <2>1. 0 \in T
    BY <1>4 DEF Roots
  <2>2. ASSUME NEW k \in 0 .. n - 1, k \in T PROVE k + 1 \in T
    <3>1. k + 1 \in 1 .. n /\ (k + 1) - 1 = k /\ F[k] \in A
      BY <2>2
    <3>2. F[k + 1] = Through(F[k])
      BY <3>1, <1>4
    <3>3. F[k + 1] \in A
      BY <3>1, <3>2, PassDoes
    <3> QED  BY <3>1, <3>3
  <2> HIDE DEF T
  <2>3. \A k \in 0 .. n : k \in T
    BY <2>1, <2>2, CountingTo
  <2> QED  BY <2>3 DEF T
<1>6. F \in [0 .. n -> A]
  BY <1>3, <1>5
<1> QED  BY <1>1, <1>4, <1>6

(* A chain in the terms of the property. *)
LEMMA LeadsToRootChain ==
    ASSUME NEW n \in Nat, DOMAIN doc = 1 .. n, NEW t
    PROVE  LeadsToRoot(t) <=> \E m \in 1 .. n : \E c : Leads(c, m, t, 1 .. n)
<1>1. ASSUME NEW m \in 1 .. n, NEW c \in [1 .. m -> 1 .. n]
      PROVE  Len(c) = m /\ Last(c) = c[m]
  <2>1. c \in Seq(1 .. n)
    OBVIOUS
  <2>2. Len(c) = m
    BY <2>1
  <2> QED  BY <2>2 DEF Last
<1>2. ASSUME NEW m \in 1 .. n, NEW c, Leads(c, m, t, 1 .. n)
      PROVE  LeadsToRoot(t)
  <2>1. c \in [1 .. m -> 1 .. n]
    BY <1>2 DEF Leads
  <2>2. c \in UNION {[1 .. k -> DOMAIN doc] : k \in DOMAIN doc}
    BY <2>1
  <2>3. Len(c) = m /\ Last(c) = c[m]
    BY <2>1, <1>1
  <2> QED  BY <1>2, <2>2, <2>3 DEF LeadsToRoot, Leads
<1>3. ASSUME LeadsToRoot(t)
      PROVE  \E m \in 1 .. n : \E c : Leads(c, m, t, 1 .. n)
  <2>1. PICK c \in UNION {[1 .. k -> DOMAIN doc] : k \in DOMAIN doc} :
          /\ c[1] = t /\ doc[Last(c)].dep = "ROOT"
          /\ \A i \in 1 .. Len(c) - 1 :
                ConjWithSubject(c[i]) /\ doc[c[i]].head = c[i + 1]
    BY <1>3 DEF LeadsToRoot
  <2>2. PICK m \in 1 .. n : c \in [1 .. m -> 1 .. n]
    OBVIOUS
  <2>3. Len(c) = m /\ Last(c) = c[m]
    BY <2>2, <1>1
  <2>4. Leads(c, m, t, 1 .. n)
    BY <2>1, <2>2, <2>3 DEF Leads
  <2> QED  BY <2>4
<1> QED  BY <1>2, <1>3

(* What leads to a root in m + 1 tokens is found in m passes. *)
LEMMA ChainFound ==
    ASSUME NEW n \in Nat, DOMAIN doc = 1 .. n, NEW f \in [0 .. n -> SUBSET (1 .. n)],
           f[0] = Roots, \A k \in 1 .. n : f[k] = Through(f[k - 1])
    PROVE  \A k \in 0 .. n : \A m \in 1 .. k + 1 : \A c, t : Leads(c, m, t, 1 .. n) => t \in f[k]
<1> DEFINE P(k) == \A m \in 1 .. k + 1 : \A c, t : Leads(c, m, t, 1 .. n) => t \in f[k]
           T == {k \in 0 .. n : P(k)}
<1>1. 0 \in T
  <2> SUFFICES ASSUME NEW m \in 1 .. 0 + 1, NEW c, NEW t, Leads(c, m, t, 1 .. n)
               PROVE  t \in f[0]
    OBVIOUS
  <2>1. m = 1
    OBVIOUS
  <2> QED  BY <2>1 DEF Leads, Roots
<1>2. ASSUME NEW k \in 0 .. n - 1, k \in T PROVE k + 1 \in T
  <2>1. k + 1 \in 1 .. n /\ (k + 1) - 1 = k /\ k \in 0 .. n /\ f[k] \in SUBSET (1 .. n)
    OBVIOUS
  <2>2. f[k + 1] = Through(f[k])
    BY <2>1
  <2>3. f[k] \subseteq f[k + 1]
    BY <2>1, <2>2, PassDoes
  <2>4. P(k)
    BY <1>2
  <2> SUFFICES ASSUME NEW m \in 1 .. (k + 1) + 1, NEW c, NEW t, Leads(c, m, t, 1 .. n)
               PROVE  t \in f[k + 1]
    BY <2>1
  <2>5. CASE m <= k + 1
    <3>1. m \in 1 .. k + 1
      BY <2>5
    <3> HIDE DEF T
    <3> QED  BY <2>3, <2>4, <3>1
  <2>6. CASE m = k + 2
    <3> DEFINE d == [i \in 1 .. k + 1 |-> c[i + 1]]
    <3>1. c \in [1 .. k + 2 -> 1 .. n] /\ c[1] = t /\ doc[c[k + 2]].dep = "ROOT"
      BY <2>6 DEF Leads
    <3>2. /\ d \in [1 .. k + 1 -> 1 .. n] /\ d[1] = c[2] /\ d[k + 1] = c[k + 2]
          /\ \A i \in 1 .. k + 1 : d[i] = c[i + 1]
      BY <3>1, SMTT(40)
    <3>3. ASSUME NEW i \in 1 .. (k + 1) - 1
          PROVE  ConjWithSubject(d[i]) /\ doc[d[i]].head = d[i + 1]
      <4>1. i + 1 \in 1 .. m - 1 /\ d[i] = c[i + 1] /\ d[i + 1] = c[(i + 1) + 1]
        BY <2>6, <3>2
      <4> QED  BY <4>1 DEF Leads
    <3>4. Leads(d, k + 1, c[2], 1 .. n)
      <4> HIDE DEF d
      <4> QED  BY <3>1, <3>2, <3>3 DEF Leads
    <3>5. c[2] \in f[k]
      <4>1. k + 1 \in 1 .. k + 1
        OBVIOUS
      <4> HIDE DEF T, d
      <4> QED  BY <3>4, <2>4, <4>1
    <3>6. ConjWithSubject(t) /\ doc[t].head = c[2] /\ t \in 1 .. n
      <4>1. 1 \in 1 .. m - 1 /\ 1 + 1 = 2
        BY <2>6
      <4> QED  BY <4>1, <3>1 DEF Leads
    <3> QED  BY <2>1, <2>2, <3>5, <3>6, PassDoes, SMTT(40)
  <2>7. m \in Int /\ m <= k + 2
    OBVIOUS
  <2> QED  BY <2>5, <2>6, <2>7
<1> HIDE DEF T
<1>3. \A k \in 0 .. n : k \in T
  BY <1>1, <1>2, CountingTo
<1> QED  BY <1>3 DEF T

(* The heads that are found are those from which a chain leads to a root.  *)
LEMMA TUnits ==
    ASSUME doc \in Seq(Token)
    PROVE  TUnitsLeadToRoot
<1> DEFINE n == Len(doc)
<1>1. n \in Nat /\ DOMAIN doc = 1 .. n
  BY SMTT(40)
<1> HIDE DEF n
<1>2. PICK f \in [0 .. n -> SUBSET (1 .. n)] :
         /\ f[0] = Roots /\ f[n] = t_unit_heads
         /\ \A k \in 1 .. n : f[k] = Through(f[k - 1])
  BY <1>1, HeadsUnrolled DEF n
<1>3. ASSUME NEW t \in DOMAIN doc, LeadsToRoot(t) PROVE t \in t_unit_heads
  <2>1. PICK m \in 1 .. n : \E c : Leads(c, m, t, 1 .. n)
    BY <1>1, <1>3, LeadsToRootChain
  <2>2. n \in 0 .. n /\ m \in 1 .. n + 1
    BY <1>1
  <2>3. t \in f[n]
    BY <1>1, <1>2, <2>1, <2>2, ChainFound
  <2> QED  BY <1>2, <2>3
<1>4. \A k \in 0 .. n : Chained(f[k])
  <2> DEFINE T == {k \in 0 .. n : Chained(f[k])}
  <2>1. 0 \in T
    <3>1. ASSUME NEW t \in Roots PROVE \E m \in 1 .. Cardinality(Roots) : \E c : Leads(c, m, t, Roots)
      <4>1. IsFiniteSet(Roots) /\ Cardinality(Roots) \in Nat /\ Cardinality(Roots) # 0
        <5>1. IsFiniteSet(1 .. n)
          BY <1>1, FS_Interval
        <5>2. Roots \subseteq 1 .. n
          BY <1>1 DEF Roots
        <5>3. IsFiniteSet(Roots)
          BY <5>1, <5>2, FS_Subset
        <5> QED  BY <5>3, <3>1, FS_CardinalityType, FS_EmptySet
      <4> DEFINE c == [i \in 1 .. 1 |-> t]
      <4>2. Leads(c, 1, t, Roots)
        BY <3>1 DEF Leads, Roots
      <4>3. 1 \in 1 .. Cardinality(Roots)
        BY <4>1
      <4> QED  BY <4>2, <4>3
    <3>2. Chained(f[0])
      BY <3>1, <1>2 DEF Chained
    <3> QED  BY <3>2, <1>1
  <2>2. ASSUME NEW k \in 0 .. n - 1, k \in T PROVE k + 1 \in T
    <3>1. k + 1 \in 1 .. n /\ (k + 1) - 1 = k /\ f[k] \in SUBSET (1 .. n) /\ Chained(f[k])
      BY <2>2, <1>1
    <3>2. f[k + 1] = Through(f[k])
      BY <3>1, <1>2
    <3>3. Chained(f[k + 1])
      BY <3>1, <3>2, <1>1, PassDoes
    <3> QED  BY <3>1, <3>3, <1>1
  <2> HIDE DEF T
  <2>3. \A k \in 0 .. n : k \in T
    BY <1>1, <2>1, <2>2, CountingTo
  <2> QED  BY <2>3 DEF T
<1>5. ASSUME NEW t \in t_unit_heads PROVE t \in DOMAIN doc /\ LeadsToRoot(t)
  <2>1. n \in 0 .. n /\ f[n] \in SUBSET (1 .. n) /\ Chained(f[n])
    BY <1>1, <1>4
  <2>0. PICK m \in 1 .. Cardinality(f[n]) : \E c : Leads(c, m, t, f[n])
    BY <1>2, <1>5, <2>1 DEF Chained
  <2>2. PICK c : Leads(c, m, t, f[n])
    BY <2>0
  <2>3. Cardinality(f[n]) <= n
    <3>1. IsFiniteSet(1 .. n) /\ Cardinality(1 .. n) = n
      BY <1>1, FS_Interval
    <3>2. Cardinality(f[n]) <= Cardinality(1 .. n)
      BY <2>1, <3>1, FS_Subset
    <3> QED  BY <3>1, <3>2
  <2>4. m \in 1 .. n
    <3>1. Cardinality(f[n]) \in Nat
      <4>1. IsFiniteSet(1 .. n)
        BY <1>1, FS_Interval
      <4> QED  BY <4>1, <2>1, FS_Subset, FS_CardinalityType
    <3> QED  BY <3>1, <2>2, <2>3, <1>1
  <2>5. Leads(c, m, t, 1 .. n)
    BY <2>1, <2>2 DEF Leads
  <2>6. t \in 1 .. n
    BY <2>1, <1>2, <1>5
  <2> QED  BY <2>4, <2>5, <2>6, <1>1, LeadsToRootChain
<1> QED  BY <1>3, <1>5 DEF TUnitsLeadToRoot

(* T-units are the clauses that coordination leads from to a root, after   *)
(* every parse.                                                            *)
THEOREM TUnitsCounted == EvidenceSpec => []TUnitsLeadToRoot
<1> DEFINE Parse == doc \in Seq(Token)
<1>1. EvidenceInit => Parse
  BY DEF EvidenceInit
<1>2. Parse /\ [EvidenceNext]_evidenceVars => Parse'
  <2> SUFFICES ASSUME Parse, [EvidenceNext]_evidenceVars PROVE Parse'
    OBVIOUS
  <2>1. CASE UNCHANGED doc
    BY <2>1
  <2>2. CASE Parsed
    <3>1. PICK dep \in {"ROOT", "conj", "advcl"}, head \in 1 .. MaxTokens, subject \in BOOLEAN :
            doc' = Append(doc, [dep |-> dep, head |-> head, subject |-> subject])
      BY <2>2 DEF Parsed
    <3>2. [dep |-> dep, head |-> head, subject |-> subject] \in Token
      BY DEF Token
    <3> QED  BY <3>1, <3>2
  <2> QED  BY <2>1, <2>2 DEF EvidenceNext, Flushed, Heard, evidenceVars
<1>3. Parse => TUnitsLeadToRoot
  BY TUnits
<1> QED  BY <1>1, <1>2, <1>3, PTL DEF EvidenceSpec

----------------------------------------------------------------------------
(* The timeline *)

(* Each answer begins where the one before ends. *)
Timeline(g) ==
    /\ g \in [0 .. Len(answers) -> Int] /\ g[0] = 0
    /\ \A i \in 1 .. Len(answers) : g[i] = g[i - 1] + answers[i].ms
    /\ turn_boundaries = [i \in 1 .. Len(answers) |-> [start |-> g[i - 1], end |-> g[i]]]
Answer == [phase : Phases, ms : Nat]

(* There is a timeline, of which turn_boundaries takes the ends. *)
LEMMA Stitched ==
    ASSUME answers \in Seq(Answer)
    PROVE  \E g : Timeline(g)
<1> DEFINE n == Len(answers)
           s == [k \in 1 .. n |-> answers[k].ms]
<1>1. n \in Nat /\ DOMAIN answers = 1 .. n /\ \A k \in 1 .. n : answers[k].ms \in Int
  <2>1. n \in Nat /\ DOMAIN answers = 1 .. n /\ \A k \in 1 .. n : answers[k] \in Answer
    OBVIOUS
  <2>2. \A a \in Answer : a.ms \in Int
    BY DEF Answer
  <2> HIDE DEF n
  <2> QED  BY <2>1, <2>2
<1>2. s \in Seq(Int) /\ Len(s) = n /\ \A k \in 1 .. n : s[k] = answers[k].ms
  <2> HIDE DEF n
  <2>1. s \in [1 .. n -> Int]
    BY <1>1
  <2> QED  BY <1>1, <2>1
<1> HIDE DEF n, s
<1>3. PICK g \in [0 .. n -> Int] : g[0] = 0 /\ \A k \in 1 .. n : g[k] = g[k - 1] + s[k]
  BY <1>2, TotalUnrolled
<1>4. ASSUME NEW i \in 1 .. n PROVE Total([k \in 1 .. i - 1 |-> answers[k].ms]) = g[i - 1]
  <2> DEFINE t == [k \in 1 .. i - 1 |-> answers[k].ms]
  <2>1. t = [k \in 1 .. i - 1 |-> s[k]]
    BY <1>1, <1>2
  <2>2. i - 1 \in 0 .. Len(s)
    BY <1>1, <1>2
  <2>3. g \in [0 .. Len(s) -> Int] /\ \A k \in 1 .. Len(s) : g[k] = g[k - 1] + s[k]
    BY <1>2, <1>3
  <2> HIDE DEF t
  <2>4. Total(t) = g[i - 1]
    BY <2>1, <2>2, <2>3, <1>2, <1>3, TotalPrefix
  <2> QED  BY <2>4 DEF t
<1>5. ASSUME NEW i \in 1 .. n
      PROVE  turn_boundaries[i] = [start |-> g[i - 1], end |-> g[i]]
  <2>1. turn_boundaries[i] = [start |-> Total([k \in 1 .. i - 1 |-> answers[k].ms]),
                              end |-> Total([k \in 1 .. i - 1 |-> answers[k].ms]) + answers[i].ms]
    BY <1>1 DEF turn_boundaries
  <2> QED  BY <2>1, <1>4, <1>3, <1>2
<1>6. turn_boundaries = [i \in 1 .. n |-> turn_boundaries[i]]
  BY <1>1 DEF turn_boundaries
<1>7. turn_boundaries = [i \in 1 .. n |-> [start |-> g[i - 1], end |-> g[i]]]
  BY <1>5, <1>6
<1> QED  BY <1>2, <1>3, <1>7 DEF n, Timeline

(* A word is filed under an answer, the last or one that its start is in.  *)
LEMMA Filed ==
    ASSUME NEW g, Timeline(g), Len(answers) \in Nat \ {0}, NEW at \in Nat,
           NEW turn, turn = _turn_id_for_offset(turn_boundaries, at)
    PROVE  /\ turn \in 1 .. Len(answers)
           /\ turn < Len(answers) => g[turn - 1] <= at /\ at < g[turn]
           /\ \A i \in 1 .. Len(answers) : at < g[i] => turn <= i
<1> DEFINE n == Len(answers)
           inside == {i \in 1 .. n : g[i - 1] <= at /\ at < g[i]}
<1>1. turn = IF inside # {} THEN Min(inside) ELSE n
  <2>1. DOMAIN turn_boundaries = 1 .. n /\ Len(turn_boundaries) = n
    BY DEF Timeline
  <2>2. \A i \in 1 .. n : turn_boundaries[i].start = g[i - 1] /\ turn_boundaries[i].end = g[i]
    BY DEF Timeline
  <2>3. inside = {i \in DOMAIN turn_boundaries :
                    turn_boundaries[i].start <= at /\ at < turn_boundaries[i].end}
    BY <2>1, <2>2
  <2> HIDE DEF inside, n
  <2> QED  BY <2>1, <2>3 DEF _turn_id_for_offset
<1>2. ASSUME inside # {} PROVE turn \in inside /\ \A i \in inside : turn <= i
  <2>1. inside \in SUBSET Nat
    OBVIOUS
  <2>2. \E m \in inside : \A i \in inside : m <= i
    <3> HIDE DEF inside
    <3> QED  BY <2>1, <1>2, LeastElement
  <2> HIDE DEF inside
  <2> QED  BY <1>1, <1>2, <2>2 DEF Min
<1>3. turn \in 1 .. n
  <2>1. CASE inside = {}
    BY <1>1, <2>1
  <2>2. CASE inside # {}
    BY <1>2, <2>2
  <2> QED  BY <2>1, <2>2
<1>4. ASSUME NEW i \in 1 .. n, at < g[i] PROVE inside # {} /\ turn <= i
  <2> DEFINE later == {j \in 1 .. n : at < g[j]}
  <2>1. PICK j \in later : \A k \in later : j <= k
    <3>1. later \in SUBSET Nat /\ i \in later
      BY <1>4
    <3> HIDE DEF later
    <3> QED  BY <3>1, LeastElement
  <2>2. j <= i /\ j \in 1 .. n /\ at < g[j]
    BY <2>1, <1>4
  <2>3. g[j - 1] <= at
    <3>1. CASE j = 1
      BY <3>1 DEF Timeline
    <3>2. CASE j # 1
      <4>1. j - 1 \in 1 .. n /\ j - 1 \notin later
        <5>1. j \in Nat
          BY <2>2
        <5>2. j - 1 \in 1 .. n /\ ~(j <= j - 1)
          BY <3>2, <2>2
        <5> HIDE DEF later
        <5> QED  BY <5>1, <5>2, <2>1
      <4>2. g[j - 1] \in Int
        <5>1. j - 1 \in 0 .. n /\ g \in [0 .. n -> Int]
          BY <4>1 DEF Timeline
        <5> QED  BY ONLY <5>1
      <4> QED  BY <4>1, <4>2
    <3> QED  BY <3>1, <3>2
  <2>4. j \in inside
    BY <2>2, <2>3
  <2>5. turn <= j
    BY <1>2, <2>4
  <2> QED  BY <2>4, <2>5, <2>2, <1>3
<1>5. turn < n => g[turn - 1] <= at /\ at < g[turn]
  <2> SUFFICES ASSUME turn < n PROVE g[turn - 1] <= at /\ at < g[turn]
    OBVIOUS
  <2>1. inside # {}
    BY <1>1, <1>3
  <2> QED  BY <1>2, <2>1
<1> QED  BY <1>3, <1>4, <1>5

(* The words come one after the other, of one length, and only after there *)
(* is an answer.                                                           *)
Word == [word : Vocabulary, start : Nat, end : Nat]
Spoken ==
    /\ answers \in Seq(Answer) /\ heard \in Seq(Word)
    /\ heard # <<>> => answers # <<>>
    /\ \A k \in 1 .. Len(heard) : heard[k].end = heard[k].start + WordLength
    /\ \A k \in 1 .. Len(heard) - 1 : heard[k].end <= heard[k + 1].start

(* At first nothing is said, *)
LEMMA SpokenInit == EvidenceInit => Spoken
<1> SUFFICES ASSUME EvidenceInit PROVE Spoken
  OBVIOUS
<1>1. answers = <<>> /\ heard = <<>> /\ Len(heard) = 0
  BY DEF EvidenceInit
<1> QED  BY <1>1 DEF Spoken

(* and every word keeps to it. *)
LEMMA SpokenStep == Spoken /\ [EvidenceNext]_evidenceVars => Spoken'
<1> SUFFICES ASSUME Spoken, [EvidenceNext]_evidenceVars PROVE Spoken'
  OBVIOUS
<1>1. CASE UNCHANGED <<answers, heard>>
  BY <1>1 DEF Spoken
<1>2. CASE Flushed
  <2>1. PICK p \in Phases, ms \in Lengths : answers' = Append(answers, [phase |-> p, ms |-> ms])
    BY <1>2 DEF Flushed
  <2>2. [phase |-> p, ms |-> ms] \in Answer
    BY EvidenceAssumption DEF Answer
  <2>3. answers' \in Seq(Answer)
    BY <2>1, <2>2 DEF Spoken
  <2>4. heard = <<>> /\ heard' = heard
    BY <1>2 DEF Flushed
  <2> QED  BY <2>3, <2>4 DEF Spoken
<1>3. CASE Heard
  <2> DEFINE n == Len(heard)
             before == IF heard = <<>> THEN 0 ELSE Last(heard).end
  <2>1. PICK w \in Vocabulary, gap \in Gaps :
          heard' = Append(heard, [word |-> w, start |-> gap + before,
                                  end |-> gap + before + WordLength])
    BY <1>3 DEF Heard
  <2> DEFINE new == [word |-> w, start |-> gap + before, end |-> gap + before + WordLength]
  <2>2. n \in Nat /\ heard \in Seq(Word) /\ \A k \in 1 .. n : heard[k] \in Word
    BY DEF Spoken
  <2>3. before \in Nat /\ (n # 0 => before = heard[n].end)
    <3>1. CASE heard = <<>>
      BY <3>1
    <3>2. CASE heard # <<>>
      <4>1. n # 0 /\ Last(heard) = heard[n]
        BY <3>2, <2>2 DEF Last
      <4>2. heard[n].end \in Nat
        BY <2>2, <4>1 DEF Word
      <4> QED  BY <3>2, <4>1, <4>2
    <3> QED  BY <3>1, <3>2
  <2> HIDE DEF before
  <2>4. new \in Word /\ new.end = new.start + WordLength /\ before <= new.start
    BY <2>3, EvidenceAssumption DEF Word
  <2> HIDE DEF n
  <2>5. heard' = Append(heard, new)
    BY <2>1
  <2> HIDE DEF new
  <2>6. /\ heard' \in Seq(Word) /\ Len(heard') = n + 1
        /\ heard'[n + 1] = new /\ \A k \in 1 .. n : heard'[k] = heard[k]
    BY <2>2, <2>4, <2>5 DEF n
  <2>7. answers' = answers /\ answers # <<>>
    BY <1>3 DEF Heard
  <2>8. ASSUME NEW k \in 1 .. n + 1 PROVE heard'[k].end = heard'[k].start + WordLength
    <3>1. CASE k = n + 1
      BY <3>1, <2>4, <2>6
    <3>2. CASE k \in 1 .. n
      BY <3>2, <2>6 DEF Spoken, n
    <3> QED  BY <3>1, <3>2, <2>2
  <2>9. ASSUME NEW k \in 1 .. n PROVE heard'[k].end <= heard'[k + 1].start
    <3>1. CASE k = n
      BY <3>1, <2>3, <2>4, <2>6
    <3>2. CASE k \in 1 .. n - 1
      <4>1. k \in 1 .. n /\ k + 1 \in 1 .. n
        BY <3>2, <2>2
      <4> QED  BY <3>2, <4>1, <2>6 DEF Spoken, n
    <3> QED  BY <3>1, <3>2, <2>2
  <2>10. (n + 1) - 1 = n
    BY <2>2
  <2> QED  BY <2>6, <2>7, <2>8, <2>9, <2>10 DEF Spoken
<1> QED  BY <1>1, <1>2, <1>3 DEF EvidenceNext, Parsed, evidenceVars

(* So the starts rise. *)
LEMMA StartsRise ==
    ASSUME Spoken, NEW k \in 1 .. Len(heard), NEW m \in 1 .. Len(heard), k <= m
    PROVE  heard[k].start <= heard[m].start
<1> DEFINE n == Len(heard)
           T == {d \in 0 .. n - k : heard[k].start <= heard[k + d].start}
<1>1. n \in Nat /\ \A i \in 1 .. n : heard[i].start \in Nat /\ heard[i].end \in Nat
  <2>1. n \in Nat /\ \A i \in 1 .. n : heard[i] \in Word
    BY DEF Spoken
  <2> QED  BY <2>1 DEF Word
<1> HIDE DEF n
<1>2. n - k \in Nat /\ m - k \in 0 .. n - k
  BY <1>1 DEF n
<1>3. 0 \in T
  <2>1. k + 0 = k /\ k \in 1 .. n
    BY DEF n
  <2> QED  BY <2>1, <1>1, <1>2
<1>4. ASSUME NEW d \in 0 .. (n - k) - 1, d \in T PROVE d + 1 \in T
  <2>1. k + d \in 1 .. n - 1 /\ k + d \in 1 .. n /\ k + (d + 1) \in 1 .. n /\ k + (d + 1) = (k + d) + 1
    BY <1>1 DEF n
  <2>2. /\ heard[k + d].end = heard[k + d].start + WordLength
        /\ heard[k + d].end <= heard[k + (d + 1)].start
    BY <2>1 DEF Spoken, n
  <2>3. heard[k].start <= heard[k + d].start
    BY <1>4
  <2>4. /\ heard[k].start \in Nat /\ heard[k + d].start \in Nat /\ heard[k + d].end \in Nat
        /\ heard[k + (d + 1)].start \in Nat
    BY <2>1, <1>1 DEF n
  <2>5. heard[k].start <= heard[k + (d + 1)].start
    <3>1. WordLength \in Nat
      BY EvidenceAssumption
    <3> DEFINE a == heard[k].start
               b == heard[k + d].start
               c == heard[k + d].end
               e == heard[k + (d + 1)].start
    <3>2. c = b + WordLength /\ c <= e /\ a <= b /\ a \in Nat /\ b \in Nat /\ c \in Nat /\ e \in Nat
      BY <2>2, <2>3, <2>4
    <3>3. a <= e
      <4> HIDE DEF a, b, c, e
      <4> QED  BY ONLY <3>1, <3>2
    <3> QED  BY <3>3
  <2> QED  BY <2>5, <1>2
<1> HIDE DEF T
<1>5. \A d \in 0 .. n - k : d \in T
  BY <1>2, <1>3, <1>4, CountingTo
<1>6. m - k \in T /\ k + (m - k) = m
  BY <1>2, <1>5
<1> QED  BY <1>6 DEF T

(* The transcript's rows: words under turns that do not fall.              *)
Row == _persist_words(turn_boundaries, heard)

(* A row is a word as it was heard, under the turn its start is in; turns  *)
(* do not fall.                                                            *)
LEMMA RowsFiled ==
    ASSUME Spoken
    PROVE  /\ DOMAIN Row = 1 .. Len(heard) /\ Len(heard) \in Nat
           /\ \A k \in 1 .. Len(heard) :
                /\ Row[k].turn \in 1 .. Len(answers)
                /\ Row[k].turn < Len(answers) => answers[Row[k].turn].ms > 0
                /\ Row[k].seq = Cardinality({m \in 1 .. k - 1 : Row[m].turn = Row[k].turn})
                /\ Row[k].word = heard[k].word /\ Row[k].start = heard[k].start
                /\ Row[k].end = heard[k].end
           /\ \A k, m \in 1 .. Len(heard) : k <= m => Row[k].turn <= Row[m].turn
<1> DEFINE N == Len(heard)
           n == Len(answers)
           turn == [k \in 1 .. N |-> _turn_id_for_offset(turn_boundaries, heard[k].start)]
<1>1. /\ N \in Nat /\ n \in Nat /\ DOMAIN heard = 1 .. N
      /\ \A k \in 1 .. N : heard[k].start \in Nat /\ n # 0
  <2>1. /\ N \in Nat /\ n \in Nat /\ DOMAIN heard = 1 .. N
        /\ \A k \in 1 .. N : heard[k] \in Word
    BY DEF Spoken
  <2>2. ASSUME NEW k \in 1 .. N PROVE n # 0
    <3>1. heard # <<>>
      BY <2>1
    <3>2. answers # <<>> /\ answers \in Seq(Answer)
      BY <3>1 DEF Spoken
    <3> QED  BY <3>2
  <2>3. \A w \in Word : w.start \in Nat
    BY DEF Word
  <2> HIDE DEF N, n
  <2> QED  BY <2>1, <2>2, <2>3
<1>2. PICK g : Timeline(g)
  BY Stitched DEF Spoken
<1>3. \A i \in 1 .. n : answers[i].ms \in Nat
  <2>1. \A i \in 1 .. n : answers[i] \in Answer
    BY DEF Spoken
  <2> QED  BY <2>1 DEF Answer
<1>4. /\ DOMAIN Row = 1 .. N
      /\ \A k \in 1 .. N :
           /\ Row[k].turn = turn[k] /\ Row[k].word = heard[k].word
           /\ Row[k].start = heard[k].start /\ Row[k].end = heard[k].end
           /\ Row[k].seq = Cardinality({m \in 1 .. k - 1 : turn[m] = turn[k]})
  BY <1>1 DEF Row, _persist_words
<1>5. ASSUME NEW k \in 1 .. N
      PROVE  /\ turn[k] \in 1 .. n
             /\ turn[k] < n => g[turn[k] - 1] <= heard[k].start /\ heard[k].start < g[turn[k]]
             /\ \A i \in 1 .. n : heard[k].start < g[i] => turn[k] <= i
  <2>1. heard[k].start \in Nat /\ Len(answers) \in Nat \ {0}
    BY <1>1
  <2>2. turn[k] = _turn_id_for_offset(turn_boundaries, heard[k].start)
    OBVIOUS
  <2> HIDE DEF turn
  <2> QED  BY <2>1, <2>2, <1>2, Filed
<1> HIDE DEF turn
<1>6. ASSUME NEW k \in 1 .. N, turn[k] < n PROVE answers[turn[k]].ms > 0
  <2>1. turn[k] \in 1 .. n /\ turn[k] - 1 \in 0 .. n /\ turn[k] \in 0 .. n
    BY <1>5, <1>1
  <2>2. g[turn[k]] = g[turn[k] - 1] + answers[turn[k]].ms
    BY <2>1, <1>2 DEF Timeline
  <2>3. g[turn[k]] \in Int /\ g[turn[k] - 1] \in Int
    <3>1. g \in [0 .. n -> Int]
      BY <1>2 DEF Timeline
    <3> QED  BY ONLY <3>1, <2>1
  <2>4. g[turn[k] - 1] <= heard[k].start /\ heard[k].start < g[turn[k]] /\ heard[k].start \in Nat
    BY <1>5, <1>6, <1>1
  <2>5. answers[turn[k]].ms \in Nat
    BY <2>1, <1>3
  <2> QED  BY ONLY <2>2, <2>3, <2>4, <2>5
<1>7. ASSUME NEW k \in 1 .. N, NEW m \in 1 .. N, k <= m PROVE turn[k] <= turn[m]
  <2>1. heard[k].start <= heard[m].start
    BY <1>7, StartsRise
  <2>2. turn[k] \in 1 .. n /\ turn[m] \in 1 .. n
    BY <1>5
  <2>3. CASE turn[m] = n
    BY <2>2, <2>3
  <2>4. CASE turn[m] # n
    <3>1. turn[m] < n
      BY <2>2, <2>4, <1>1
    <3>2. heard[m].start < g[turn[m]]
      BY <3>1, <1>5
    <3>3. g[turn[m]] \in Int
      <4>1. g \in [0 .. n -> Int]
        BY <1>2 DEF Timeline
      <4> QED  BY ONLY <4>1, <2>2, <1>1
    <3>4. heard[k].start < g[turn[m]]
      BY <2>1, <3>2, <3>3, <1>1
    <3> QED  BY <3>4, <2>2, <1>5
  <2> QED  BY <2>3, <2>4
<1>8. ASSUME NEW k \in 1 .. N
      PROVE  Row[k].seq = Cardinality({m \in 1 .. k - 1 : Row[m].turn = Row[k].turn})
  <2>1. \A m \in 1 .. k - 1 : m \in 1 .. N
    BY <1>1
  <2>2. {m \in 1 .. k - 1 : turn[m] = turn[k]} = {m \in 1 .. k - 1 : Row[m].turn = Row[k].turn}
    BY <2>1, <1>4
  <2> QED  BY <2>2, <1>4
<1> QED  BY <1>1, <1>4, <1>5, <1>6, <1>7, <1>8, ZenonT(60)

(* So the properties of the transcript's order hold of it. *)
LEMMA WordsFollow ==
    ASSUME Spoken
    PROVE  WordsFollowTheAudio
<1> DEFINE N == Len(heard)
           turn == [k \in 1 .. N |-> Row[k].turn]
           before(k) == {m \in 1 .. k - 1 : turn[m] = turn[k]}
<1>1. /\ DOMAIN Row = 1 .. N /\ N \in Nat
      /\ \A k \in 1 .. N :
           /\ turn[k] = Row[k].turn /\ turn[k] \in Nat
           /\ turn[k] < Len(answers) => answers[turn[k]].ms > 0
           /\ Row[k].seq = Cardinality({m \in 1 .. k - 1 : Row[m].turn = Row[k].turn})
  <2>1. DOMAIN Row = 1 .. N /\ N \in Nat
    BY RowsFiled
  <2>2. ASSUME NEW k \in 1 .. N
        PROVE  /\ Row[k].turn \in 1 .. Len(answers)
               /\ Row[k].turn < Len(answers) => answers[Row[k].turn].ms > 0
               /\ Row[k].seq = Cardinality({m \in 1 .. k - 1 : Row[m].turn = Row[k].turn})
    BY RowsFiled
  <2>3. ASSUME NEW k \in 1 .. N PROVE turn[k] = Row[k].turn /\ turn[k] \in Nat
    <3>1. Row[k].turn \in 1 .. Len(answers)
      BY <2>2
    <3> QED  BY <3>1
  <2> HIDE DEF turn
  <2> QED  BY <2>1, <2>2, <2>3
<1>2. \A k, m \in 1 .. N : k <= m => turn[k] <= turn[m]
  BY RowsFiled
<1> HIDE DEF turn
<1>3. \A k \in 1 .. N : Row[k].seq = Cardinality(before(k))
  <2> SUFFICES ASSUME NEW k \in 1 .. N PROVE Row[k].seq = Cardinality(before(k))
    OBVIOUS
  <2>1. \A m \in 1 .. k - 1 : m \in 1 .. N
    BY <1>1
  <2>2. before(k) = {m \in 1 .. k - 1 : Row[m].turn = Row[k].turn}
    BY <2>1, <1>1
  <2> QED  BY <2>2, <1>1
<1>4. ASSUME NEW k \in 1 .. N
      PROVE  IsFiniteSet(before(k)) /\ Cardinality(before(k)) \in Nat
  <2>1. IsFiniteSet(1 .. k - 1)
    BY FS_Interval
  <2>2. IsFiniteSet(before(k))
    BY <2>1, FS_Subset
  <2> QED  BY <2>2, FS_CardinalityType
<1>5. ASSUME NEW k \in 1 .. N, NEW m \in 1 .. N, k < m, turn[k] = turn[m]
      PROVE  Row[m].seq = Row[k].seq + m - k
  <2> DEFINE between == k .. m - 1
  <2>1. before(m) = before(k) \cup between
    <3>1. \A p \in between : p \in 1 .. N /\ k <= p /\ p <= m
      BY <1>1
    <3>2. \A p \in between : turn[p] \in Nat /\ turn[k] <= turn[p] /\ turn[p] <= turn[m]
      BY <3>1, <1>1, <1>2
    <3>3. \A p \in between : turn[p] = turn[m]
      <4>1. turn[m] \in Nat
        BY <1>1
      <4> HIDE DEF between
      <4> QED  BY <3>2, <4>1, <1>5
    <3>4. 1 .. m - 1 = (1 .. k - 1) \cup between
      BY <1>5
    <3> HIDE DEF between
    <3> QED  BY <3>3, <3>4, <1>5
  <2>2. IsFiniteSet(between) /\ Cardinality(between) = m - k
    <3>1. k \in Int /\ m - 1 \in Int /\ ~(k > m - 1) /\ (m - 1) - k + 1 = m - k
      BY <1>5
    <3> QED  BY <3>1, FS_Interval
  <2>3. before(k) \cap between = {}
    OBVIOUS
  <2>4. Cardinality(before(m)) = Cardinality(before(k)) + Cardinality(between)
    <3> HIDE DEF between, before
    <3>1. Cardinality(before(k) \cap between) = 0
      BY <2>3, FS_EmptySet
    <3>2. IsFiniteSet(before(k)) /\ Cardinality(before(k)) \in Nat /\ Cardinality(between) \in Int
      BY <1>4, <2>2
    <3>3. Cardinality(before(k) \cup between)
            = Cardinality(before(k)) + Cardinality(between) - Cardinality(before(k) \cap between)
      BY <2>2, <3>2, FS_Union
    <3>4. m - k \in Int
      OBVIOUS
    <3> QED  BY <2>1, <2>2, <3>1, <3>2, <3>3, <3>4
  <2> HIDE DEF before
  <2> QED  BY <2>2, <2>4, <1>3, <1>4
<1>6. ASSUME NEW k \in 1 .. N, Row[k].seq > 0
      PROVE  k > 1 /\ turn[k - 1] = turn[k]
  <2>1. before(k) # {}
    <3> HIDE DEF before
    <3> QED  BY <1>3, <1>6, FS_EmptySet
  <2>2. PICK p \in 1 .. k - 1 : turn[p] = turn[k]
    BY <2>1
  <2>3. k > 1 /\ k - 1 \in 1 .. N /\ p \in 1 .. N /\ p <= k - 1 /\ k - 1 <= k
    BY <1>1
  <2>4. turn[p] <= turn[k - 1] /\ turn[k - 1] <= turn[k]
    BY <2>3, <1>2
  <2>5. turn[k - 1] \in Nat /\ turn[k] \in Nat
    BY <2>3, <1>1
  <2> QED  BY <2>2, <2>3, <2>4, <2>5
<1>7. ASSUME NEW k \in 1 .. N, NEW m \in 1 .. N, k < m
      PROVE  \/ turn[k] < turn[m]
             \/ turn[k] = turn[m] /\ Row[m].seq = Row[k].seq + m - k
  <2>0. k <= m
    BY <1>1, <1>7
  <2>1. turn[k] <= turn[m] /\ turn[k] \in Nat /\ turn[m] \in Nat
    BY <2>0, <1>1, <1>2
  <2>2. CASE turn[k] = turn[m]
    BY <1>5, <1>7, <2>2
  <2> QED  BY <2>1, <2>2
<1>8. \A k \in 1 .. N : k > 1 => k - 1 \in 1 .. N
  BY <1>1
<1> HIDE DEF N
<1>9. ASSUME NEW k \in DOMAIN Row, NEW m \in DOMAIN Row, k < m
      PROVE  \/ Row[k].turn < Row[m].turn
             \/ Row[k].turn = Row[m].turn /\ Row[m].seq = Row[k].seq + m - k
  <2>1. k \in 1 .. N /\ m \in 1 .. N /\ turn[k] = Row[k].turn /\ turn[m] = Row[m].turn
    BY <1>1
  <2> QED  BY <2>1, <1>7, <1>9
<1>10. \A k \in DOMAIN Row :
          /\ Row[k].turn < Len(answers) => answers[Row[k].turn].ms > 0
          /\ Row[k].seq > 0 => k > 1 /\ Row[k - 1].turn = Row[k].turn
  BY <1>1, <1>6, <1>8
<1> QED  BY <1>9, <1>10 DEF WordsFollowTheAudio, Row

(* The words follow the audio, whatever was said and however long.         *)
THEOREM TranscriptInOrder == EvidenceSpec => []WordsFollowTheAudio
<1>1. Spoken => WordsFollowTheAudio
  BY WordsFollow
<1> QED  BY <1>1, SpokenInit, SpokenStep, PTL DEF EvidenceSpec

----------------------------------------------------------------------------
(* Rounding *)

(* What is rounded is a natural number, *)
LEMMA RoundType ==
    ASSUME NEW n \in Nat, NEW d \in Nat \ {0}
    PROVE  Round(n, d) \in Nat
BY Divided DEF Round

(* What is rounded does not leave the whole numbers around it.             *)
LEMMA RoundWithin ==
    ASSUME NEW n \in Nat, NEW d \in Nat \ {0}, NEW lo \in Int, NEW hi \in Int,
           d * lo <= n, n <= d * hi
    PROVE  lo <= Round(n, d) /\ Round(n, d) <= hi
<1> DEFINE q == n \div d
           r == n % d
<1>1. q \in Nat /\ r \in 0 .. d - 1 /\ n = d * q + r
  BY Divided
<1>2. Round(n, d) = q \/ (Round(n, d) = q + 1 /\ r # 0)
  <2>1. Round(n, d) = IF 2 * r < d \/ (2 * r = d /\ q % 2 = 0) THEN q ELSE q + 1
    BY DEF Round
  <2> HIDE DEF q, r
  <2> QED  BY <2>1, <1>1
<1> HIDE DEF q, r
<1>3. lo <= q
  <2> SUFFICES ASSUME q + 1 <= lo PROVE FALSE
    BY <1>1
  <2>1. d * (q + 1) <= d * lo
    BY <1>1
  <2>2. d * (q + 1) = d * q + d /\ d * q \in Int /\ d * lo \in Int
    BY <1>1
  <2> QED  BY <2>1, <2>2, <1>1
<1>4. q <= hi
  <2> SUFFICES ASSUME hi + 1 <= q PROVE FALSE
    BY <1>1
  <2>1. d * (hi + 1) <= d * q
    BY <1>1
  <2>2. d * (hi + 1) = d * hi + d /\ d * q \in Int /\ d * hi \in Int
    BY <1>1
  <2> QED  BY <2>1, <2>2, <1>1
<1>5. r # 0 => q + 1 <= hi
  <2> SUFFICES ASSUME r # 0, q = hi PROVE FALSE
    BY <1>1, <1>4
  <2>1. d * q \in Int
    BY <1>1
  <2> QED  BY <2>1, <1>1
<1> QED  BY <1>1, <1>2, <1>3, <1>4, <1>5

(* The more, the more is what it is rounded to.                            *)
LEMMA RoundRises ==
    ASSUME NEW n \in Nat, NEW m \in Nat, n <= m, NEW d \in Nat \ {0}
    PROVE  Round(n, d) <= Round(m, d)
<1> DEFINE q == n \div d
           r == n % d
           q2 == m \div d
           r2 == m % d
<1>1. /\ q \in Nat /\ r \in 0 .. d - 1 /\ n = d * q + r
      /\ q2 \in Nat /\ r2 \in 0 .. d - 1 /\ m = d * q2 + r2
  BY Divided
<1>2. /\ Round(n, d) = IF 2 * r < d \/ (2 * r = d /\ q % 2 = 0) THEN q ELSE q + 1
      /\ Round(m, d) = IF 2 * r2 < d \/ (2 * r2 = d /\ q2 % 2 = 0) THEN q2 ELSE q2 + 1
  BY DEF Round
<1> HIDE DEF q, r, q2, r2
<1>3. q <= q2
  <2> SUFFICES ASSUME q2 + 1 <= q PROVE FALSE
    BY <1>1
  <2>1. d * (q2 + 1) <= d * q
    BY <1>1
  <2>2. d * (q2 + 1) = d * q2 + d /\ d * q \in Int /\ d * q2 \in Int
    BY <1>1
  <2> QED  BY <2>1, <2>2, <1>1
<1>4. CASE q < q2
  BY <1>4, <1>1, <1>2
<1>5. CASE q = q2
  <2>1. d * q \in Int
    BY <1>1
  <2>2. r <= r2
    BY <2>1, <1>1, <1>5
  <2> QED  BY <2>2, <1>1, <1>2, <1>5
<1> QED  BY <1>1, <1>3, <1>4, <1>5

----------------------------------------------------------------------------
(* Reconciliation *)

(* Two passes, with whole bands for some of the criteria. *)
Passes(pair) ==
    \A i \in 1 .. 2 : /\ DOMAIN pair[i] \in SUBSET CRITERION_ORDER
                      /\ \A c \in DOMAIN pair[i] : pair[i][c] \in Nat

(* The criteria both passes score are few. *)
LEMMA ScoredFinite ==
    ASSUME NEW pair, Passes(pair)
    PROVE  IsFiniteSet(Scored(pair)) /\ (Scored(pair) # {} => Cardinality(Scored(pair)) \in Nat \ {0})
<1>1. Scored(pair) \in SUBSET CRITERION_ORDER
  <2>1. 1 \in 1 .. 2
    OBVIOUS
  <2>2. DOMAIN pair[1] \in SUBSET CRITERION_ORDER
    BY <2>1 DEF Passes
  <2> QED  BY <2>2 DEF Scored
<1>2. IsFiniteSet(Scored(pair))
  BY <1>1, BandAssumption, FS_Subset
<1> QED  BY <1>2, FS_CardinalityType, FS_EmptySet

(* The average is a whole band, and is not left of either side.            *)
LEMMA Final ==
    ASSUME NEW pair, Passes(pair), NEW c \in Scored(pair)
    PROVE  /\ pair[1][c] \in Nat /\ pair[2][c] \in Nat
           /\ final_scores(pair)[c] = Round(pair[1][c] + pair[2][c], 2)
           /\ final_scores(pair)[c] \in Nat
           /\ \A lo, hi \in Int : lo <= pair[1][c] /\ lo <= pair[2][c] /\ pair[1][c] <= hi /\ pair[2][c] <= hi
                => lo <= final_scores(pair)[c] /\ final_scores(pair)[c] <= hi
<1>0. 1 \in 1 .. 2 /\ 2 \in 1 .. 2
  OBVIOUS
<1>1. pair[1][c] \in Nat /\ pair[2][c] \in Nat
  BY <1>0 DEF Passes, Scored
<1>2. final_scores(pair)[c] = Round(pair[1][c] + pair[2][c], 2)
  BY DEF final_scores
<1> DEFINE n == pair[1][c] + pair[2][c]
<1>3. n \in Nat /\ 2 \in Nat \ {0}
  BY <1>1
<1>4. final_scores(pair)[c] \in Nat
  <2> HIDE DEF n
  <2>1. Round(n, 2) \in Nat
    BY <1>3, RoundType
  <2> QED  BY <2>1, <1>2 DEF n
<1>5. ASSUME NEW lo \in Int, NEW hi \in Int, lo <= pair[1][c], lo <= pair[2][c],
             pair[1][c] <= hi, pair[2][c] <= hi
      PROVE  lo <= final_scores(pair)[c] /\ final_scores(pair)[c] <= hi
  <2>1. 2 * lo <= n /\ n <= 2 * hi
    BY <1>1, <1>5
  <2> HIDE DEF n
  <2>2. lo <= Round(n, 2) /\ Round(n, 2) <= hi
    BY <2>1, <1>3, RoundWithin
  <2> QED  BY <2>2, <1>2 DEF n
<1> QED  BY <1>1, <1>2, <1>4, <1>5

(* The overall band is the rounded average of the criteria's.              *)
LEMMA Overall ==
    ASSUME NEW pair, Passes(pair), Scored(pair) # {}
    PROVE  /\ Sum(final_scores(pair), Scored(pair)) \in Nat
           /\ Cardinality(Scored(pair)) \in Nat \ {0}
           /\ overall_band(pair) = Round(Sum(final_scores(pair), Scored(pair)), Cardinality(Scored(pair)))
<1> DEFINE S == Scored(pair)
           f == final_scores(pair)
<1>1. IsFiniteSet(S) /\ Cardinality(S) \in Nat \ {0}
  BY ScoredFinite
<1>2. \A c \in S : f[c] \in Nat
  BY Final
<1>3. Sum(f, S) \in Nat
  <2> DEFINE z == [c \in S |-> 0]
  <2>1. \A c \in S : z[c] = 0 /\ z[c] \in Int /\ f[c] \in Int /\ z[c] <= f[c]
    BY <1>2
  <2> HIDE DEF z, S, f
  <2>2. Sum(z, S) = Cardinality(S) * 0
    BY <1>1, <2>1, 0 \in Int, SumOfEqual
  <2>3. Sum(z, S) = 0
    BY <2>2, <1>1
  <2>4. Sum(z, S) <= Sum(f, S)
    BY <1>1, <2>1, SumsCompare
  <2>5. Sum(f, S) \in Int
    BY <1>1, <2>1, SumType
  <2> QED  BY <2>3, <2>4, <2>5
<1>4. overall_band(pair) = Round(Sum(f, S), Cardinality(S))
  BY DEF overall_band, Sum, sum, final_scores
<1> QED  BY <1>1, <1>3, <1>4

(* It lies between bands that the criteria lie between,                    *)
LEMMA OverallWithin ==
    ASSUME NEW pair, Passes(pair), Scored(pair) # {}, NEW lo \in Int, NEW hi \in Int,
           \A c \in Scored(pair) : lo <= final_scores(pair)[c] /\ final_scores(pair)[c] <= hi
    PROVE  lo <= overall_band(pair) /\ overall_band(pair) <= hi
<1> DEFINE S == Scored(pair)
           f == final_scores(pair)
           d == Cardinality(S)
           l == [c \in S |-> lo]
           h == [c \in S |-> hi]
<1>1. IsFiniteSet(S)
  BY ScoredFinite
<1>2. \A c \in S : /\ f[c] \in Int /\ l[c] = lo /\ h[c] = hi /\ l[c] \in Int /\ h[c] \in Int
                   /\ l[c] <= f[c] /\ f[c] <= h[c]
  BY Final
<1>3. Sum(f, S) \in Nat /\ d \in Nat \ {0} /\ overall_band(pair) = Round(Sum(f, S), d)
  BY Overall
<1> HIDE DEF S, f, l, h
<1>4. Sum(l, S) = Cardinality(S) * lo /\ Sum(h, S) = Cardinality(S) * hi
  BY <1>1, <1>2, SumOfEqual
<1>5. Sum(l, S) <= Sum(f, S) /\ Sum(f, S) <= Sum(h, S)
  BY <1>1, <1>2, SumsCompare
<1>6. d * lo <= Sum(f, S) /\ Sum(f, S) <= d * hi
  BY <1>4, <1>5
<1> HIDE DEF d
<1> QED  BY <1>3, <1>6, RoundWithin

(* and does not sink when the bands of a pass rise.                        *)
LEMMA OverallRises ==
    ASSUME NEW pair, Passes(pair), NEW more, Passes(more), Scored(more) = Scored(pair),
           \A c \in Scored(pair) : pair[1][c] <= more[1][c] /\ pair[2][c] <= more[2][c]
    PROVE  overall_band(pair) <= overall_band(more)
<1> DEFINE S == Scored(pair)
           f == final_scores(pair)
           g == final_scores(more)
           d == Cardinality(S)
<1>1. CASE S = {}
  <2>1. overall_band(pair) = 0 /\ overall_band(more) = 0
    BY <1>1 DEF overall_band
  <2> QED  BY <2>1
<1>2. CASE S # {}
  <2>1. ASSUME NEW c \in S PROVE f[c] \in Int /\ g[c] \in Int /\ f[c] <= g[c]
    <3> DEFINE n == pair[1][c] + pair[2][c]
               m == more[1][c] + more[2][c]
    <3>1. /\ pair[1][c] \in Nat /\ pair[2][c] \in Nat /\ f[c] = Round(n, 2) /\ f[c] \in Nat
      BY Final
    <3>2. /\ more[1][c] \in Nat /\ more[2][c] \in Nat /\ g[c] = Round(m, 2) /\ g[c] \in Nat
      BY Final
    <3>3. n \in Nat /\ m \in Nat /\ n <= m /\ 2 \in Nat \ {0}
      BY <3>1, <3>2
    <3> HIDE DEF n, m, f, g
    <3> QED  BY <3>1, <3>2, <3>3, RoundRises
  <2>2. IsFiniteSet(S)
    BY ScoredFinite
  <2>3. Sum(f, S) \in Nat /\ d \in Nat \ {0} /\ overall_band(pair) = Round(Sum(f, S), d)
    BY <1>2, Overall
  <2>4. Sum(g, S) \in Nat /\ overall_band(more) = Round(Sum(g, S), d)
    BY <1>2, Overall
  <2> HIDE DEF S, f, g, d
  <2>5. Sum(f, S) <= Sum(g, S)
    BY <2>1, <2>2, SumsCompare
  <2> QED  BY <2>3, <2>4, <2>5, RoundRises
<1> QED  BY <1>1, <1>2

(* Two passes, whatever their bands, are reconciled fairly. *)
LEMMA Reconciled ==
    ASSUME passes \in Pass \X Pass
    PROVE  ReconciledFairly
<1> DEFINE a == passes[1]
           b == passes[2]
           final == final_scores(passes)
           values == {final[c] : c \in Scored(passes)}
           swapped == <<passes[2], passes[1]>>
<1>1. /\ DOMAIN a \in SUBSET CRITERION_ORDER /\ \A c \in DOMAIN a : a[c] \in 0 .. 18
      /\ DOMAIN b \in SUBSET CRITERION_ORDER /\ \A c \in DOMAIN b : b[c] \in 0 .. 18
  <2>1. a \in Pass /\ b \in Pass
    OBVIOUS
  <2>2. \A p \in Pass : DOMAIN p \in SUBSET CRITERION_ORDER /\ \A c \in DOMAIN p : p[c] \in 0 .. 18
    <3> SUFFICES ASSUME NEW p \in Pass
                 PROVE  DOMAIN p \in SUBSET CRITERION_ORDER /\ \A c \in DOMAIN p : p[c] \in 0 .. 18
      OBVIOUS
    <3>1. PICK cs \in SUBSET CRITERION_ORDER : p \in [cs -> Bands]
      BY DEF Pass
    <3> QED  BY <3>1, BandAssumption
  <2> QED  BY <2>1, <2>2
<1>2. Passes(passes)
  BY <1>1 DEF Passes
<1>3. ASSUME NEW c \in Scored(passes)
      PROVE  /\ Min({a[c], b[c]}) <= final[c] /\ final[c] <= Max({a[c], b[c]})
             /\ final[c] \in 0 .. 18
  <2>1. a[c] \in 0 .. 18 /\ b[c] \in 0 .. 18
    BY <1>1 DEF Scored
  <2> DEFINE both == {a[c], b[c]}
  <2>2. both \in SUBSET (0 .. 18) /\ both # {}
    BY <2>1
  <2>3. Min(both) \in Int /\ Max(both) \in Int /\ \A x \in both : Min(both) <= x /\ x <= Max(both)
    <3>1. 18 \in Nat
      OBVIOUS
    <3> HIDE DEF both
    <3>2. Min(both) \in both /\ Max(both) \in both /\ \A x \in both : Min(both) <= x /\ x <= Max(both)
      BY <2>2, <3>1, ExtremesIn
    <3>3. \A x \in both : x \in Int
      BY <2>2
    <3> QED  BY <3>2, <3>3
  <2>4. a[c] \in both /\ b[c] \in both
    OBVIOUS
  <2>5. \A lo, hi \in Int : lo <= a[c] /\ lo <= b[c] /\ a[c] <= hi /\ b[c] <= hi
          => lo <= final[c] /\ final[c] <= hi
    BY <1>2, Final
  <2>6. final[c] \in Nat
    BY <1>2, Final
  <2>7. 0 <= a[c] /\ 0 <= b[c] /\ a[c] <= 18 /\ b[c] <= 18
    BY <2>1
  <2>8. final[c] <= 18
    BY <2>5, <2>7, 0 \in Int, 18 \in Int
  <2>9. Min(both) <= final[c] /\ final[c] <= Max(both)
    <3> HIDE DEF both, final
    <3> QED  BY <2>3, <2>4, <2>5
  <2> QED  BY <2>6, <2>8, <2>9
<1>4. ASSUME NEW c \in Scored(passes)
      PROVE  overall_band(<<[passes[1] EXCEPT ![c] = @ + 1], passes[2]>>) >= overall_band(passes)
  <2> DEFINE up == [a EXCEPT ![c] = @ + 1]
             more == <<up, b>>
  <2>1. c \in DOMAIN a /\ DOMAIN up = DOMAIN a
    BY DEF Scored
  <2>2. \A k \in DOMAIN a : up[k] \in Nat /\ a[k] <= up[k]
    BY <1>1
  <2>3. more[1] = up /\ more[2] = b
    OBVIOUS
  <2> HIDE DEF up, more
  <2>4. Passes(more)
    BY <1>1, <2>1, <2>2, <2>3 DEF Passes
  <2>5. Scored(more) = Scored(passes)
    BY <2>1, <2>3 DEF Scored
  <2>6. \A k \in Scored(passes) : passes[1][k] <= more[1][k] /\ passes[2][k] <= more[2][k]
    <3>1. \A k \in Scored(passes) : k \in DOMAIN a /\ k \in DOMAIN b
      BY DEF Scored
    <3> QED  BY <3>1, <2>2, <2>3, <1>1
  <2>7. overall_band(passes) <= overall_band(more)
    BY <1>2, <2>4, <2>5, <2>6, OverallRises
  <2>8. overall_band(passes) \in Int /\ overall_band(more) \in Int
    <3>1. Scored(passes) # {}
      OBVIOUS
    <3>2. ASSUME NEW pair, Passes(pair), Scored(pair) # {} PROVE overall_band(pair) \in Int
      <4> DEFINE n == Sum(final_scores(pair), Scored(pair))
                 d == Cardinality(Scored(pair))
      <4>1. n \in Nat /\ d \in Nat \ {0} /\ overall_band(pair) = Round(n, d)
        BY <3>2, Overall
      <4> HIDE DEF n, d
      <4>2. Round(n, d) \in Nat
        BY <4>1, RoundType
      <4> QED  BY <4>1, <4>2
    <3> QED  BY <3>1, <3>2, <1>2, <2>4, <2>5
  <2> QED  BY <2>7, <2>8 DEF more, up
<1>5. ASSUME values # {}
      PROVE  Min(values) <= overall_band(passes) /\ overall_band(passes) <= Max(values)
  <2>1. values \in SUBSET (0 .. 18)
    BY <1>3
  <2>2. Min(values) \in Int /\ Max(values) \in Int /\ \A x \in values : Min(values) <= x /\ x <= Max(values)
    <3>1. 18 \in Nat
      OBVIOUS
    <3> HIDE DEF values
    <3>2. Min(values) \in values /\ Max(values) \in values
          /\ \A x \in values : Min(values) <= x /\ x <= Max(values)
      BY <2>1, <3>1, <1>5, ExtremesIn
    <3>3. \A x \in values : x \in Int
      BY <2>1
    <3> QED  BY <3>2, <3>3
  <2>3. Scored(passes) # {}
    BY <1>5
  <2>4. \A c \in Scored(passes) : final[c] \in values
    OBVIOUS
  <2>5. \A c \in Scored(passes) : Min(values) <= final[c] /\ final[c] <= Max(values)
    <3> HIDE DEF values, final
    <3> QED  BY <2>2, <2>4
  <2> HIDE DEF values
  <2> QED  BY <2>2, <2>3, <2>5, <1>2, OverallWithin
<1>6. swapped[1] = b /\ swapped[2] = a
  OBVIOUS
<1>7. Scored(swapped) = Scored(passes)
  BY <1>6 DEF Scored
<1>8. final_scores(swapped) = final_scores(passes)
  <2>1. \A c \in Scored(passes) : a[c] + b[c] = b[c] + a[c]
    BY <1>1 DEF Scored
  <2> HIDE DEF swapped
  <2> QED  BY <2>1, <1>6, <1>7 DEF final_scores
<1>9. overall_band(swapped) = overall_band(passes)
  <2> HIDE DEF swapped
  <2> QED  BY <1>7, <1>8 DEF overall_band
<1>10. flagged_criteria(swapped) = flagged_criteria(passes)
  <2>1. \A c \in Scored(passes) : Diff(a[c], b[c]) = Diff(b[c], a[c])
    <3> SUFFICES ASSUME NEW c \in Scored(passes) PROVE Diff(a[c], b[c]) = Diff(b[c], a[c])
      OBVIOUS
    <3>1. a[c] \in 0 .. 18 /\ b[c] \in 0 .. 18
      BY <1>1 DEF Scored
    <3> QED  BY <3>1 DEF Diff
  <2> HIDE DEF swapped
  <2> QED  BY <2>1, <1>6, <1>7 DEF flagged_criteria
<1> HIDE DEF final
<1> QED  BY <1>3, <1>4, <1>5, <1>9, <1>10 DEF ReconciledFairly, final

(* Reconciliation is fair, whatever the judge says.                        *)
THEOREM FairlyReconciled == BandSpec => []ReconciledFairly
<1> DEFINE Asked == passes = <<>> \/ passes \in Pass \X Pass
<1>1. BandInit => Asked
  BY DEF BandInit
<1>2. Asked /\ [BandNext]_bandVars => Asked'
  BY DEF BandNext, Judged, Compared, bandVars
<1>3. Asked => ReconciledFairly
  <2>1. CASE passes = <<>>
    BY <2>1 DEF ReconciledFairly
  <2>2. CASE passes \in Pass \X Pass
    BY <2>2, Reconciled
  <2> QED  BY <2>1, <2>2
<1> QED  BY <1>1, <1>2, <1>3, PTL DEF BandSpec

----------------------------------------------------------------------------
(* The calibration *)

Case == [case_id : CaseId, passes : SomeScored \X SomeScored, human_scores : AllScored]
Recording ==
    [words : {Raised} \cup {{w} : w \in SeqOf(Confidence, MaxRecognized)},
     confidence : {Raised} \cup {{c} : c \in Confidence}, low_snr_flag : BOOLEAN]
Corpus == file \in Seq(Case) /\ recordings \in Seq(Recording)

(* Every step leaves a corpus of such cases. *)
LEMMA CorpusStep ==
    ASSUME Corpus,
           \/ CaseAdded /\ UNCHANGED recordings
           \/ Recorded /\ UNCHANGED corpusVars
           \/ UNCHANGED <<corpusVars, recordings>>
    PROVE  Corpus'
<1>1. CASE CaseAdded /\ UNCHANGED recordings
  <2>1. AllScored \subseteq SomeScored
    BY DEF AllScored, SomeScored
  <2>2. \E case \in Case : file' = Append(file, case)
    <3>1. PICK id \in CaseId, human_scores \in AllScored,
               pass_1 \in SomeScored, pass_2 \in SomeScored :
            file' = Append(file, [case_id |-> id, passes |-> <<pass_1, pass_2>>,
                                  human_scores |-> human_scores])
      BY <1>1, <2>1 DEF CaseAdded
    <3> DEFINE case == [case_id |-> id, passes |-> <<pass_1, pass_2>>, human_scores |-> human_scores]
    <3>2. case \in Case
      BY DEF Case
    <3> QED  BY <3>1, <3>2
  <2>3. file' \in Seq(Case)
    BY <2>2 DEF Corpus
  <2> QED  BY <1>1, <2>3 DEF Corpus
<1>2. CASE Recorded /\ UNCHANGED corpusVars
  <2>1. \E r \in Recording : recordings' = Append(recordings, r)
    <3>1. PICK words \in {Raised} \cup {{w} : w \in SeqOf(Confidence, MaxRecognized)},
               confidence \in {Raised} \cup {{c} : c \in Confidence}, low_snr_flag \in BOOLEAN :
            recordings' = Append(recordings,
                [words |-> words, confidence |-> confidence, low_snr_flag |-> low_snr_flag])
      BY <1>2 DEF Recorded
    <3> DEFINE r == [words |-> words, confidence |-> confidence, low_snr_flag |-> low_snr_flag]
    <3>2. r \in Recording
      BY DEF Recording
    <3> QED  BY <3>1, <3>2
  <2>2. recordings' \in Seq(Recording)
    BY <2>1 DEF Corpus
  <2> QED  BY <1>2, <2>2 DEF Corpus, corpusVars
<1>3. CASE UNCHANGED <<corpusVars, recordings>>
  BY <1>3 DEF Corpus, corpusVars
<1> QED  BY <1>1, <1>2, <1>3

(* The dry run's account is what the chains do. *)
LEMMA Foretold ==
    ASSUME recordings \in Seq(Recording)
    PROVE  FallbackForetold
<1> SUFFICES ASSUME NEW i \in DOMAIN recordings, NEW r, r = recordings[i],
                    NEW named, named = fallback_gating_dry_run
             PROVE  /\ transcribe_with_fallback(r.words) = "whisperx"
                         <=> i \in named.asr \/ r.words \subseteq {<<>>}
                    /\ assess_with_fallback(r.confidence, r.low_snr_flag) = "fallback_gop"
                         <=> i \in named.pronunciation \/ r.confidence = {} \/ r.low_snr_flag
  BY DEF FallbackForetold
<1>1. r \in Recording
  OBVIOUS
<1>2. /\ r.words = {} \/ \E w : r.words = {w}
      /\ r.confidence = {} \/ \E c \in Nat : r.confidence = {c}
      /\ r.low_snr_flag \in BOOLEAN
  BY <1>1, GatesAssumption DEF Recording, Raised
<1>3. transcribe_with_fallback(r.words) = "whisperx"
        <=> ~ \E words \in r.words : words # <<>> /\ ~Below(_average_confidence(words))
  BY DEF transcribe_with_fallback
<1>4. i \in named.asr <=> \E words \in r.words : words # <<>> /\ Below(_average_confidence(words))
  <2>1. i \in named.asr <=> \E average \in asr_word_confidence(r) : Below(average)
    BY DEF fallback_gating_dry_run
  <2> QED  BY <2>1 DEF asr_word_confidence
<1>5. transcribe_with_fallback(r.words) = "whisperx"
        <=> i \in named.asr \/ r.words \subseteq {<<>>}
  <2>1. CASE r.words = {}
    BY <2>1, <1>3, <1>4
  <2>2. ASSUME NEW w, r.words = {w}
        PROVE  transcribe_with_fallback(r.words) = "whisperx"
                 <=> i \in named.asr \/ r.words \subseteq {<<>>}
    <3>1. transcribe_with_fallback(r.words) = "whisperx"
            <=> w = <<>> \/ Below(_average_confidence(w))
      BY <2>2, <1>3
    <3>2. i \in named.asr <=> w # <<>> /\ Below(_average_confidence(w))
      BY <2>2, <1>4
    <3>3. r.words \subseteq {<<>>} <=> w = <<>>
      BY <2>2
    <3> QED  BY <3>1, <3>2, <3>3
  <2> QED  BY <1>2, <2>1, <2>2
<1>6. assess_with_fallback(r.confidence, r.low_snr_flag) = "fallback_gop"
        <=> i \in named.pronunciation \/ r.confidence = {} \/ r.low_snr_flag
  <2>1. i \in named.pronunciation <=> \E c \in r.confidence : c < Floor
    BY DEF fallback_gating_dry_run, pronunciation_confidence
  <2>2. assess_with_fallback(r.confidence, r.low_snr_flag) = "fallback_gop"
          <=> ~ \E c \in r.confidence : c >= Floor /\ ~r.low_snr_flag
    BY DEF assess_with_fallback
  <2> QED  BY <2>1, <2>2, <1>2, GatesAssumption
<1> QED  BY <1>5, <1>6

(* The corpus that is scored has every id once, and so each case is judged *)
(* by its own two passes.                                                  *)
LEMMA JudgedByItsOwn ==
    ASSUME Corpus, NEW i \in DOMAIN load_benchmark_corpus
    PROVE  /\ load_benchmark_corpus[i] \in Case
           /\ judged(load_benchmark_corpus, i) = load_benchmark_corpus[i].passes
<1> DEFINE corpus == load_benchmark_corpus
           id == corpus[i].case_id
           n == Len(corpus)
<1>1. /\ corpus \in Seq(Case) /\ n \in Nat /\ DOMAIN corpus = 1 .. n /\ i \in 1 .. n
      /\ \A k \in 1 .. n : corpus[k] \in Case
      /\ \A k, m \in 1 .. n : k # m => corpus[k].case_id # corpus[m].case_id
  <2>1. CASE \A k, m \in DOMAIN file : k # m => file[k].case_id # file[m].case_id
    <3>1. corpus = file
      BY <2>1 DEF load_benchmark_corpus
    <3>2. file \in Seq(Case)
      BY DEF Corpus
    <3>3. i \in DOMAIN corpus
      OBVIOUS
    <3> HIDE DEF corpus
    <3>4. corpus \in Seq(Case) /\ n \in Nat /\ DOMAIN corpus = 1 .. n
      BY <3>1, <3>2
    <3>5. \A k \in 1 .. n : corpus[k] \in Case
      BY <3>4
    <3> HIDE DEF n
    <3> QED  BY <2>1, <3>1, <3>3, <3>4, <3>5
  <2>2. CASE ~ \A k, m \in DOMAIN file : k # m => file[k].case_id # file[m].case_id
    BY <2>2 DEF load_benchmark_corpus
  <2> QED  BY <2>1, <2>2
<1> HIDE DEF corpus, n
<1>2. corpus[i].passes = <<corpus[i].passes[1], corpus[i].passes[2]>>
  <2>1. corpus[i].passes \in SomeScored \X SomeScored
    BY <1>1 DEF Case
  <2> QED  BY <2>1
<1>3. {k \in DOMAIN corpus : corpus[k].case_id = id} = {i}
  BY <1>1
<1>4. Max({i}) = i
  BY <1>1 DEF Max
<1>5. {k \in 1 .. i - 1 : corpus[k].case_id = id} = {}
  BY <1>1
<1>6. 2 * Cardinality({k \in 1 .. i - 1 : corpus[k].case_id = id}) = 0
  <2> DEFINE earlier == {k \in 1 .. i - 1 : corpus[k].case_id = id}
  <2>1. earlier = {}
    BY <1>5
  <2> HIDE DEF earlier
  <2>2. 2 * Cardinality(earlier) = 0
    BY <2>1, FS_EmptySet
  <2> QED  BY <2>2 DEF earlier
<1>7. score(corpus, id, 0) = corpus[i].passes[1] /\ score(corpus, id, 1) = corpus[i].passes[2]
  BY <1>3, <1>4 DEF score
<1>8. judged(corpus, i) = corpus[i].passes
  <2>1. CASE live
    BY <2>1 DEF judged
  <2>2. CASE ~live
    <3> DEFINE calls == 2 * Cardinality({k \in 1 .. i - 1 : corpus[k].case_id = id})
    <3>1. judged(corpus, i) = <<score(corpus, id, calls), score(corpus, id, calls + 1)>>
      BY <2>2 DEF judged
    <3>2. calls = 0 /\ calls + 1 = 1
      BY <1>6
    <3> HIDE DEF calls, id
    <3> QED  BY <3>1, <3>2, <1>7, <1>2
  <2> QED  BY <2>1, <2>2
<1> QED  BY <1>1, <1>8 DEF corpus

(* A case has whole bands from both sides. *)
LEMMA CaseTyped ==
    ASSUME NEW case \in Case
    PROVE  /\ Passes(case.passes)
           /\ DOMAIN case.human_scores = CRITERION_ORDER
           /\ \A c \in CRITERION_ORDER : case.human_scores[c] \in Nat
<1>0. \A band \in CorpusBands : band \in Nat
  BY CorpusAssumption
<1>1. case.passes[1] \in SomeScored /\ case.passes[2] \in SomeScored /\ case.human_scores \in AllScored
  BY DEF Case
<1>2. ASSUME NEW p \in SomeScored
      PROVE  DOMAIN p \in SUBSET CRITERION_ORDER /\ \A c \in DOMAIN p : p[c] \in Nat
  <2>1. PICK cs \in SUBSET CRITERION_ORDER : p \in [cs -> CorpusBands]
    BY DEF SomeScored
  <2> QED  BY <2>1, <1>0
<1>3. Passes(case.passes)
  BY <1>1, <1>2 DEF Passes
<1>4. case.human_scores \in [CRITERION_ORDER -> CorpusBands]
  BY <1>1 DEF AllScored
<1>5. DOMAIN case.human_scores = CRITERION_ORDER /\ \A c \in CRITERION_ORDER : case.human_scores[c] \in Nat
  BY <1>0, <1>4
<1> QED  BY <1>3, <1>5

(* Two passes that say what the rater says come to what the rater's bands  *)
(* come to, and nothing of it is flagged.                                  *)
LEMMA Unanimous ==
    ASSUME NEW h, DOMAIN h = CRITERION_ORDER, \A c \in CRITERION_ORDER : h[c] \in Nat
    PROVE  /\ overall_band(<<h, h>>) = Round(sum(h), Cardinality(DOMAIN h))
           /\ flagged_criteria(<<h, h>>) = {}
<1> DEFINE pair == <<h, h>>
<1>1. pair[1] = h /\ pair[2] = h
  OBVIOUS
<1> HIDE DEF pair
<1>2. Scored(pair) = CRITERION_ORDER
  BY <1>1 DEF Scored
<1>3. Passes(pair)
  BY <1>1 DEF Passes
<1>4. ASSUME NEW c \in CRITERION_ORDER PROVE final_scores(pair)[c] = h[c]
  <2>1. /\ \A lo, hi \in Int : lo <= pair[1][c] /\ lo <= pair[2][c] /\ pair[1][c] <= hi /\ pair[2][c] <= hi
             => lo <= final_scores(pair)[c] /\ final_scores(pair)[c] <= hi
        /\ final_scores(pair)[c] \in Nat
    BY <1>2, <1>3, Final
  <2>2. h[c] \in Int /\ h[c] <= h[c]
    OBVIOUS
  <2>3. h[c] <= final_scores(pair)[c] /\ final_scores(pair)[c] <= h[c]
    BY <2>1, <2>2, <1>1
  <2> QED  BY <2>1, <2>2, <2>3
<1>5. overall_band(pair) = Round(Sum(final_scores(pair), CRITERION_ORDER), Cardinality(CRITERION_ORDER))
  BY <1>2, <1>3, BandAssumption, Overall
<1>6. Sum(final_scores(pair), CRITERION_ORDER) = Sum(h, CRITERION_ORDER)
  <2>1. \A c \in CRITERION_ORDER : /\ h[c] \in Int /\ final_scores(pair)[c] \in Int
                                   /\ h[c] <= final_scores(pair)[c] /\ final_scores(pair)[c] <= h[c]
    BY <1>4
  <2> DEFINE f == final_scores(pair)
             S == CRITERION_ORDER
  <2>2. IsFiniteSet(S)
    BY BandAssumption
  <2> HIDE DEF f, S
  <2>3. Sum(f, S) <= Sum(h, S) /\ Sum(h, S) <= Sum(f, S)
    BY <2>1, <2>2, SumsCompare DEF f, S
  <2>4. Sum(f, S) \in Int /\ Sum(h, S) \in Int
    BY <2>1, <2>2, SumType DEF f, S
  <2>5. Sum(f, S) = Sum(h, S)
    BY <2>3, <2>4
  <2> QED  BY <2>5 DEF f, S
<1>7. Sum(h, CRITERION_ORDER) = sum(h)
  BY DEF Sum, sum
<1>8. flagged_criteria(pair) = {}
  <2>1. ASSUME NEW c \in CRITERION_ORDER
        PROVE  ~(c \notin Scored(pair) \/ Diff(pair[1][c], pair[2][c]) > Threshold)
    <3>1. Diff(h[c], h[c]) = 0
      BY DEF Diff
    <3>2. ~(0 > Threshold)
      BY BandAssumption
    <3> QED  BY <3>1, <3>2, <1>1, <1>2
  <2> QED  BY <2>1 DEF flagged_criteria
<1> QED  BY <1>5, <1>6, <1>7, <1>8 DEF pair

(* A report on such a corpus speaks for its cases. *)
LEMMA Speaks ==
    ASSUME Corpus
    PROVE  ReportSpeaksForItsCases
<1> DEFINE corpus == load_benchmark_corpus
           report == run_calibration
           n == Len(corpus)
           D == DOMAIN corpus
<1>1. /\ report.corpus_size = n
      /\ report.predicted = [i \in D |-> final_scores(judged(corpus, i))]
      /\ report.overall = [i \in D |->
             <<overall_band(judged(corpus, i)),
               Round(sum(corpus[i].human_scores), Cardinality(DOMAIN corpus[i].human_scores))>>]
      /\ report.flagged = {i \in D : flagged_criteria(judged(corpus, i)) # {}}
  BY DEF run_calibration
<1> DEFINE pair == [i \in D |-> judged(corpus, i)]
           V(c) == {i \in D : c \in Scored(pair[i])}
           L(c) == Those([i \in D |-> i], V(c))
<1>2. ASSUME NEW c \in CRITERION_ORDER
      PROVE  report.criteria[c]
               = [k \in DOMAIN L(c) |->
                    <<final_scores(pair[L(c)[k]])[c], corpus[L(c)[k]].human_scores[c]>>]
  BY DEF run_calibration
<1>3. n \in Nat /\ D = 1 .. n
  <2>1. CASE corpus = file
    BY <2>1 DEF Corpus
  <2>2. CASE corpus = <<>>
    BY <2>2
  <2> QED  BY <2>1, <2>2 DEF load_benchmark_corpus
<1>4. \A i \in D : corpus[i] \in Case /\ judged(corpus, i) = corpus[i].passes
  BY JudgedByItsOwn
<1> HIDE DEF corpus, report, n, D, L
<1>5. ASSUME NEW i \in D
      PROVE  /\ report.predicted[i] = final_scores(corpus[i].passes)
             /\ corpus[i].passes = <<corpus[i].human_scores, corpus[i].human_scores>>
                  => report.overall[i][1] = report.overall[i][2] /\ i \notin report.flagged
  <2>1. report.predicted[i] = final_scores(corpus[i].passes)
    BY <1>1, <1>4
  <2>2. ASSUME corpus[i].passes = <<corpus[i].human_scores, corpus[i].human_scores>>
        PROVE  report.overall[i][1] = report.overall[i][2] /\ i \notin report.flagged
    <3> DEFINE h == corpus[i].human_scores
    <3>1. DOMAIN h = CRITERION_ORDER /\ \A c \in CRITERION_ORDER : h[c] \in Nat
      BY <1>4, CaseTyped
    <3>2. judged(corpus, i) = <<h, h>>
      BY <1>4, <2>2
    <3>3. report.overall[i]
            = <<overall_band(judged(corpus, i)),
                Round(sum(h), Cardinality(DOMAIN h))>>
      BY <1>1
    <3>4. i \in report.flagged => flagged_criteria(judged(corpus, i)) # {}
      BY <1>1
    <3> HIDE DEF h
    <3>5. /\ overall_band(<<h, h>>) = Round(sum(h), Cardinality(DOMAIN h))
          /\ flagged_criteria(<<h, h>>) = {}
      BY <3>1, Unanimous
    <3> QED  BY <3>2, <3>3, <3>4, <3>5
  <2> QED  BY <2>1, <2>2
<1>6. ASSUME NEW c \in CRITERION_ORDER
      PROVE  report.corpus_size - Len(report.criteria[c]) <= Cardinality(report.flagged)
  <2> DEFINE id == [i \in D |-> i]
             missing == D \ V(c)
  <2>1. V(c) \in SUBSET (1 .. n) /\ D = 1 .. n
    BY <1>3
  <2>2. Len(L(c)) = Cardinality(V(c))
    <3> HIDE DEF V
    <3>1. Len(Those([i \in 1 .. n |-> i], V(c))) = Cardinality(V(c))
      BY <2>1, <1>3, ThosePositions
    <3> QED  BY <2>1, <3>1 DEF L
  <2>3. L(c) \in Seq(Nat)
    <3>1. id \in Seq(Nat)
      <4>1. id \in [1 .. n -> Nat]
        BY <1>3
      <4> QED  BY <4>1, <1>3
    <3> HIDE DEF id, V
    <3>2. Those(id, V(c)) \in Seq(Nat)
      BY <3>1, ThoseGrows
    <3> QED  BY <3>2 DEF L, id
  <2>4. Len(report.criteria[c]) = Len(L(c))
    <3> DEFINE m == Len(L(c))
               e(k) == <<final_scores(pair[L(c)[k]])[c], corpus[L(c)[k]].human_scores[c]>>
               s == [k \in 1 .. m |-> e(k)]
    <3>1. m \in Nat /\ DOMAIN L(c) = 1 .. m
      BY <2>3
    <3>2. report.criteria[c] = s
      <4> HIDE DEF pair
      <4> QED  BY <1>2, <3>1
    <3> HIDE DEF m, e
    <3>3. Len(s) = m
      BY <3>1
    <3> QED  BY <3>2, <3>3 DEF m
  <2>5. missing \subseteq report.flagged /\ report.flagged \subseteq D
    <3>1. ASSUME NEW i \in missing PROVE flagged_criteria(judged(corpus, i)) # {}
      <4>1. c \notin Scored(judged(corpus, i))
        OBVIOUS
      <4>2. c \in flagged_criteria(judged(corpus, i))
        BY <4>1 DEF flagged_criteria
      <4> QED  BY <4>2
    <3> QED  BY <3>1, <1>1
  <2>6. IsFiniteSet(D) /\ Cardinality(D) = n
    BY <1>3, FS_Interval
  <2>7. Cardinality(missing) = n - Cardinality(V(c)) /\ Cardinality(V(c)) \in Nat
    <3>1. V(c) \in SUBSET D
      OBVIOUS
    <3>2. IsFiniteSet(V(c))
      BY <2>6, <3>1, FS_Subset
    <3>3. Cardinality(D \ V(c)) = Cardinality(D) - Cardinality(D \cap V(c))
      BY <2>6, FS_Difference
    <3>4. D \cap V(c) = V(c)
      OBVIOUS
    <3> HIDE DEF V
    <3> QED  BY <2>6, <3>2, <3>3, <3>4, FS_CardinalityType
  <2>8. Cardinality(missing) <= Cardinality(report.flagged)
    <3>1. IsFiniteSet(report.flagged)
      BY <2>5, <2>6, FS_Subset
    <3> HIDE DEF missing
    <3> QED  BY <2>5, <3>1, FS_Subset
  <2> QED  BY <2>2, <2>4, <2>7, <2>8, <1>1, <1>3
<1>7. FallbackForetold
  BY Foretold DEF Corpus
<1>8. /\ \A i \in D :
           /\ report.predicted[i] = final_scores(corpus[i].passes)
           /\ corpus[i].passes = <<corpus[i].human_scores, corpus[i].human_scores>>
                => report.overall[i][1] = report.overall[i][2] /\ i \notin report.flagged
      /\ \A c \in CRITERION_ORDER :
           report.corpus_size - Len(report.criteria[c]) <= Cardinality(report.flagged)
  BY <1>5, <1>6
<1> QED  BY <1>7, <1>8 DEF ReportSpeaksForItsCases, corpus, report, D

(* The report speaks for its cases, over every corpus.                     *)
THEOREM CalibrationSound == CorpusSpec => []ReportSpeaksForItsCases
<1>1. CorpusInit /\ GatesInit => Corpus
  BY DEF CorpusInit, GatesInit, Corpus
<1>2. Corpus /\ [\/ CaseAdded /\ UNCHANGED recordings
                 \/ Recorded /\ UNCHANGED corpusVars]_<<corpusVars, recordings>> => Corpus'
  BY CorpusStep
<1>3. Corpus => ReportSpeaksForItsCases
  BY Speaks
<1> QED  BY <1>1, <1>2, <1>3, PTL DEF CorpusSpec

----------------------------------------------------------------------------
(* Ranks *)

(* Ranks follow the values, and add up to those of the positions.          *)
LEMMA RanksFollow ==
    ASSUME NEW n \in Nat, NEW values, DOMAIN values = 1 .. n, \A i \in 1 .. n : values[i] \in Int
    PROVE  LET ranks == _average_ranks(values) IN
             /\ DOMAIN ranks = 1 .. n
             /\ \A i, j \in 1 .. n : values[i] < values[j] <=> ranks[i] < ranks[j]
             /\ Sum(ranks, 1 .. n) = n * (n + 1)
<1> DEFINE D == 1 .. n
           order == sorted(values)
           ranks == _average_ranks(values)
           st(i) == {k \in D : values[order[k]] = values[i]}
           lo(i) == Min(st(i))
           hi(i) == Max(st(i))
<1>1. Order(values, n, order)
  BY Sorted
<1>2. /\ \A i, j \in D : order[i] = order[j] => i = j
      /\ \A i \in D : \E k \in D : order[k] = i
  <2> HIDE DEF order
  <2>1. Order(values, n, order) /\ n \in Nat /\ \A i \in 1 .. n : values[i] \in Int
    BY <1>1
  <2>2. /\ \A i, j \in 1 .. n : order[i] = order[j] => i = j
        /\ \A i \in 1 .. n : \E k \in 1 .. n : order[k] = i
    BY ONLY <2>1, OrderTakesAll
  <2> QED  BY <2>2
<1>3. ranks = [i \in D |-> lo(i) + hi(i)]
  <2>1. DOMAIN order = D
    BY <1>1 DEF Order
  <2> HIDE DEF order
  <2> QED  BY <2>1 DEF _average_ranks, order
<1>4. order \in [D -> D] /\ \A k \in D : order[k] \in D /\ values[order[k]] \in Int
  BY <1>1 DEF Order
<1>5. \A k, l \in D : k <= l => values[order[k]] <= values[order[l]]
  <2> SUFFICES ASSUME NEW k \in D, NEW l \in D, k <= l
               PROVE  values[order[k]] <= values[order[l]]
    OBVIOUS
  <2>1. values[order[k]] \in Int /\ values[order[l]] \in Int
    BY <1>4
  <2>2. k < l \/ k = l
    OBVIOUS
  <2> HIDE DEF order
  <2>3. k < l => \/ values[order[k]] < values[order[l]]
                 \/ values[order[k]] = values[order[l]]
    BY <1>1 DEF Order
  <2> DEFINE a == values[order[k]]
             b == values[order[l]]
  <2>4. a \in Int /\ b \in Int /\ (k < l => a < b \/ a = b) /\ (k = l => a = b)
    BY <2>1, <2>3
  <2> HIDE DEF a, b
  <2>5. a <= b
    BY <2>2, <2>4
  <2> QED  BY <2>5 DEF a, b
<1> HIDE DEF order
<1>6. ASSUME NEW i \in D
      PROVE  /\ lo(i) \in st(i) /\ hi(i) \in st(i) /\ lo(i) \in D /\ hi(i) \in D
             /\ \A k \in st(i) : lo(i) <= k /\ k <= hi(i)
  <2>1. st(i) # {}
    BY <1>2
  <2>2. st(i) \in SUBSET (0 .. n)
    OBVIOUS
  <2>3. lo(i) \in st(i) /\ hi(i) \in st(i) /\ \A k \in st(i) : lo(i) <= k /\ k <= hi(i)
    <3> HIDE DEF st
    <3> QED  BY <2>1, <2>2, ExtremesIn
  <2>4. st(i) \subseteq D
    OBVIOUS
  <2> QED  BY <2>3, <2>4
<1>7. ASSUME NEW i \in D, NEW j \in D, values[i] < values[j] PROVE ranks[i] < ranks[j]
  <2>1. \A k \in st(i), l \in st(j) : k < l
    <3> SUFFICES ASSUME NEW k \in st(i), NEW l \in st(j), l <= k PROVE FALSE
      OBVIOUS
    <3>1. values[order[l]] <= values[order[k]]
      BY <1>5
    <3> QED  BY <3>1, <1>7
  <2> HIDE DEF st
  <2>2. lo(i) < lo(j) /\ hi(i) < hi(j)
    BY <1>6, <2>1
  <2>3. lo(i) \in Int /\ hi(i) \in Int /\ lo(j) \in Int /\ hi(j) \in Int
    BY <1>6
  <2> HIDE DEF lo, hi, ranks
  <2> QED  BY <1>3, <2>2, <2>3
<1>8. ASSUME NEW i \in D, NEW j \in D, values[i] = values[j] PROVE ranks[i] = ranks[j]
  <2>1. st(i) = st(j)
    BY <1>8
  <2> HIDE DEF st, ranks
  <2> QED  BY <1>3, <2>1
<1>9. \A i \in D : ranks[i] \in Int
  <2> HIDE DEF ranks, lo, hi
  <2> QED  BY <1>3, <1>6
<1>10. \A i, j \in D : values[i] < values[j] <=> ranks[i] < ranks[j]
  <2> SUFFICES ASSUME NEW i \in D, NEW j \in D
               PROVE  values[i] < values[j] <=> ranks[i] < ranks[j]
    OBVIOUS
  <2>1. values[i] \in Int /\ values[j] \in Int /\ ranks[i] \in Int /\ ranks[j] \in Int
    BY <1>9
  <2> HIDE DEF ranks
  <2> QED  BY <1>7, <1>8, <2>1, SMTT(40)
<1> DEFINE f == [k \in D |-> k]
           turn == [k \in D |-> lo(order[k]) + hi(order[k]) - k]
           R == [k \in D |-> ranks[order[k]]]
<1>11. ASSUME NEW k \in D
       PROVE  /\ turn[k] \in D /\ values[order[turn[k]]] = values[order[k]]
              /\ R[k] = k + turn[k] /\ turn[turn[k]] = k
  <2> DEFINE i == order[k]
             a == lo(i)
             b == hi(i)
             t == turn[k]
  <2>1. i \in D /\ k \in st(i)
    BY <1>4
  <2>2. a \in D /\ b \in D /\ a <= k /\ k <= b /\ a \in st(i) /\ b \in st(i)
    BY <1>6, <2>1
  <2>3. t = a + b - k
    OBVIOUS
  <2>4. R[k] = a + b
    <3> HIDE DEF ranks, lo, hi
    <3> QED  BY <1>3, <2>1
  <2>5. values[order[a]] = values[i] /\ values[order[b]] = values[i]
    BY <2>2
  <2> HIDE DEF a, b, t
  <2>6. t \in D /\ a <= t /\ t <= b
    BY <2>2, <2>3
  <2>7. values[order[t]] = values[i]
    <3>1. values[order[a]] <= values[order[t]] /\ values[order[t]] <= values[order[b]]
      BY <1>5, <2>2, <2>6
    <3>2. values[order[t]] \in Int /\ values[i] \in Int
      BY <1>4, <2>1, <2>6
    <3> QED  BY <2>5, <3>1, <3>2
  <2>8. st(order[t]) = st(i)
    BY <2>7
  <2>9. turn[t] = a + b - t
    <3> HIDE DEF st
    <3> QED  BY <2>6, <2>8 DEF a, b
  <2>10. R[k] = k + t /\ turn[t] = k
    BY <2>2, <2>3, <2>4, <2>9
  <2> QED  BY <2>6, <2>7, <2>10 DEF t
<1>12. IsFiniteSet(D)
  BY FS_Interval
<1>13. Sum(R, D) = Sum(ranks, D)
  <2>1. \A k \in D : R[k] = ranks[order[k]]
    OBVIOUS
  <2> HIDE DEF R, ranks, D
  <2>2. Shuffled(R, ranks, order, D)
    BY <1>2, <1>4, <1>9, <2>1 DEF Shuffled
  <2> QED  BY <1>12, <2>2, SumShuffled
<1>14. f \in [D -> Int] /\ \A k \in D : f[k] = k /\ f[k] \in Int
  OBVIOUS
<1>15. turn \in [D -> D]
  <2>1. turn = [k \in D |-> turn[k]]
    OBVIOUS
  <2> HIDE DEF turn
  <2> QED  BY <1>11, <2>1
<1> HIDE DEF R, turn, f, ranks
<1>16. Sum(turn, D) = Sum(f, D)
  <2>1. \A k, l \in D : turn[k] = turn[l] => k = l
    BY <1>11
  <2>2. \A k \in D : \E l \in D : turn[l] = k
    BY <1>11
  <2>3. \A k \in D : turn[k] = f[turn[k]]
    BY <1>11, <1>14
  <2> HIDE DEF D
  <2>4. Shuffled(turn, f, turn, D)
    BY <1>14, <1>15, <2>1, <2>2, <2>3 DEF Shuffled
  <2> QED  BY <1>12, <2>4, SumShuffled
<1>17. Sum(R, D) = Sum(f, D) + Sum(turn, D)
  <2>1. \A k \in D : f[k] \in Int /\ turn[k] \in Int /\ R[k] = f[k] + turn[k]
    BY <1>11, <1>14
  <2> HIDE DEF D
  <2> QED  BY <1>12, <2>1, SumAdded
<1>18. Sum(f, D) \in Int
  <2> HIDE DEF D
  <2> QED  BY <1>12, <1>14, SumType
<1>19. 2 * Sum(f, D) = n * (n + 1)
  BY SumOfPositions DEF f
<1>20. Sum(ranks, D) = n * (n + 1)
  BY <1>13, <1>16, <1>17, <1>18, <1>19
<1>21. DOMAIN ranks = D
  BY <1>3
<1> QED  BY <1>10, <1>20, <1>21 DEF ranks

----------------------------------------------------------------------------
(* Agreement *)

(* A square is zero exactly where there is no difference.                  *)
LEMMA SquareIs ==
    ASSUME NEW a \in Int, NEW b \in Int
    PROVE  /\ Square(a, b) \in Nat /\ Square(a, b) = Square(b, a)
           /\ Square(a, b) = 0 <=> a = b
<1>1. \A d \in Int : d * d \in Nat /\ (d * d = 0 <=> d = 0) /\ d * d = (0 - d) * (0 - d)
  OBVIOUS
<1>2. a - b \in Int /\ b - a = 0 - (a - b) /\ (a - b = 0 <=> a = b)
  OBVIOUS
<1>3. /\ (a - b) * (a - b) \in Nat /\ ((a - b) * (a - b) = 0 <=> a = b)
      /\ (a - b) * (a - b) = (b - a) * (b - a)
  BY <1>1, <1>2
<1> QED  BY <1>3 DEF Square

(* What is added per class is what is added per value.                     *)
Classed(f, e, F, vs, n) ==
    /\ n \in Nat /\ vs \in [1 .. n -> Class] /\ \A c \in Class : F[c] \in Int
    /\ \A c \in Class : f[c] = Hist(vs)[c] * F[c]
    /\ \A k \in 1 .. n : e[k] = F[vs[k]]

(* So sums over the classes are sums over the values. *)
LEMMA PerClass ==
    ASSUME NEW n, NEW vs, NEW F, NEW f, NEW e, Classed(f, e, F, vs, n)
    PROVE  Sum(f, Class) = Sum(e, 1 .. n)
<1> USE DEF Classed
<1> DEFINE D == 1 .. n
<1>1. IsFiniteSet(D) /\ IsFiniteSet(Class)
  <2>1. IsFiniteSet(0 .. 18)
    BY 0 \in Int, 18 \in Int, FS_Interval
  <2> QED  BY <2>1, FS_Interval DEF Class
<1>2. \A c \in Class : f[c] = Cardinality({k \in D : vs[k] = c}) * F[c]
  BY DEF Hist
<1>3. Led(e, f, vs, F, D, Class)
  BY <1>2 DEF Led
<1> HIDE DEF D
<1>4. Sum(e, D) = Sum(f, Class)
  BY <1>1, <1>3, SumByImage
<1> QED  BY <1>4 DEF D

(* So it is of bands. *)
Squares(ps, gs, n) ==
    \A i, j \in 1 .. n :
       /\ Square(ps[i], gs[j]) \in Nat /\ Square(ps[i], gs[j]) \in Int
       /\ Square(ps[i], gs[j]) = Square(gs[j], ps[i])
       /\ Square(ps[i], gs[j]) = 0 <=> ps[i] = gs[j]

(* The sums of squares over pairs of bands are sums over pairs of cases.   *)
LEMMA InClass ==
    ASSUME NEW n \in Nat, NEW ps \in [1 .. n -> Class], NEW gs \in [1 .. n -> Class]
    PROVE  Squares(ps, gs, n)
<1> SUFFICES ASSUME NEW i \in 1 .. n, NEW j \in 1 .. n
             PROVE  /\ Square(ps[i], gs[j]) \in Nat /\ Square(ps[i], gs[j]) \in Int
                    /\ Square(ps[i], gs[j]) = Square(gs[j], ps[i])
                    /\ Square(ps[i], gs[j]) = 0 <=> ps[i] = gs[j]
  BY DEF Squares
<1> DEFINE a == ps[i]
           b == gs[j]
<1>1. a \in Int /\ b \in Int
  <2>1. a \in Class /\ b \in Class
    OBVIOUS
  <2> HIDE DEF a, b
  <2> QED  BY <2>1 DEF Class
<1> HIDE DEF a, b
<1>2. /\ Square(a, b) \in Nat /\ Square(a, b) = Square(b, a)
      /\ Square(a, b) = 0 <=> a = b
  BY <1>1, SquareIs
<1> QED  BY <1>2 DEF a, b

Within(ps, gs, n) == Sum([i \in 1 .. n |-> Square(ps[i], gs[i])], 1 .. n)
Across(ps, gs, n) ==
    Sum([i \in 1 .. n |-> Sum([j \in 1 .. n |-> Square(ps[i], gs[j])], 1 .. n)], 1 .. n)

(* Kappa, without classes.                                                 *)
LEMMA KappaIs ==
    ASSUME NEW n \in Nat, NEW ps \in [1 .. n -> Class], NEW gs \in [1 .. n -> Class],
           Len(ps) = n
    PROVE  quadratic_weighted_kappa(ps, gs) =
             IF Across(ps, gs, n) = 0 THEN <<>>
             ELSE <<Across(ps, gs, n) - n * Within(ps, gs, n), Across(ps, gs, n)>>
<1> DEFINE D == 1 .. n
           hp == Hist(ps)
           hg == Hist(gs)
           close == [i \in D |-> Square(ps[i], gs[i])]
           weights(i) == [j \in Class |-> hg[j] * Square(i, j)]
           expected == [i \in Class |-> sum(weights(i))]
           terms == [i \in Class |-> hp[i] * expected[i]]
           row(i) == [j \in D |-> Square(ps[i], gs[j])]
           rows == [i \in D |-> Sum(row(i), D)]
<1>1. IsFiniteSet(D) /\ \A i \in Class : i \in Int
  BY FS_Interval DEF Class
<1>2. ASSUME NEW i \in Class
      PROVE  expected[i] = Sum([j \in D |-> Square(i, gs[j])], D) /\ expected[i] \in Int
  <2> DEFINE f == weights(i)
             F == [j \in Class |-> Square(i, j)]
             e == [j \in D |-> Square(i, gs[j])]
  <2>1. expected[i] = Sum(f, Class)
    <3>1. DOMAIN f = Class /\ expected[i] = sum(f)
      OBVIOUS
    <3> HIDE DEF f
    <3> QED  BY <3>1, SumIs
  <2>2. \A c \in Class : Square(i, c) \in Int
    BY <1>1, SquareIs
  <2>3. F \in [Class -> Int] /\ \A c \in Class : f[c] = Hist(gs)[c] * F[c]
    BY <2>2
  <2>6. \A k \in 1 .. n : e[k] = F[gs[k]] /\ e[k] \in Int
    BY <2>2
  <2> HIDE DEF f, F, e, expected
  <2>4. Sum(f, Class) = Sum(e, 1 .. n)
    <3>1. Classed(f, e, F, gs, n)
      BY <2>3, <2>6 DEF Classed
    <3> QED  BY <3>1, PerClass
  <2>5. Sum(e, D) \in Int
    <3> HIDE DEF D
    <3> QED  BY <1>1, <2>6, SumType DEF D
  <2> QED  BY <2>1, <2>4, <2>5 DEF e
<1>3. sum(terms) = Across(ps, gs, n)
  <2>1. sum(terms) = Sum(terms, Class)
    <3>1. DOMAIN terms = Class
      OBVIOUS
    <3> HIDE DEF terms
    <3> QED  BY <3>1, SumIs
  <2>2. expected \in [Class -> Int] /\ \A c \in Class : terms[c] = Hist(ps)[c] * expected[c]
    <3>1. expected = [i \in Class |-> expected[i]]
      OBVIOUS
    <3> HIDE DEF expected
    <3> QED  BY <1>2, <3>1
  <2>3. \A k \in 1 .. n : rows[k] = expected[ps[k]]
    <3> SUFFICES ASSUME NEW k \in 1 .. n PROVE rows[k] = expected[ps[k]]
      OBVIOUS
    <3>1. ps[k] \in Class
      OBVIOUS
    <3> HIDE DEF expected
    <3> QED  BY <3>1, <1>2
  <2> HIDE DEF terms, rows, expected
  <2>4. Sum(terms, Class) = Sum(rows, 1 .. n)
    <3>1. Classed(terms, rows, expected, ps, n)
      BY <2>2, <2>3 DEF Classed
    <3> QED  BY <3>1, PerClass
  <2> QED  BY <2>1, <2>4 DEF Across, rows
<1>4. sum(close) = Within(ps, gs, n)
  <2>1. DOMAIN close = D
    OBVIOUS
  <2>2. sum(close) = Sum(close, D)
    <3> HIDE DEF close, D
    <3> QED  BY <2>1, SumIs
  <2> QED  BY <2>2 DEF Within
<1>5. quadratic_weighted_kappa(ps, gs) =
        IF n = 0 \/ sum(terms) = 0 THEN <<>>
        ELSE <<sum(terms) - n * sum(close), sum(terms)>>
  BY DEF quadratic_weighted_kappa
<1>6. n = 0 => Across(ps, gs, n) = 0
  <2> SUFFICES ASSUME n = 0 PROVE Across(ps, gs, n) = 0
    OBVIOUS
  <2>1. Across(ps, gs, n) = Sum(rows, {})
    BY DEF Across
  <2> QED  BY <2>1, SumOfNone
<1> HIDE DEF terms, close
<1> QED  BY <1>3, <1>4, <1>5, <1>6

(* It does not matter which side is which.                                 *)
LEMMA Symmetric ==
    ASSUME NEW n \in Nat, NEW ps \in [1 .. n -> Class], NEW gs \in [1 .. n -> Class]
    PROVE  /\ Within(ps, gs, n) = Within(gs, ps, n)
           /\ Across(ps, gs, n) = Across(gs, ps, n)
<1> DEFINE D == 1 .. n
           F == [i \in D |-> [j \in D |-> Square(ps[i], gs[j])]]
           rows == [i \in D |-> Sum([j \in D |-> Square(ps[i], gs[j])], D)]
           cols == [j \in D |-> Sum([i \in D |-> Square(gs[j], ps[i])], D)]
<1>1. IsFiniteSet(D)
  BY FS_Interval
<1>2. \A i, j \in D : /\ Square(ps[i], gs[j]) \in Int
                      /\ Square(ps[i], gs[j]) = Square(gs[j], ps[i])
  <2>1. Squares(ps, gs, n)
    BY InClass
  <2> QED  BY <2>1 DEF Squares
<1>3. [i \in D |-> Square(ps[i], gs[i])] = [i \in D |-> Square(gs[i], ps[i])]
  BY <1>2
<1>4. \A i \in D : rows[i] = Sum(F[i], D)
  OBVIOUS
<1>5. \A j \in D : cols[j] = Sum([i \in D |-> F[i][j]], D)
  <2> SUFFICES ASSUME NEW j \in D PROVE cols[j] = Sum([i \in D |-> F[i][j]], D)
    OBVIOUS
  <2>1. [i \in D |-> Square(gs[j], ps[i])] = [i \in D |-> F[i][j]]
    BY <1>2
  <2> QED  BY <2>1
<1>6. \A i, j \in D : F[i][j] \in Int
  BY <1>2
<1>8. Table(F, rows, cols, D, D)
  <2> HIDE DEF D, F, rows, cols
  <2> QED  BY <1>4, <1>5, <1>6 DEF Table
<1> HIDE DEF D, F, rows, cols
<1>7. Sum(rows, D) = Sum(cols, D)
  BY <1>1, <1>8, SumSwap
<1> QED  BY <1>3, <1>7 DEF Within, Across, D, rows, cols

(* Nothing is apart within the cases exactly where all agree.              *)
LEMMA AgreeThroughout ==
    ASSUME NEW n \in Nat, NEW ps \in [1 .. n -> Class], NEW gs \in [1 .. n -> Class]
    PROVE  /\ Within(ps, gs, n) \in Int /\ Across(ps, gs, n) \in Int
           /\ Within(ps, gs, n) = 0 <=> \A i \in 1 .. n : ps[i] = gs[i]
<1> DEFINE D == 1 .. n
           close == [i \in D |-> Square(ps[i], gs[i])]
           row(i) == [j \in D |-> Square(ps[i], gs[j])]
           rows == [i \in D |-> Sum(row(i), D)]
<1>1. IsFiniteSet(D)
  BY FS_Interval
<1>2. \A i \in D : close[i] \in Nat /\ close[i] \in Int /\ (close[i] = 0 <=> ps[i] = gs[i])
  <2>1. Squares(ps, gs, n)
    BY InClass
  <2> QED  BY <2>1 DEF Squares
<1>3. ASSUME NEW i \in D PROVE rows[i] \in Int
  <2> DEFINE r == row(i)
  <2>1. \A j \in D : r[j] \in Int
    <3>1. Squares(ps, gs, n)
      BY InClass
    <3> QED  BY <3>1 DEF Squares
  <2>2. rows[i] = Sum(r, D)
    OBVIOUS
  <2> HIDE DEF r, D, rows
  <2> QED  BY <1>1, <2>1, <2>2, SumType
<1>4. Within(ps, gs, n) = Sum(close, D) /\ Across(ps, gs, n) = Sum(rows, D)
  BY DEF Within, Across
<1> HIDE DEF D, close, rows
<1>5. Sum(close, D) \in Int /\ Sum(rows, D) \in Int
  BY <1>1, <1>2, <1>3, SumType
<1>6. ASSUME Sum(close, D) = 0, NEW i \in D PROVE close[i] = 0
  <2>1. close[i] <= Sum(close, D)
    BY <1>1, <1>2, SumAtLeast
  <2> QED  BY <1>2, <1>6, <2>1
<1>7. (\A i \in D : close[i] = 0) => Sum(close, D) = 0
  <2> SUFFICES ASSUME \A i \in D : close[i] = 0 PROVE Sum(close, D) = 0
    OBVIOUS
  <2>1. Sum(close, D) = Cardinality(D) * 0
    BY <1>1, 0 \in Int, SumOfEqual
  <2> QED  BY <2>1, <1>1, FS_CardinalityType
<1>8. Sum(close, D) = 0 <=> \A i \in D : ps[i] = gs[i]
  BY <1>2, <1>6, <1>7
<1> QED  BY <1>4, <1>5, <1>8 DEF D

Series == series \in Seq(Bands \X Bands)

(* For two series of bands the agreement is what it is called. *)
LEMMA Measured == Series => AgreementMeasured
<1> SUFFICES ASSUME Series PROVE AgreementMeasured
  OBVIOUS
<1> DEFINE n == Len(series)
           D == 1 .. n
           ranks == _average_ranks(preds)
           across == sum([i \in D |-> sum([j \in D |-> Square(preds[i], golds[j])])])
           within == sum([i \in D |-> Square(preds[i], golds[i])])
           kappa == quadratic_weighted_kappa(preds, golds)
<1>1. n \in Nat /\ DOMAIN series = D /\ Bands \subseteq Class
  BY BandAssumption DEF Series, Class
<1>2. /\ preds \in [D -> Class] /\ golds \in [D -> Class]
      /\ preds \in Seq(Class) /\ golds \in Seq(Class) /\ Len(preds) = n /\ Len(golds) = n
  BY <1>1 DEF Series, preds, golds
<1>3. \A i \in D : /\ preds[i] \in Class /\ golds[i] \in Class
                   /\ preds[i] \in Int /\ golds[i] \in Int
  BY <1>2 DEF Class
<1>4. across = Across(preds, golds, n)
  <2> DEFINE row(i) == [j \in D |-> Square(preds[i], golds[j])]
             rows == [i \in D |-> sum(row(i))]
  <2>1. \A i \in D : sum(row(i)) = Sum(row(i), D)
    <3> SUFFICES ASSUME NEW i \in D PROVE sum(row(i)) = Sum(row(i), D)
      OBVIOUS
    <3>1. DOMAIN row(i) = D
      OBVIOUS
    <3> HIDE DEF row
    <3> QED  BY <3>1, SumIs
  <2>2. rows = [i \in D |-> Sum(row(i), D)]
    BY <2>1
  <2>3. sum(rows) = Sum(rows, D)
    <3>1. DOMAIN rows = D
      OBVIOUS
    <3> HIDE DEF rows
    <3> QED  BY <3>1, SumIs
  <2>4. across = sum(rows)
    OBVIOUS
  <2> HIDE DEF rows, across
  <2> QED  BY <2>2, <2>3, <2>4 DEF Across
<1>5. within = Within(preds, golds, n)
  <2> DEFINE close == [i \in D |-> Square(preds[i], golds[i])]
  <2>1. DOMAIN close = D
    OBVIOUS
  <2>2. sum(close) = Sum(close, D)
    <3> HIDE DEF close, D
    <3> QED  BY <2>1, SumIs
  <2> QED  BY <2>2 DEF Within
<1>6. kappa = IF across = 0 THEN <<>> ELSE <<across - n * within, across>>
  <2> HIDE DEF n, across, within
  <2> QED  BY <1>1, <1>2, <1>4, <1>5, KappaIs
<1>7. quadratic_weighted_kappa(golds, preds) = kappa
  <2> HIDE DEF n, across, within
  <2>1. quadratic_weighted_kappa(golds, preds) =
          IF Across(golds, preds, n) = 0 THEN <<>>
          ELSE <<Across(golds, preds, n) - n * Within(golds, preds, n), Across(golds, preds, n)>>
    BY <1>1, <1>2, KappaIs
  <2>2. Across(golds, preds, n) = across /\ Within(golds, preds, n) = within
    BY <1>1, <1>2, <1>4, <1>5, Symmetric
  <2> HIDE DEF kappa
  <2> QED  BY <2>1, <2>2, <1>6
<1>8. /\ DOMAIN ranks = D
      /\ \A i, j \in D : preds[i] < preds[j] <=> ranks[i] < ranks[j]
      /\ Sum(ranks, D) = n * (n + 1)
  <2>1. DOMAIN preds = D /\ \A i \in 1 .. n : preds[i] \in Int
    BY <1>2, <1>3
  <2> HIDE DEF n
  <2> QED  BY <1>1, <2>1, RanksFollow
<1>9. sum(ranks) = n * (n + 1)
  <2> HIDE DEF ranks, D
  <2> QED  BY <1>8, SumIs
<1>10. agreement(0) = n <=> \A i \in D : preds[i] = golds[i]
  <2> DEFINE same == {i \in D : Diff(preds[i], golds[i]) <= 0}
  <2>1. \A i \in D : Diff(preds[i], golds[i]) <= 0 <=> preds[i] = golds[i]
    <3> SUFFICES ASSUME NEW i \in D
                 PROVE  Diff(preds[i], golds[i]) <= 0 <=> preds[i] = golds[i]
      OBVIOUS
    <3> DEFINE a == preds[i]
               b == golds[i]
    <3>1. a \in Int /\ b \in Int
      BY <1>3
    <3> HIDE DEF a, b
    <3>2. Diff(a, b) <= 0 <=> a = b
      BY <3>1 DEF Diff
    <3> QED  BY <3>2 DEF a, b
  <2>2. agreement(0) = Cardinality(same)
    BY <1>1 DEF agreement
  <2>3. IsFiniteSet(D) /\ Cardinality(D) = n /\ same \subseteq D
    <3>1. same \subseteq D
      OBVIOUS
    <3> HIDE DEF n, same
    <3>2. IsFiniteSet(1 .. n) /\ Cardinality(1 .. n) = n
      BY <1>1, FS_Interval
    <3> QED  BY <3>1, <3>2
  <2>4. Cardinality(same) = n <=> same = D
    <3> HIDE DEF same, D, n
    <3> QED  BY <2>3, FS_Subset
  <2> QED  BY <2>1, <2>2, <2>4
<1>11. /\ across \in Int /\ within \in Int
       /\ within = 0 <=> \A i \in D : preds[i] = golds[i]
  <2> HIDE DEF n, across, within
  <2> QED  BY <1>1, <1>2, <1>4, <1>5, AgreeThroughout
<1>12. kappa # <<>> => (kappa[1] = kappa[2] <=> agreement(0) = n)
  <2> SUFFICES ASSUME kappa # <<>> PROVE kappa[1] = kappa[2] <=> agreement(0) = n
    OBVIOUS
  <2>1. across # 0
    BY <1>6
  <2>2. n # 0
    <3> SUFFICES ASSUME n = 0 PROVE FALSE
      OBVIOUS
    <3>1. D = {}
      OBVIOUS
    <3> DEFINE rows == [i \in D |-> sum([j \in D |-> Square(preds[i], golds[j])])]
    <3>2. DOMAIN rows = {} /\ across = sum(rows)
      BY <3>1
    <3> HIDE DEF rows, across
    <3>3. across = 0
      BY <3>2, SumIs, SumOfNone
    <3> QED  BY <3>3, <2>1
  <2>3. kappa[1] = across - n * within /\ kappa[2] = across
    BY <1>6, <2>1
  <2> HIDE DEF kappa, across, within, n
  <2>4. n * within = 0 <=> within = 0
    BY <1>1, <1>11, <2>2
  <2>5. n * within \in Int
    BY <1>1, <1>11
  <2>6. kappa[1] = kappa[2] <=> within = 0
    BY <1>11, <2>3, <2>4, <2>5
  <2> QED  BY <2>6, <1>10, <1>11 DEF D
<1>13. n * within = n * sum([i \in D |-> Square(preds[i], golds[i])])
  OBVIOUS
<1> HIDE DEF kappa, ranks, across
<1> QED  BY <1>6, <1>7, <1>8, <1>9, <1>12, <1>13 DEF AgreementMeasured, kappa, ranks, across

(* The agreement with the raters is what it is called, whatever the bands. *)
THEOREM AgreementSound == BandSpec => []AgreementMeasured
<1>1. BandInit => Series
  BY DEF BandInit, Series
<1>2. Series /\ [BandNext]_bandVars => Series'
  <2> SUFFICES ASSUME Series, [BandNext]_bandVars PROVE Series'
    OBVIOUS
  <2>1. CASE Judged
    BY <2>1 DEF Judged, Series
  <2>2. CASE Compared
    <3>1. PICK p \in Bands, g \in Bands : series' = Append(series, <<p, g>>)
      BY <2>2 DEF Compared
    <3> QED  BY <3>1 DEF Series
  <2>3. CASE UNCHANGED bandVars
    BY <2>3 DEF bandVars, Series
  <2> QED  BY <2>1, <2>2, <2>3 DEF BandNext
<1> QED  BY <1>1, <1>2, Measured, PTL DEF BandSpec

----------------------------------------------------------------------------
(* Runs and chunks *)

(* What segment_into_utterances makes of a word w after v. *)
Break(chunks, v, w, threshold) ==
    IF w.turn # v.turn \/ w.start - v.end >= threshold
    THEN Append(chunks, <<w>>)
    ELSE [chunks EXCEPT ![Len(chunks)] = Append(@, w)]

(* It makes chunks of chunks. *)
LEMMA BreakType ==
    ASSUME NEW A, NEW chunks \in Seq(Seq(A)), NEW v, NEW w \in A, NEW threshold
    PROVE  Break(chunks, v, w, threshold) \in Seq(Seq(A))
<1>1. Append(chunks, <<w>>) \in Seq(Seq(A))
  <2>1. <<w>> \in Seq(A)
    OBVIOUS
  <2> QED  BY <2>1
<1>2. [chunks EXCEPT ![Len(chunks)] = Append(@, w)] \in Seq(Seq(A))
  <2> DEFINE n == Len(chunks)
             B == Seq(A)
             r == [chunks EXCEPT ![n] = Append(@, w)]
  <2>1. n \in Nat /\ chunks \in [1 .. n -> B]
    OBVIOUS
  <2>2. \A c \in B : Append(c, w) \in B
    OBVIOUS
  <2> HIDE DEF n, B
  <2>3. r \in [1 .. n -> B]
    <3>1. CASE n = 0
      <4>1. 1 .. n = {}
        BY <3>1
      <4> QED  BY <2>1, <4>1
    <3>2. CASE n # 0
      <4>1. n \in 1 .. n /\ chunks[n] \in B
        BY <3>2, <2>1
      <4> QED  BY <2>1, <2>2, <4>1
    <3> QED  BY <3>1, <3>2
  <2>4. r \in Seq(B)
    <3> HIDE DEF r
    <3> QED  BY <2>1, <2>3
  <2> QED  BY <2>4 DEF n, B
<1> QED  BY <1>1, <1>2 DEF Break

IsSegmenting(g, n, ws, threshold, A) ==
    /\ g \in [0 .. n -> Seq(Seq(A))] /\ g[0] = << <<ws[1]>> >>
    /\ g[n] = segment_into_utterances(ws, threshold)
    /\ \A k \in 1 .. n : g[k] = Break(g[k - 1], ws[k], ws[k + 1], threshold)

(* It goes through the words one after the other.                          *)
LEMMA SegmentUnrolled ==
    ASSUME NEW A, NEW ws \in Seq(A), NEW n \in Nat, Len(ws) = n + 1, NEW threshold
    PROVE  \E g : IsSegmenting(g, n, ws, threshold, A)
<1> DEFINE D == 1 .. n
           B == Seq(Seq(A))
           base == << <<ws[1]>> >>
           step(chunks, k) ==
             IF NewTurn(ws, k) \/ Gap(ws, k) >= threshold
             THEN Append(chunks, <<ws[k + 1]>>)
             ELSE [chunks EXCEPT ![Len(chunks)] = Append(@, ws[k + 1])]
           Eq(F) == F = [t \in SUBSET D |->
                           IF t = {} THEN base ELSE step(F[t \ {Max(t)}], Max(t))]
           F == CHOOSE f : Eq(f)
<1>0. /\ Len(ws) - 1 = n /\ IsFiniteSet(D) /\ ws # <<>>
      /\ \A k \in 1 .. n + 1 : ws[k] \in A
  <2>1. Len(ws) - 1 = n /\ ws # <<>> /\ \A k \in 1 .. n + 1 : ws[k] \in A
    OBVIOUS
  <2> QED  BY <2>1, FS_Interval
<1>1. \A chunks, k : step(chunks, k) = Break(chunks, ws[k], ws[k + 1], threshold)
  BY DEF Break, NewTurn, Gap
<1>2. \A t \in SUBSET D : t # {} => Max(t) \in t
  BY MaxIn
<1>3. segment_into_utterances(ws, threshold) = F[D]
  <2> DEFINE id == [k \in 1 .. Len(ws) - 1 |-> k]
             Id(F0) == F0 = [t \in SUBSET DOMAIN id |->
                           IF t = {} THEN IF ws = <<>> THEN <<>> ELSE base
                           ELSE step(F0[t \ {Max(t)}], id[Max(t)])]
             F1 == CHOOSE f : Id(f)
  <2>1. segment_into_utterances(ws, threshold) = F1[DOMAIN id]
    BY DEF segment_into_utterances, FoldLeft, MapThenFoldSet
  <2>2. DOMAIN id = D
    BY <1>0
  <2>3. ASSUME NEW F0 PROVE Id(F0) <=> Eq(F0)
    <3>1. \A t \in SUBSET D : t # {} => id[Max(t)] = Max(t)
      BY <1>2, <2>2
    <3> HIDE DEF id, D, step, base
    <3> QED  BY <3>1, <2>2, <1>0
  <2>4. F1 = F
    <3> HIDE DEF Id, Eq
    <3> QED  BY <2>3
  <2> HIDE DEF F1, F
  <2> QED  BY <2>1, <2>2, <2>4
<1> HIDE DEF step
<1>4. base \in B /\ \A chunks \in B : \A k \in D : step(chunks, k) \in B
  <2>1. base \in B
    <3>1. ws[1] \in A
      BY <1>0
    <3>2. <<ws[1]>> \in Seq(A)
      BY <3>1
    <3> QED  BY <3>2
  <2>2. ASSUME NEW chunks \in B, NEW k \in D PROVE step(chunks, k) \in B
    <3>1. ws[k + 1] \in A
      BY <1>0
    <3> QED  BY <3>1, <1>1, BreakType
  <2> HIDE DEF B
  <2> QED  BY <2>1, <2>2
<1>5. \E f : Eq(f)
  <2> DEFINE pick == [t \in SUBSET D |-> Max(t)]
             op == [p \in D \X B |-> step(p[2], p[1])]
  <2>1. Folds(op, base, D, B) /\ Picks(pick, D)
    <3>1. op \in [D \X B -> B]
      <4> HIDE DEF D, B
      <4> QED  BY <1>4
    <3>2. Picks(pick, D)
      BY <1>2 DEF Picks
    <3> QED  BY <1>4, <3>1, <3>2 DEF Folds
  <2>2. PICK g : IsFold(g, D, B, base, op, pick)
    <3> HIDE DEF pick, op, D, B, base
    <3> QED  BY <1>0, <2>1, FoldDefined
  <2>3. ASSUME NEW t \in SUBSET D, t # {}
        PROVE  op[<<pick[t], g[t \ {pick[t]}]>>] = step(g[t \ {Max(t)}], Max(t))
    <3>1. Max(t) \in D /\ t \ {Max(t)} \in SUBSET D
      BY <1>2, <2>3
    <3> HIDE DEF B
    <3> QED  BY <3>1, <2>2 DEF IsFold
  <2>4. \A t \in SUBSET D : g[t] = IF t = {} THEN base ELSE step(g[t \ {Max(t)}], Max(t))
    <3> HIDE DEF B, op, base
    <3> QED  BY <2>2, <2>3 DEF IsFold
  <2>5. Eq(g)
    <3>1. g \in [SUBSET D -> B]
      BY <2>2 DEF IsFold
    <3> HIDE DEF B, base
    <3> QED  BY <3>1, <2>4
  <2> QED  BY <2>5
<1>6. Eq(F)
  <2> HIDE DEF Eq
  <2> QED  BY <1>5
<1>7. F[{}] = base /\ \A k \in D : F[1 .. k] = step(F[1 .. k - 1], k)
  <2>1. ASSUME NEW k \in D PROVE F[1 .. k] = step(F[1 .. k - 1], k)
    <3>1. (1 .. k) \in SUBSET D /\ (1 .. k) # {} /\ Max(1 .. k) = k /\ (1 .. k) \ {k} = 1 .. k - 1
      <4>1. k \in Nat /\ k # 0
        OBVIOUS
      <4>2. Max(1 .. k) = k /\ (1 .. k) \ {k} = 1 .. k - 1
        BY <4>1, MaxTo
      <4>3. (1 .. k) \in SUBSET D /\ 1 \in 1 .. k
        BY <4>1
      <4> QED  BY <4>2, <4>3
    <3> HIDE DEF F
    <3> QED  BY <1>6, <3>1
  <2> HIDE DEF F
  <2> QED  BY <1>6, <2>1
<1> DEFINE g == [k \in 0 .. n |-> F[1 .. k]]
<1>8. \A k \in 0 .. n : F[1 .. k] \in B
  <2> HIDE DEF F, B
  <2>1. \A k \in D : F[1 .. k - 1] \in B => F[1 .. k] \in B
    BY <1>4, <1>7
  <2>2. F[{}] \in B
    BY <1>4, <1>7
  <2> QED  BY ONLY <2>1, <2>2, n \in Nat, Running
<1>9. /\ g[0] = base /\ g[n] = segment_into_utterances(ws, threshold)
      /\ \A k \in 1 .. n : g[k] = step(g[k - 1], k)
  <2> HIDE DEF F, base
  <2> QED  BY <1>3, <1>7
<1> HIDE DEF F, g, B
<1>10. g \in [0 .. n -> B]
  BY <1>8 DEF g
<1>11. \A k \in 1 .. n : g[k] = Break(g[k - 1], ws[k], ws[k + 1], threshold)
  BY <1>1, <1>9
<1> QED  BY <1>9, <1>10, <1>11 DEF IsSegmenting, B

(* So a word more is a step more.                                          *)
Segmenting(s, w, threshold) ==
    segment_into_utterances(Append(s, w), threshold) =
      IF s = <<>> THEN << <<w>> >>
      ELSE Break(segment_into_utterances(s, threshold), s[Len(s)], w, threshold)

(* The chunks of a longer sequence are made from those of the shorter. *)
LEMMA SegmentGrows ==
    ASSUME NEW A, NEW threshold
    PROVE  /\ segment_into_utterances(<<>>, threshold) = <<>>
           /\ \A s \in Seq(A) : segment_into_utterances(s, threshold) \in Seq(Seq(A))
           /\ \A s \in Seq(A) : \A w \in A : Segmenting(s, w, threshold)
<1> DEFINE seg(s) == segment_into_utterances(s, threshold)
<1>1. seg(<<>>) = <<>>
  <2> DEFINE id == [k \in 1 .. Len(<<>>) - 1 |-> k]
             step(chunks, k) ==
               IF NewTurn(<<>>, k) \/ Gap(<<>>, k) >= threshold
               THEN Append(chunks, << <<>>[k + 1] >>)
               ELSE [chunks EXCEPT ![Len(chunks)] = Append(@, <<>>[k + 1])]
             Id(F0) == F0 = [t \in SUBSET DOMAIN id |->
                           IF t = {} THEN <<>> ELSE step(F0[t \ {Max(t)}], id[Max(t)])]
             F1 == CHOOSE f : Id(f)
  <2>1. seg(<<>>) = F1[DOMAIN id]
    BY DEF segment_into_utterances, FoldLeft, MapThenFoldSet
  <2>2. DOMAIN id = {}
    OBVIOUS
  <2>3. Id([t \in SUBSET {} |-> <<>>])
    <3> HIDE DEF step
    <3> QED  BY <2>2
  <2>4. Id(F1)
    <3> HIDE DEF Id
    <3> QED  BY <2>3
  <2>5. F1[{}] = <<>>
    <3> HIDE DEF F1, step
    <3> QED  BY <2>2, <2>4
  <2> HIDE DEF F1
  <2> QED  BY <2>1, <2>2, <2>5
<1>2. ASSUME NEW s \in Seq(A) PROVE seg(s) \in Seq(Seq(A))
  <2>1. CASE s = <<>>
    <3>1. <<>> \in Seq(Seq(A))
      OBVIOUS
    <3> HIDE DEF seg
    <3> QED  BY <1>1, <2>1, <3>1
  <2>2. CASE s # <<>>
    <3>1. Len(s) - 1 \in Nat /\ Len(s) = (Len(s) - 1) + 1
      BY <2>2
    <3>2. PICK g : IsSegmenting(g, Len(s) - 1, s, threshold, A)
      <4> DEFINE m == Len(s) - 1
      <4>1. m \in Nat /\ Len(s) = m + 1
        BY <3>1
      <4> HIDE DEF m
      <4>2. \E g : IsSegmenting(g, m, s, threshold, A)
        BY <4>1, SegmentUnrolled
      <4> QED  BY <4>2 DEF m
    <3>3. Len(s) - 1 \in 0 .. Len(s) - 1
      BY <3>1
    <3> QED  BY <3>2, <3>3 DEF IsSegmenting
  <2> QED  BY <2>1, <2>2
<1>3. ASSUME NEW s \in Seq(A), NEW w \in A PROVE Segmenting(s, w, threshold)
  <2> DEFINE n == Len(s)
             r == Append(s, w)
  <2>1. /\ n \in Nat /\ r \in Seq(A) /\ Len(r) = n + 1 /\ r[n + 1] = w
        /\ \A k \in 1 .. n : r[k] = s[k]
    BY Appended
  <2>2. s = <<>> <=> n = 0
    OBVIOUS
  <2> HIDE DEF n, r
  <2>3. PICK h : IsSegmenting(h, n, r, threshold, A)
    BY <2>1, SegmentUnrolled
  <2>4. CASE n = 0
    <3>1. seg(r) = << <<r[1]>> >>
      BY <2>3, <2>4 DEF IsSegmenting
    <3> QED  BY <3>1, <2>1, <2>2, <2>4 DEF Segmenting, r
  <2>5. CASE n # 0
    <3> DEFINE m == n - 1
    <3>1. m \in Nat /\ n = m + 1 /\ Len(s) = m + 1
      BY <2>1, <2>5 DEF n
    <3> HIDE DEF m
    <3>2. PICK g : IsSegmenting(g, m, s, threshold, A)
      BY <3>1, SegmentUnrolled
    <3> DEFINE T == {k \in 0 .. m : h[k] = g[k]}
    <3>3. 0 \in T
      <4>1. r[1] = s[1]
        BY <2>1, <3>1
      <4>2. h[0] = << <<r[1]>> >> /\ g[0] = << <<s[1]>> >>
        BY <3>2, <2>3 DEF IsSegmenting
      <4>3. 0 \in 0 .. m
        BY <3>1
      <4> QED  BY <4>1, <4>2, <4>3
    <3>4. ASSUME NEW k \in 0 .. m - 1, k \in T PROVE k + 1 \in T
      <4>1. /\ k + 1 \in 1 .. m /\ k + 1 \in 1 .. n /\ (k + 1) - 1 = k
            /\ k + 1 \in 0 .. m /\ (k + 1) + 1 \in 1 .. n
        BY <3>1
      <4>2. r[k + 1] = s[k + 1] /\ r[(k + 1) + 1] = s[(k + 1) + 1]
        BY <4>1, <2>1
      <4>3. /\ h[k + 1] = Break(h[k], r[k + 1], r[(k + 1) + 1], threshold)
            /\ g[k + 1] = Break(g[k], s[k + 1], s[(k + 1) + 1], threshold)
        BY <4>1, <2>3, <3>2 DEF IsSegmenting
      <4>4. h[k] = g[k]
        BY <3>4
      <4>5. h[k + 1] = g[k + 1]
        BY <4>2, <4>3, <4>4
      <4> QED  BY <4>1, <4>5
    <3> HIDE DEF T
    <3>5. \A k \in 0 .. m : k \in T
      BY <3>1, <3>3, <3>4, CountingTo
    <3>6. h[m] = g[m]
      <4>1. m \in T
        BY <3>1, <3>5
      <4> QED  BY <4>1 DEF T
    <3>7. n \in 1 .. n /\ n - 1 = m
      BY <3>1
    <3>8. seg(r) = Break(seg(s), s[n], w, threshold)
      <4>1. h[n] = Break(h[n - 1], r[n], r[n + 1], threshold)
        BY <2>3, <3>7 DEF IsSegmenting
      <4>2. h[n] = seg(r) /\ g[m] = seg(s)
        BY <2>3, <3>2 DEF IsSegmenting
      <4>3. r[n] = s[n] /\ r[n + 1] = w
        BY <2>1, <3>7
      <4> QED  BY <4>1, <4>2, <4>3, <3>6, <3>7
    <3> QED  BY <3>8, <2>2, <2>5 DEF Segmenting, r, n
  <2> QED  BY <2>4, <2>5
<1> QED  BY <1>1, <1>2, <1>3

(* There is a last chunk, and a word more goes into it.                    *)
Ends(cs, w, front, last, A) ==
    /\ front \in Seq(Seq(A)) /\ last \in Seq(A) /\ cs = Append(front, last)
    /\ [cs EXCEPT ![Len(cs)] = Append(@, w)] = Append(front, Append(last, w))

(* Every non-empty sequence of chunks has such an end. *)
LEMMA BreakLast ==
    ASSUME NEW A, NEW cs \in Seq(Seq(A)), cs # <<>>, NEW w \in A
    PROVE  \E front, last : Ends(cs, w, front, last, A)
<1> DEFINE n == Len(cs)
           B == Seq(A)
           front == [k \in 1 .. n - 1 |-> cs[k]]
           last == cs[n]
<1>1. n \in Nat /\ n # 0 /\ last \in B /\ Append(last, w) \in B
  <2>1. n \in Nat /\ n # 0 /\ last \in B
    OBVIOUS
  <2> QED  BY <2>1
<1> HIDE DEF B
<1>2. n - 1 \in Nat /\ \A k \in 1 .. n - 1 : k \in 1 .. n /\ cs[k] \in B
  BY <1>1 DEF B
<1>3. front \in Seq(B) /\ Len(front) = n - 1
  BY <1>2
<1>4. cs = Append(front, last)
  BY <1>1, <1>3, SMTT(40) DEF B
<1>5. [cs EXCEPT ![n] = Append(@, w)] = Append(front, Append(last, w))
  <2> DEFINE e == [cs EXCEPT ![n] = Append(@, w)]
             f == Append(front, Append(last, w))
             m == n - 1
  <2>1. /\ f \in Seq(B) /\ Len(f) = m + 1 /\ f[m + 1] = Append(last, w)
        /\ \A k \in 1 .. m : f[k] = front[k]
    BY <1>1, <1>3, Appended
  <2>2. m + 1 = n /\ DOMAIN f = 1 .. n /\ f = [k \in 1 .. n |-> f[k]]
    <3>1. m + 1 = n
      BY <1>1
    <3> HIDE DEF m, f
    <3> QED  BY <2>1, <3>1
  <2>3. e = [k \in 1 .. n |-> IF k = n THEN Append(last, w) ELSE cs[k]]
    BY DEF B
  <2>4. \A k \in 1 .. n : f[k] = IF k = n THEN Append(last, w) ELSE cs[k]
    <3> SUFFICES ASSUME NEW k \in 1 .. n
                 PROVE  f[k] = IF k = n THEN Append(last, w) ELSE cs[k]
      OBVIOUS
    <3>1. CASE k = n
      <4> HIDE DEF f, last
      <4> QED  BY <3>1, <2>1, <2>2
    <3>2. CASE k # n
      <4>1. k \in 1 .. m
        BY <3>2, <1>1
      <4>2. front[k] = cs[k]
        BY <4>1
      <4> HIDE DEF f, front, m
      <4> QED  BY <3>2, <4>1, <4>2, <2>1
    <3> QED  BY <3>1, <3>2
  <2> HIDE DEF e, f
  <2> QED  BY <2>2, <2>3, <2>4 DEF e, f
<1> HIDE DEF front, last
<1>6. Ends(cs, w, front, last, A)
  BY <1>1, <1>3, <1>4, <1>5 DEF B, Ends
<1> QED  BY <1>6

----------------------------------------------------------------------------
(* What runs and chunks are made of *)

(* Whether a word w after v is in another chunk.                           *)
Cut(v, w, threshold) == IF w.turn # v.turn \/ w.start - v.end >= threshold THEN 1 ELSE 0

(* A break adds the word, and at most a chunk; *)
Broken(cs, v, w, threshold) ==
    /\ Break(cs, v, w, threshold) # <<>>
    /\ FlattenSeq(Break(cs, v, w, threshold)) = Append(FlattenSeq(cs), w)
    /\ Len(Break(cs, v, w, threshold)) = Len(cs) + Cut(v, w, threshold)

(* Every break does. *)
LEMMA BreakAdds ==
    ASSUME NEW A, NEW cs \in Seq(Seq(A)), cs # <<>>, NEW v, NEW w \in A, NEW threshold
    PROVE  Broken(cs, v, w, threshold)
<1> DEFINE b == Break(cs, v, w, threshold)
           B == Seq(A)
           flat == FlattenSeq(cs)
<1>1. CASE w.turn # v.turn \/ w.start - v.end >= threshold
  <2>1. b = Append(cs, <<w>>) /\ <<w>> \in B /\ Cut(v, w, threshold) = 1
    BY <1>1 DEF Break, Cut
  <2>2. b # <<>> /\ Len(b) = Len(cs) + 1
    <3> HIDE DEF b, B
    <3>1. cs \in Seq(B)
      BY DEF B
    <3> QED  BY <3>1, <2>1, Appended
  <2>3. FlattenSeq(b) = flat \o <<w>> /\ flat \in Seq(A)
    <3> HIDE DEF b
    <3> QED  BY <2>1, FlattenGrows
  <2>4. flat \o <<w>> = Append(flat, w)
    <3> HIDE DEF flat
    <3> QED  BY <2>3
  <2> QED  BY <2>1, <2>2, <2>3, <2>4 DEF Broken
<1>2. CASE ~(w.turn # v.turn \/ w.start - v.end >= threshold)
  <2>0. PICK front, last : Ends(cs, w, front, last, A)
    BY BreakLast
  <2>1. /\ front \in Seq(B) /\ last \in B /\ cs = Append(front, last)
        /\ [cs EXCEPT ![Len(cs)] = Append(@, w)] = Append(front, Append(last, w))
    BY <2>0 DEF Ends
  <2>2. Append(last, w) \in B
    BY <2>1
  <2>3. b = Append(front, Append(last, w)) /\ Cut(v, w, threshold) = 0
    BY <1>2, <2>1 DEF Break, Cut
  <2>4. b # <<>> /\ Len(b) = Len(front) + 1 /\ Len(cs) = Len(front) + 1 /\ Len(front) \in Nat
    <3> HIDE DEF b, B
    <3> QED  BY <2>1, <2>2, <2>3, Appended
  <2>5. /\ FlattenSeq(b) = FlattenSeq(front) \o Append(last, w)
        /\ flat = FlattenSeq(front) \o last /\ FlattenSeq(front) \in Seq(A)
    <3>1. front \in Seq(Seq(A)) /\ last \in Seq(A) /\ Append(last, w) \in Seq(A)
      BY <2>1, <2>2
    <3>2. /\ FlattenSeq(Append(front, Append(last, w))) = FlattenSeq(front) \o Append(last, w)
          /\ FlattenSeq(Append(front, last)) = FlattenSeq(front) \o last
          /\ FlattenSeq(front) \in Seq(A)
      <4> HIDE DEF b, B, flat
      <4> QED  BY ONLY <3>1, FlattenGrows
    <3> HIDE DEF b, B
    <3> QED  BY <3>2, <2>1, <2>3
  <2>6. FlattenSeq(front) \o Append(last, w) = Append(flat, w)
    <3> HIDE DEF flat, b
    <3> QED  BY <2>5, Joined
  <2> QED  BY <2>3, <2>4, <2>5, <2>6 DEF Broken
<1> QED  BY <1>1, <1>2

(* and is made at the end, whatever is before.                             *)
BrokenAfter(ds, cs, v, w, threshold) ==
    ds \o Break(cs, v, w, threshold) = Break(ds \o cs, v, w, threshold)

(* Every break is. *)
LEMMA BreakAtEnd ==
    ASSUME NEW A, NEW ds \in Seq(Seq(A)), NEW cs \in Seq(Seq(A)), cs # <<>>,
           NEW v, NEW w \in A, NEW threshold
    PROVE  BrokenAfter(ds, cs, v, w, threshold)
<1> DEFINE B == Seq(A)
           all == ds \o cs
<1>0. <<w>> \in B /\ all \in Seq(B) /\ all # <<>>
  <2>1. <<w>> \in B
    OBVIOUS
  <2> HIDE DEF B
  <2>2. ds \in Seq(B) /\ cs \in Seq(B)
    BY DEF B
  <2> QED  BY <2>1, <2>2
<1>1. CASE w.turn # v.turn \/ w.start - v.end >= threshold
  <2>1. ds \o Append(cs, <<w>>) = Append(all, <<w>>)
    <3> HIDE DEF B
    <3>1. ds \in Seq(B) /\ cs \in Seq(B)
      BY DEF B
    <3> QED  BY <3>1, <1>0, Joined
  <2> QED  BY <1>1, <2>1 DEF Break, BrokenAfter
<1>2. CASE ~(w.turn # v.turn \/ w.start - v.end >= threshold)
  <2>0. PICK front, last : Ends(cs, w, front, last, A)
    BY BreakLast
  <2>1. /\ front \in Seq(B) /\ last \in B /\ cs = Append(front, last)
        /\ [cs EXCEPT ![Len(cs)] = Append(@, w)] = Append(front, Append(last, w))
    BY <2>0 DEF Ends
  <2>9. PICK front2, last2 : Ends(all, w, front2, last2, A)
    <3> HIDE DEF all
    <3> QED  BY <1>0, BreakLast
  <2>2. /\ front2 \in Seq(B) /\ last2 \in B /\ all = Append(front2, last2)
        /\ [all EXCEPT ![Len(all)] = Append(@, w)] = Append(front2, Append(last2, w))
    BY <2>9 DEF Ends
  <2>3. Append(last, w) \in B
    BY <2>1
  <2>4. ds \o front \in Seq(B) /\ all = Append(ds \o front, last)
        /\ ds \o Append(front, Append(last, w)) = Append(ds \o front, Append(last, w))
    <3>1. ds \in Seq(B)
      OBVIOUS
    <3>2. \A f \in Seq(B), x \in B : ds \o Append(f, x) = Append(ds \o f, x)
      <4> HIDE DEF B
      <4> QED  BY <3>1
    <3>3. ds \o front \in Seq(B)
      <4> HIDE DEF B
      <4> QED  BY <3>1, <2>1
    <3>4. ds \o Append(front, last) = Append(ds \o front, last)
      <4> HIDE DEF B
      <4> QED  BY <3>2, <2>1
    <3>5. ds \o Append(front, Append(last, w)) = Append(ds \o front, Append(last, w))
      <4> HIDE DEF B
      <4> QED  BY <3>2, <2>1, <2>3
    <3> QED  BY <3>3, <3>4, <3>5, <2>1
  <2>5. front2 = ds \o front /\ last2 = last
    <3>1. EndAlike(front2, last2, ds \o front, last, B)
      <4> HIDE DEF B, all
      <4> QED  BY <2>1, <2>2, <2>4 DEF EndAlike
    <3> QED  BY <3>1, SameEnd
  <2>6. Break(cs, v, w, threshold) = Append(front, Append(last, w))
    BY <1>2, <2>1 DEF Break
  <2>7. Break(all, v, w, threshold) = Append(front2, Append(last2, w))
    BY <1>2, <2>2 DEF Break
  <2> HIDE DEF all, B
  <2>8. ds \o Break(cs, v, w, threshold) = Break(all, v, w, threshold)
    BY <2>4, <2>5, <2>6, <2>7
  <2> QED  BY <2>8 DEF all, BrokenAfter
<1> QED  BY <1>1, <1>2

(* The pairs of words at which the threshold is reached, in a turn, and    *)
(* those of two turns.                                                     *)
Entry == [turn : Nat, word : Vocabulary, seq : Nat, start : Nat, end : Nat]
InTurn(threshold) == {p \in Entry \X Entry : p[1].turn = p[2].turn
                                              /\ p[2].start - p[1].end >= threshold}
TurnChanges == {p \in Entry \X Entry : p[1].turn # p[2].turn}
Some(s) == IF s = <<>> THEN 0 ELSE 1

(* The chunks hold the words in their order, and there are as many of them *)
(* as pauses and changes of turn, and one.                                 *)
LEMMA SegmentHolds ==
    ASSUME NEW s \in Seq(Entry), NEW threshold
    PROVE  /\ FlattenSeq(segment_into_utterances(s, threshold)) = s
           /\ s # <<>> => segment_into_utterances(s, threshold) # <<>>
           /\ Len(segment_into_utterances(s, threshold))
                = Couples(s, InTurn(threshold)) + Couples(s, TurnChanges) + Some(s)
<1> DEFINE seg(t) == segment_into_utterances(t, threshold)
           T == {t \in Seq(Entry) :
                   /\ FlattenSeq(seg(t)) = t
                   /\ t # <<>> => seg(t) # <<>>
                   /\ Len(seg(t)) = Couples(t, InTurn(threshold)) + Couples(t, TurnChanges) + Some(t)}
<1>1. <<>> \in T
  <2>1. <<>> \in Seq(Entry) /\ Len(<<>>) = 0
    OBVIOUS
  <2>2. seg(<<>>) = <<>>
    BY SegmentGrows
  <2>3. FlattenSeq(<<>>) = <<>>
    BY FlattenGrows
  <2>4. Couples(<<>>, InTurn(threshold)) = 0 /\ Couples(<<>>, TurnChanges) = 0
    BY CouplesGrow
  <2> HIDE DEF seg
  <2> QED  BY <2>1, <2>2, <2>3, <2>4 DEF Some
<1>2. ASSUME NEW t \in Seq(Entry), NEW w \in Entry, t \in T PROVE Append(t, w) \in T
  <2> DEFINE r == Append(t, w)
             v == t[Len(t)]
  <2>1. r \in Seq(Entry) /\ r # <<>>
    BY Appended
  <2>2. seg(r) = IF t = <<>> THEN << <<w>> >> ELSE Break(seg(t), v, w, threshold)
    BY SegmentGrows, ZenonT(60) DEF Segmenting
  <2>3. seg(t) \in Seq(Seq(Entry))
    BY SegmentGrows
  <2>4. /\ Couples(r, InTurn(threshold)) = Couples(t, InTurn(threshold)) + Seam(t, <<w>>, InTurn(threshold))
        /\ Couples(r, TurnChanges) = Couples(t, TurnChanges) + Seam(t, <<w>>, TurnChanges)
        /\ Couples(t, InTurn(threshold)) \in Nat /\ Couples(t, TurnChanges) \in Nat
    BY CouplesGrow
  <2>5. /\ FlattenSeq(seg(t)) = t /\ (t # <<>> => seg(t) # <<>>)
        /\ Len(seg(t)) = Couples(t, InTurn(threshold)) + Couples(t, TurnChanges) + Some(t)
    BY <1>2
  <2> HIDE DEF r, seg, T
  <2>6. CASE t = <<>>
    <3>1. <<w>> \in Seq(Entry) /\ <<>> \in Seq(Seq(Entry)) /\ << <<w>> >> = Append(<<>>, <<w>>)
      <4> DEFINE B == Seq(Entry)
      <4>1. <<w>> \in B
        OBVIOUS
      <4> HIDE DEF B
      <4>2. <<>> \in Seq(B) /\ << <<w>> >> = Append(<<>>, <<w>>)
        BY <4>1
      <4> QED  BY <4>1, <4>2 DEF B
    <3>2. FlattenSeq(<< <<w>> >>) = FlattenSeq(<<>>) \o <<w>> /\ FlattenSeq(<<>>) = <<>>
      BY <3>1, FlattenGrows
    <3>3. <<>> \o <<w>> = <<w>> /\ r = <<w>> /\ Len(<< <<w>> >>) = 1 /\ << <<w>> >> # <<>>
      <4>1. r = <<w>>
        BY <2>6 DEF r
      <4>2. <<>> \o <<w>> = <<w>>
        BY <3>1, Joined
      <4> QED  BY <4>1, <4>2
    <3>4. Seam(t, <<w>>, InTurn(threshold)) = 0 /\ Seam(t, <<w>>, TurnChanges) = 0 /\ Some(t) = 0 /\ Some(r) = 1
      BY <2>1, <2>6 DEF Seam, Some
    <3>5. Couples(t, InTurn(threshold)) = 0 /\ Couples(t, TurnChanges) = 0
      BY <2>6, CouplesGrow
    <3>6. seg(r) = << <<w>> >>
      BY <2>2, <2>6
    <3>7. Len(seg(r)) = Couples(r, InTurn(threshold)) + Couples(r, TurnChanges) + Some(r)
      BY <3>3, <3>4, <3>5, <3>6, <2>4
    <3>8. FlattenSeq(seg(r)) = r /\ seg(r) # <<>>
      BY <3>2, <3>3, <3>6
    <3> QED  BY <2>1, <3>7, <3>8 DEF T, r
  <2>7. CASE t # <<>>
    <3>1. seg(r) = Break(seg(t), v, w, threshold) /\ seg(t) # <<>>
      BY <2>2, <2>5, <2>7
    <3>2. /\ seg(r) # <<>> /\ FlattenSeq(seg(r)) = Append(t, w)
          /\ Len(seg(r)) = Len(seg(t)) + Cut(v, w, threshold)
      <4> HIDE DEF v
      <4> DEFINE cs == seg(t)
      <4>1. cs \in Seq(Seq(Entry)) /\ cs # <<>> /\ seg(r) = Break(cs, v, w, threshold)
            /\ FlattenSeq(cs) = t
        BY <3>1, <2>3, <2>5, <2>7
      <4> HIDE DEF cs
      <4>2. Broken(cs, v, w, threshold)
        BY <4>1, BreakAdds
      <4> QED  BY <4>1, <4>2 DEF cs, Broken
    <3>3. v \in Entry /\ <<w>> # <<>> /\ <<w>>[1] = w
      BY <2>7
    <3>4. Cut(v, w, threshold) = Seam(t, <<w>>, InTurn(threshold)) + Seam(t, <<w>>, TurnChanges)
      <4>1. <<v, w>> \in InTurn(threshold) <=> v.turn = w.turn /\ w.start - v.end >= threshold
        <5> HIDE DEF v
        <5> QED  BY <3>3 DEF InTurn
      <4>2. <<v, w>> \in TurnChanges <=> v.turn # w.turn
        <5> HIDE DEF v
        <5> QED  BY <3>3 DEF TurnChanges
      <4>3. /\ Seam(t, <<w>>, InTurn(threshold)) = IF <<v, w>> \in InTurn(threshold) THEN 1 ELSE 0
            /\ Seam(t, <<w>>, TurnChanges) = IF <<v, w>> \in TurnChanges THEN 1 ELSE 0
        BY <2>7, <3>3 DEF Seam
      <4> HIDE DEF v
      <4> QED  BY <4>1, <4>2, <4>3 DEF Cut
    <3>5. Some(t) = 1 /\ Some(r) = 1
      BY <2>1, <2>7 DEF Some
    <3>6. Seam(t, <<w>>, InTurn(threshold)) \in Nat /\ Seam(t, <<w>>, TurnChanges) \in Nat
      BY DEF Seam
    <3>7. Len(seg(r)) = Couples(r, InTurn(threshold)) + Couples(r, TurnChanges) + Some(r)
      <4> DEFINE p == Couples(t, InTurn(threshold))
                 q == Couples(t, TurnChanges)
                 x == Seam(t, <<w>>, InTurn(threshold))
                 y == Seam(t, <<w>>, TurnChanges)
      <4>1. /\ p \in Nat /\ q \in Nat /\ x \in Nat /\ y \in Nat
            /\ Len(seg(r)) = (p + q + 1) + (x + y)
            /\ Couples(r, InTurn(threshold)) = p + x /\ Couples(r, TurnChanges) = q + y
            /\ Some(r) = 1
        BY <2>4, <2>5, <3>2, <3>4, <3>5, <3>6
      <4> HIDE DEF p, q, x, y
      <4> QED  BY ONLY <4>1
    <3> QED  BY <2>1, <3>2, <3>7 DEF T, r
  <2> QED  BY <2>6, <2>7
<1> HIDE DEF T
<1>3. \A t \in Seq(Entry) : t \in T
  BY <1>1, <1>2, Growing
<1> QED  BY <1>3 DEF T

(* Words of other turns are in chunks of their own.                        *)
Apart(a, b) == Turns(a) \cap Turns(b) = {}
Split(a, b, threshold) ==
    segment_into_utterances(a \o b, threshold)
      = segment_into_utterances(a, threshold) \o segment_into_utterances(b, threshold)

(* The turns of a sequence and a word are those of the sequence and the    *)
(* word's.                                                                 *)
LEMMA TurnsGrow ==
    ASSUME NEW s \in Seq(Entry), NEW w \in Entry
    PROVE  /\ Turns(Append(s, w)) = Turns(s) \cup {w.turn}
           /\ \A k \in 1 .. Len(s) : s[k].turn \in Turns(s)
           /\ Turns(<<>>) = {}
<1> DEFINE n == Len(s)
           r == Append(s, w)
<1>1. /\ n \in Nat /\ DOMAIN s = 1 .. n /\ DOMAIN r = 1 .. n + 1
      /\ r[n + 1] = w /\ \A k \in 1 .. n : r[k] = s[k]
  OBVIOUS
<1> HIDE DEF n, r
<1>2. ASSUME NEW t PROVE t \in Turns(r) <=> t \in Turns(s) \cup {w.turn}
  <2>1. t \in Turns(r) <=> \E k \in 1 .. n + 1 : r[k].turn = t
    BY <1>1 DEF Turns
  <2>2. t \in Turns(s) <=> \E k \in 1 .. n : s[k].turn = t
    BY <1>1 DEF Turns
  <2>3. (\E k \in 1 .. n + 1 : r[k].turn = t) <=> (\E k \in 1 .. n : r[k].turn = t) \/ r[n + 1].turn = t
    BY <1>1
  <2> QED  BY <2>1, <2>2, <2>3, <1>1
<1>3. Turns(r) = Turns(s) \cup {w.turn}
  BY <1>2
<1>4. Turns(<<>>) = {}
  BY DEF Turns
<1>5. \A k \in 1 .. n : s[k].turn \in Turns(s)
  BY <1>1 DEF Turns
<1> QED  BY <1>3, <1>4, <1>5 DEF r, n

(* Sequences without a common turn are split separately. *)
LEMMA SegmentSplits ==
    ASSUME NEW a \in Seq(Entry), NEW b \in Seq(Entry), Apart(a, b), NEW threshold
    PROVE  Split(a, b, threshold)
<1> DEFINE seg(t) == segment_into_utterances(t, threshold)
           T == {t \in Seq(Entry) : Apart(a, t) => Split(a, t, threshold)}
<1>0. seg(<<>>) = <<>> /\ \A t \in Seq(Entry) : seg(t) \in Seq(Seq(Entry))
  BY SegmentGrows
<1>1. <<>> \in T
  <2>1. a \o <<>> = a /\ seg(a) \in Seq(Seq(Entry)) /\ <<>> \in Seq(Entry)
    BY <1>0
  <2>2. seg(a) \o <<>> = seg(a)
    <3> HIDE DEF seg
    <3> QED  BY <2>1
  <2> QED  BY <1>0, <2>1, <2>2 DEF Split
<1>2. ASSUME NEW t \in Seq(Entry), NEW w \in Entry, t \in T PROVE Append(t, w) \in T
  <2> DEFINE r == Append(t, w)
             n == Len(a)
  <2>0. r \in Seq(Entry) /\ a \o t \in Seq(Entry) /\ a \o r = Append(a \o t, w) /\ n \in Nat
    OBVIOUS
  <2> SUFFICES ASSUME Apart(a, r) PROVE Split(a, r, threshold)
    BY <2>0
  <2>1. Apart(a, t) /\ w.turn \notin Turns(a)
    BY TurnsGrow DEF Apart
  <2>2. Split(a, t, threshold)
    BY <1>2, <2>1
  <2>3. Segmenting(a \o t, w, threshold) /\ Segmenting(t, w, threshold)
    BY <2>0, SegmentGrows
  <2> HIDE DEF T
  <2>4. CASE t = <<>>
    <3>1. a \o r = Append(a, w) /\ seg(r) = << <<w>> >>
      <4>1. a \o t = a
        BY <2>4
      <4> QED  BY <2>0, <2>3, <2>4, <4>1 DEF Segmenting
    <3>2. CASE a = <<>>
      <4>1. seg(a) = <<>> /\ a \o r = r
        BY <3>2, <1>0, <2>0
      <4>2. <<>> \o seg(r) = seg(r)
        <5> HIDE DEF seg
        <5>1. seg(r) \in Seq(Seq(Entry))
          BY <1>0, <2>0
        <5> HIDE DEF r
        <5> QED  BY <5>1
      <4> QED  BY <4>1, <4>2 DEF Split
    <3>3. CASE a # <<>>
      <4>1. a[n].turn \in Turns(a) /\ n # 0
        <5>1. n \in 1 .. n /\ n # 0
          BY <3>3
        <5> QED  BY <5>1, TurnsGrow, w \in Entry
      <4>2. w.turn # a[n].turn
        BY <2>1, <4>1
      <4>3. Segmenting(a, w, threshold)
        BY SegmentGrows
      <4>4. seg(a \o r) = Append(seg(a), <<w>>)
        BY <3>1, <3>3, <4>2, <4>3 DEF Segmenting, Break
      <4>5. Append(seg(a), <<w>>) = seg(a) \o << <<w>> >>
        <5>1. seg(a) \in Seq(Seq(Entry))
          BY <1>0
        <5> HIDE DEF seg
        <5> QED  BY <5>1
      <4> QED  BY <3>1, <4>4, <4>5 DEF Split
    <3> QED  BY <3>2, <3>3
  <2>5. CASE t # <<>>
    <3>1. a \o t # <<>> /\ (a \o t)[Len(a \o t)] = t[Len(t)]
      BY <2>5
    <3> DEFINE v == t[Len(t)]
               cs == seg(t)
               ds == seg(a)
    <3>2. seg(a \o r) = Break(seg(a \o t), v, w, threshold)
      BY <2>0, <2>3, <3>1 DEF Segmenting
    <3>3. seg(r) = Break(cs, v, w, threshold)
      BY <2>3, <2>5 DEF Segmenting
    <3>4. seg(a \o t) = ds \o cs
      BY <2>2 DEF Split
    <3>5. cs # <<>>
      BY <2>5, SegmentHolds
    <3>6. cs \in Seq(Seq(Entry)) /\ ds \in Seq(Seq(Entry))
      BY <1>0
    <3> HIDE DEF v, cs, ds, seg
    <3>7. ds \o Break(cs, v, w, threshold) = Break(ds \o cs, v, w, threshold)
      <4>1. BrokenAfter(ds, cs, v, w, threshold)
        BY <3>5, <3>6, BreakAtEnd
      <4> QED  BY <4>1 DEF BrokenAfter
    <3>8. seg(a \o r) = ds \o seg(r)
      BY <3>2, <3>3, <3>4, <3>7
    <3> QED  BY <3>8 DEF Split, ds, seg
  <2> QED  BY <2>4, <2>5
<1> HIDE DEF T
<1>3. \A t \in Seq(Entry) : t \in T
  BY <1>1, <1>2, Growing
<1> QED  BY <1>3 DEF T

(* Words of a turn follow one another.                                     *)
Grouped(s) ==
    \A k, m \in 1 .. Len(s) : s[k].turn = s[m].turn =>
        \A i \in 1 .. Len(s) : k <= i /\ i <= m => s[i].turn = s[k].turn

(* Joined, they still do, if they have no turn in common, *)
LEMMA GroupedTogether ==
    ASSUME NEW a \in Seq(Entry), NEW b \in Seq(Entry), Apart(a, b), Grouped(a), Grouped(b)
    PROVE  Grouped(a \o b)
<1> DEFINE c == a \o b
           p == Len(a)
           q == Len(b)
<1>1. /\ p \in Nat /\ q \in Nat /\ Len(c) = p + q /\ DOMAIN a = 1 .. p /\ DOMAIN b = 1 .. q
      /\ \A k \in 1 .. p : c[k] = a[k]
      /\ \A k \in 1 .. q : c[p + k] = b[k]
  OBVIOUS
<1>2. /\ \A k \in 1 .. p : a[k].turn \in Turns(a)
      /\ \A k \in 1 .. q : b[k].turn \in Turns(b)
  BY <1>1 DEF Turns
<1> HIDE DEF c, p, q
<1>3. ASSUME NEW k \in 1 .. Len(c), NEW m \in 1 .. Len(c), c[k].turn = c[m].turn,
             NEW i \in 1 .. Len(c), k <= i, i <= m
      PROVE  c[i].turn = c[k].turn
  <2>1. CASE m <= p
    <3>1. k \in 1 .. p /\ m \in 1 .. p /\ i \in 1 .. p
      BY <1>1, <1>3, <2>1
    <3> QED  BY <3>1, <1>1, <1>3 DEF Grouped, p
  <2>2. CASE k > p
    <3> DEFINE k1 == k - p
               m1 == m - p
               i1 == i - p
    <3>1. /\ k1 \in 1 .. q /\ m1 \in 1 .. q /\ i1 \in 1 .. q /\ k1 <= i1 /\ i1 <= m1
          /\ p + k1 = k /\ p + m1 = m /\ p + i1 = i
      BY <1>1, <1>3, <2>2
    <3> HIDE DEF k1, m1, i1
    <3>2. c[k] = b[k1] /\ c[m] = b[m1] /\ c[i] = b[i1]
      BY <3>1, <1>1
    <3> QED  BY <3>1, <3>2, <1>3 DEF Grouped, q
  <2>3. CASE k <= p /\ m > p
    <3> DEFINE m1 == m - p
    <3>1. k \in 1 .. p /\ m1 \in 1 .. q /\ p + m1 = m
      BY <1>1, <2>3
    <3> HIDE DEF m1
    <3>2. c[k].turn \in Turns(a) /\ c[m].turn \in Turns(b)
      BY <3>1, <1>1, <1>2
    <3> QED  BY <3>2, <1>3 DEF Apart
  <2> QED  BY <1>1, <2>1, <2>2, <2>3
<1> QED  BY <1>3 DEF Grouped, c

(* and they did before the last word; its turn is that of the word before  *)
(* it or new.                                                              *)
LEMMA GroupedBefore ==
    ASSUME NEW s \in Seq(Entry), NEW w \in Entry, Grouped(Append(s, w))
    PROVE  /\ Grouped(s)
           /\ s = <<>> => w.turn \notin Turns(s)
           /\ s # <<>> => (w.turn \in Turns(s) <=> s[Len(s)].turn = w.turn)
<1> DEFINE n == Len(s)
           r == Append(s, w)
<1>1. /\ n \in Nat /\ DOMAIN s = 1 .. n /\ Len(r) = n + 1 /\ r[n + 1] = w
      /\ \A k \in 1 .. n : r[k] = s[k] /\ k \in 1 .. n + 1
      /\ n + 1 \in 1 .. n + 1 /\ (s = <<>> <=> n = 0)
  OBVIOUS
<1>2. Grouped(r)
  OBVIOUS
<1> HIDE DEF n, r
<1>3. Grouped(s)
  BY <1>1, <1>2 DEF Grouped, n
<1>4. ASSUME n = 0 PROVE Turns(s) = {}
  BY <1>1, <1>4 DEF Turns
<1>5. ASSUME n # 0, w.turn \in Turns(s) PROVE s[n].turn = w.turn
  <2>1. PICK k \in 1 .. n : s[k].turn = w.turn
    BY <1>1, <1>5 DEF Turns
  <2>2. n \in 1 .. n /\ k <= n /\ n <= n + 1 /\ r[k].turn = r[n + 1].turn
    BY <1>1, <1>5, <2>1
  <2>3. r[n].turn = r[k].turn
    BY <2>2, <1>1, <1>2 DEF Grouped
  <2> QED  BY <2>1, <2>2, <2>3, <1>1
<1>6. ASSUME n # 0, s[n].turn = w.turn PROVE w.turn \in Turns(s)
  <2>1. n \in 1 .. n
    BY <1>1, <1>6
  <2> QED  BY <2>1, <1>1, <1>6 DEF Turns
<1> QED  BY <1>1, <1>3, <1>4, <1>5, <1>6 DEF n

(* So there is one turn more than changes of turn, if there are words.     *)
LEMMA TurnsChange ==
    ASSUME NEW s \in Seq(Entry), Grouped(s)
    PROVE  /\ IsFiniteSet(Turns(s)) /\ Cardinality(Turns(s)) \in Nat
           /\ Cardinality(Turns(s)) = Couples(s, TurnChanges) + Some(s)
<1> DEFINE T == {t \in Seq(Entry) : Grouped(t) =>
                   /\ IsFiniteSet(Turns(t)) /\ Cardinality(Turns(t)) \in Nat
                   /\ Cardinality(Turns(t)) = Couples(t, TurnChanges) + Some(t)}
<1>1. <<>> \in T
  <2>1. Turns(<<>>) = {} /\ <<>> \in Seq(Entry)
    BY DEF Turns
  <2>2. Couples(<<>>, TurnChanges) = 0
    BY CouplesGrow
  <2> QED  BY <2>1, <2>2, FS_EmptySet DEF Some
<1>2. ASSUME NEW t \in Seq(Entry), NEW w \in Entry, t \in T PROVE Append(t, w) \in T
  <2> DEFINE r == Append(t, w)
  <2>0. r \in Seq(Entry) /\ r # <<>>
    BY Appended
  <2> SUFFICES ASSUME Grouped(r)
               PROVE  /\ IsFiniteSet(Turns(r)) /\ Cardinality(Turns(r)) \in Nat
                      /\ Cardinality(Turns(r)) = Couples(r, TurnChanges) + Some(r)
    BY <2>0
  <2>1. /\ Grouped(t)
        /\ t = <<>> => w.turn \notin Turns(t)
        /\ t # <<>> => (w.turn \in Turns(t) <=> t[Len(t)].turn = w.turn)
    BY GroupedBefore
  <2>2. /\ IsFiniteSet(Turns(t)) /\ Cardinality(Turns(t)) \in Nat
        /\ Cardinality(Turns(t)) = Couples(t, TurnChanges) + Some(t)
    BY <1>2, <2>1
  <2>3. Turns(r) = Turns(t) \cup {w.turn}
    BY TurnsGrow
  <2>4. /\ Couples(r, TurnChanges) = Couples(t, TurnChanges) + Seam(t, <<w>>, TurnChanges)
        /\ Couples(t, TurnChanges) \in Nat
    BY CouplesGrow
  <2>5. t # <<>> => (<<t[Len(t)], w>> \in TurnChanges <=> t[Len(t)].turn # w.turn)
    <3> SUFFICES ASSUME t # <<>>
                 PROVE  <<t[Len(t)], w>> \in TurnChanges <=> t[Len(t)].turn # w.turn
      OBVIOUS
    <3> DEFINE v == t[Len(t)]
    <3>1. v \in Entry
      OBVIOUS
    <3> HIDE DEF v
    <3>2. <<v, w>> \in TurnChanges <=> v.turn # w.turn
      BY <3>1 DEF TurnChanges
    <3> QED  BY <3>2 DEF v
  <2>6. Seam(t, <<w>>, TurnChanges)
          = IF t # <<>> /\ <<t[Len(t)], w>> \in TurnChanges THEN 1 ELSE 0
    BY DEF Seam
  <2> HIDE DEF r, T
  <2>7. CASE w.turn \in Turns(t)
    <3>1. Turns(r) = Turns(t) /\ t # <<>>
      BY <2>1, <2>3, <2>7
    <3>2. Seam(t, <<w>>, TurnChanges) = 0 /\ Some(t) = 1 /\ Some(r) = 1
      BY <3>1, <2>0, <2>1, <2>5, <2>6, <2>7 DEF Some
    <3> QED  BY <3>1, <3>2, <2>2, <2>4
  <2>8. CASE w.turn \notin Turns(t)
    <3>1. Cardinality(Turns(r)) = Cardinality(Turns(t)) + 1 /\ IsFiniteSet(Turns(r))
      BY <2>2, <2>3, <2>8, FS_AddElement
    <3>2. /\ Seam(t, <<w>>, TurnChanges) \in Nat /\ Some(t) \in Nat /\ Some(r) = 1
          /\ Seam(t, <<w>>, TurnChanges) = Some(t)
      <4>1. CASE t = <<>>
        <5>1. Seam(t, <<w>>, TurnChanges) = 0 /\ Some(t) = 0 /\ Some(r) = 1
          BY <4>1, <2>0, <2>6 DEF Some
        <5> QED  BY <5>1
      <4>2. CASE t # <<>>
        <5>1. <<t[Len(t)], w>> \in TurnChanges
          BY <4>2, <2>1, <2>5, <2>8
        <5>2. Seam(t, <<w>>, TurnChanges) = 1 /\ Some(t) = 1 /\ Some(r) = 1
          BY <4>2, <5>1, <2>0 DEF Some, Seam
        <5> QED  BY <5>2
      <4> QED  BY <4>1, <4>2
    <3> DEFINE c == Cardinality(Turns(r))
               d == Cardinality(Turns(t))
               p == Couples(t, TurnChanges)
               q == Couples(r, TurnChanges)
               x == Seam(t, <<w>>, TurnChanges)
               y == Some(t)
    <3>3. /\ c = d + 1 /\ d \in Nat /\ d = p + y /\ q = p + x /\ p \in Nat
          /\ x \in Nat /\ y \in Nat /\ x = y
      BY <3>1, <3>2, <2>2, <2>4
    <3>4. c \in Nat /\ c = q + 1
      <4> HIDE DEF c, d, p, q, x, y
      <4> QED  BY ONLY <3>3
    <3> QED  BY <3>1, <3>2, <3>4
  <2> QED  BY <2>7, <2>8
<1> HIDE DEF T
<1>3. \A t \in Seq(Entry) : t \in T
  BY <1>1, <1>2, Growing
<1> QED  BY <1>3 DEF T

----------------------------------------------------------------------------
(* The parts *)

(* Words that are spoken one after the other, turn after turn.             *)
Follows == {p \in Entry \X Entry : p[1].turn <= p[2].turn /\ p[1].end <= p[2].start}
Orderly(s) == Ordered(s, Follows) /\ \A e \in Range(s) : e.start <= e.end

(* The rows are in such an order. *)
LEMMA RowOrderly ==
    ASSUME Spoken
    PROVE  /\ Row \in Seq(Entry) /\ Orderly(Row)
           /\ \A e \in Range(Row) : e.turn \in DOMAIN answers
<1> DEFINE N == Len(heard)
<1>1. /\ DOMAIN Row = 1 .. N /\ N \in Nat
      /\ \A k \in 1 .. N :
           /\ Row[k].turn \in 1 .. Len(answers)
           /\ Row[k].seq = Cardinality({m \in 1 .. k - 1 : Row[m].turn = Row[k].turn})
           /\ Row[k].word = heard[k].word /\ Row[k].start = heard[k].start
           /\ Row[k].end = heard[k].end
  BY RowsFiled
<1>2. \A k, m \in 1 .. N : k <= m => Row[k].turn <= Row[m].turn
  BY RowsFiled
<1>3. /\ DOMAIN heard = 1 .. N /\ DOMAIN answers = 1 .. Len(answers) /\ Len(answers) \in Nat
      /\ \A k \in 1 .. N : heard[k] \in Word /\ heard[k].end = heard[k].start + WordLength
      /\ \A k \in 1 .. N - 1 : heard[k].end <= heard[k + 1].start
  BY DEF Spoken
<1>4. WordLength \in Nat /\ \A h \in Word : h.word \in Vocabulary /\ h.start \in Nat /\ h.end \in Nat
  BY EvidenceAssumption DEF Word
<1>5. /\ Row = [k \in 1 .. N |-> Row[k]]
      /\ \A k \in 1 .. N : Row[k] = [turn |-> Row[k].turn, word |-> Row[k].word, seq |-> Row[k].seq,
                                     start |-> Row[k].start, end |-> Row[k].end]
  BY <1>3 DEF Row, _persist_words
<1>13. \A k, m \in 1 .. N : k <= m => heard[k].start <= heard[m].start
  BY StartsRise
<1> HIDE DEF N
<1>6. ASSUME NEW k \in 1 .. N PROVE Row[k] \in Entry /\ Row[k].start <= Row[k].end
  <2>1. Row[k].turn \in Nat /\ Row[k].start \in Nat /\ Row[k].end \in Nat /\ Row[k].word \in Vocabulary
    <3>1. heard[k].word \in Vocabulary /\ heard[k].start \in Nat /\ heard[k].end \in Nat
      BY <1>3, <1>4
    <3>2. Row[k].turn \in Nat
      <4>1. Row[k].turn \in 1 .. Len(answers) /\ Len(answers) \in Nat
        BY <1>1, <1>3
      <4> QED  BY ONLY <4>1
    <3>3. Row[k].word = heard[k].word /\ Row[k].start = heard[k].start /\ Row[k].end = heard[k].end
      BY <1>1
    <3> QED  BY <3>1, <3>2, <3>3
  <2>2. Row[k].seq \in Nat
    <3>1. IsFiniteSet(1 .. k - 1)
      BY FS_Interval
    <3>2. IsFiniteSet({m \in 1 .. k - 1 : Row[m].turn = Row[k].turn})
      BY <3>1, FS_Subset
    <3> QED  BY <3>2, <1>1, FS_CardinalityType
  <2>3. Row[k] \in Entry
    BY <1>5, <2>1, <2>2 DEF Entry
  <2>4. heard[k].start \in Nat /\ heard[k].end = heard[k].start + WordLength
    BY <1>3, <1>4
  <2>5. heard[k].start <= heard[k].end
    BY ONLY <2>4, <1>4
  <2> QED  BY <2>3, <2>5, <1>1
<1>7. Row \in Seq(Entry) /\ Len(Row) = N
  <2>1. \A k \in 1 .. N : Row[k] \in Entry
    BY <1>6
  <2> DEFINE r == [k \in 1 .. N |-> Row[k]]
  <2>2. r \in Seq(Entry) /\ Len(r) = N
    <3>1. r \in [1 .. N -> Entry]
      BY <2>1
    <3> HIDE DEF r
    <3> QED  BY <1>1, <3>1
  <2> QED  BY <1>5, <2>2
<1>8. ASSUME NEW k \in 1 .. N, NEW m \in 1 .. N, k < m PROVE <<Row[k], Row[m]>> \in Follows
  <2>1. k \in 1 .. N - 1 /\ k + 1 \in 1 .. N /\ k + 1 <= m /\ k <= m
    BY <1>1, <1>8
  <2>2. heard[k].end <= heard[k + 1].start /\ heard[k + 1].start <= heard[m].start
    BY <2>1, <1>3, <1>13
  <2>3. heard[k].end \in Nat /\ heard[k + 1].start \in Nat /\ heard[m].start \in Nat
    BY <2>1, <1>3, <1>4
  <2>4. heard[k].end <= heard[m].start
    BY ONLY <2>2, <2>3
  <2>5. Row[k].end <= Row[m].start /\ Row[k].turn <= Row[m].turn
    BY <2>1, <2>4, <1>1, <1>2
  <2> QED  BY <2>5, <1>6 DEF Follows
<1>9. Ordered(Row, Follows)
  BY <1>7, <1>8 DEF Ordered
<1>10. \A e \in Range(Row) : e.start <= e.end /\ e.turn \in DOMAIN answers
  <2> SUFFICES ASSUME NEW e \in Range(Row) PROVE e.start <= e.end /\ e.turn \in DOMAIN answers
    OBVIOUS
  <2>1. PICK k \in 1 .. N : e = Row[k]
    BY <1>1 DEF Range
  <2> QED  BY <2>1, <1>1, <1>3, <1>6
<1> QED  BY <1>7, <1>9, <1>10 DEF Orderly

(* Words in their order are grouped by turn.                               *)
LEMMA OrderlyGrouped ==
    ASSUME NEW s \in Seq(Entry), Orderly(s)
    PROVE  Grouped(s)
<1>1. \A k \in 1 .. Len(s) : s[k].turn \in Nat
  <2>1. \A k \in 1 .. Len(s) : s[k] \in Entry
    OBVIOUS
  <2> QED  BY <2>1 DEF Entry
<1>2. ASSUME NEW k \in 1 .. Len(s), NEW m \in 1 .. Len(s), k <= m PROVE s[k].turn <= s[m].turn
  <2>1. CASE k = m
    BY <2>1, <1>1
  <2>2. CASE k # m
    <3>1. <<s[k], s[m]>> \in Follows
      BY <1>2, <2>2 DEF Orderly, Ordered
    <3> QED  BY <3>1 DEF Follows
  <2> QED  BY <2>1, <2>2
<1>3. ASSUME NEW k \in 1 .. Len(s), NEW m \in 1 .. Len(s), s[k].turn = s[m].turn,
             NEW i \in 1 .. Len(s), k <= i, i <= m
      PROVE  s[i].turn = s[k].turn
  <2>1. s[k].turn <= s[i].turn /\ s[i].turn <= s[m].turn
    BY <1>2, <1>3
  <2>2. s[k].turn \in Nat /\ s[i].turn \in Nat /\ s[m].turn \in Nat
    BY <1>1
  <2> QED  BY <2>1, <2>2, <1>3
<1> QED  BY <1>3 DEF Grouped

(* The words of the parts, in the order of the transcript; parts have no   *)
(* turn in common.                                                         *)
Bucket(i) == {e \in Range(Row) : _PHASE_BUCKETS(answers[e.turn].phase) = PHASE_BUCKET_ORDER[i]}
Part(i) == Those(Row, Bucket(i))

(* load_words_by_phase takes the rows of each part. *)
LEMMA PartsFiled ==
    ASSUME Spoken
    PROVE  load_words_by_phase = <<Part(1), Part(2), Part(3)>>
<1> DEFINE N == Len(heard)
           keys == [k \in 1 .. N |-> heard[k].start]
           order == sorted(keys)
           bucket == [k \in DOMAIN answers |-> _PHASE_BUCKETS(answers[k].phase)]
           rows == [k \in 1 .. N |-> Row[order[k]]]
           part(i) == Those(rows, {w \in Range(rows) : bucket[w.turn] = PHASE_BUCKET_ORDER[i]})
<1>1. N \in Nat /\ DOMAIN heard = 1 .. N /\ \A k \in 1 .. N : keys[k] \in Int
  <2>1. N \in Nat /\ DOMAIN heard = 1 .. N /\ \A k \in 1 .. N : heard[k] \in Word
    BY DEF Spoken
  <2>2. \A h \in Word : h.start \in Int
    BY DEF Word
  <2> QED  BY <2>1, <2>2
<1>2. load_words_by_phase = <<part(1), part(2), part(3)>>
  BY <1>1 DEF load_words_by_phase, Row
<1>3. \A k, m \in 1 .. N : k <= m => keys[k] <= keys[m]
  BY StartsRise
<1> HIDE DEF part
<1>4. \A k \in 1 .. N : order[k] = k
  <2>1. DOMAIN keys = 1 .. N
    OBVIOUS
  <2> HIDE DEF keys, N, rows
  <2>2. Order(keys, N, order)
    BY <1>1, <2>1, Sorted
  <2> HIDE DEF order
  <2> QED  BY <1>1, <1>3, <2>2, SortedAlready
<1>5. rows = Row
  <2>1. Row = [k \in 1 .. N |-> Row[k]]
    BY <1>1 DEF Row, _persist_words
  <2> HIDE DEF order, N
  <2> QED  BY <1>4, <2>1
<1>6. \A e \in Range(Row) : bucket[e.turn] = _PHASE_BUCKETS(answers[e.turn].phase)
  <2>1. \A e \in Range(Row) : e.turn \in DOMAIN answers
    BY RowOrderly
  <2> QED  BY <2>1
<1>7. ASSUME NEW i PROVE part(i) = Part(i)
  <2> HIDE DEF bucket, rows
  <2>1. Bucket(i) = {w \in Range(rows) : bucket[w.turn] = PHASE_BUCKET_ORDER[i]}
    BY <1>5, <1>6 DEF Bucket
  <2> QED  BY <1>5, <2>1 DEF part, Part
<1> QED  BY <1>2, <1>7

(* They are in order, and parts share no turn. *)
LEMMA PartsOrderly ==
    ASSUME Spoken, NEW i \in 1 .. 3
    PROVE  /\ Part(i) \in Seq(Entry) /\ Orderly(Part(i)) /\ Range(Part(i)) = Bucket(i)
           /\ \A j \in 1 .. 3 : i # j => Apart(Part(i), Part(j))
<1>1. Row \in Seq(Entry) /\ Orderly(Row)
  BY RowOrderly
<1>2. ASSUME NEW j \in 1 .. 3
      PROVE  /\ Part(j) \in Seq(Entry) /\ Range(Part(j)) = Bucket(j)
             /\ Ordered(Part(j), Follows)
  <2>1. Those(Row, Bucket(j)) \in Seq(Entry)
    BY <1>1, ThoseGrows
  <2>2. Kept(Row, Bucket(j), Follows)
    BY <1>1, ThoseInOrder
  <2>3. Bucket(j) \subseteq Range(Row)
    BY DEF Bucket
  <2>4. Range(Part(j)) = Bucket(j) /\ Ordered(Part(j), Follows)
    BY <1>1, <2>2, <2>3 DEF Kept, Orderly, Part
  <2> QED  BY <2>1, <2>4 DEF Part
<1>3. Orderly(Part(i))
  <2>1. Bucket(i) \subseteq Range(Row)
    BY DEF Bucket
  <2> QED  BY <1>1, <1>2, <2>1 DEF Orderly
<1>4. ASSUME NEW j \in 1 .. 3, i # j PROVE Apart(Part(i), Part(j))
  <2>1. ASSUME NEW h \in 1 .. 3, NEW t \in Turns(Part(h))
        PROVE  _PHASE_BUCKETS(answers[t].phase) = PHASE_BUCKET_ORDER[h]
    <3>1. PICK k \in DOMAIN Part(h) : Part(h)[k].turn = t
      BY <2>1 DEF Turns
    <3>2. Part(h)[k] \in Bucket(h)
      BY <3>1, <1>2 DEF Range
    <3> QED  BY <3>1, <3>2 DEF Bucket
  <2>2. PHASE_BUCKET_ORDER[i] # PHASE_BUCKET_ORDER[j]
    BY <1>4 DEF PHASE_BUCKET_ORDER
  <2>3. ASSUME NEW t \in Turns(Part(i)), t \in Turns(Part(j)) PROVE FALSE
    BY <2>1, <2>2, <2>3
  <2> QED  BY <2>3 DEF Apart
<1> QED  BY <1>2, <1>3, <1>4

(* The parts one after the other.                                          *)
Whole == session_words(load_words_by_phase)

(* The session is its three parts, and no turn is in two of them. *)
LEMMA WholeIs ==
    ASSUME Spoken
    PROVE  /\ Whole = (Part(1) \o Part(2)) \o Part(3)
           /\ Part(1) \o Part(2) \in Seq(Entry) /\ Whole \in Seq(Entry)
           /\ Apart(Part(1), Part(2)) /\ Apart(Part(1) \o Part(2), Part(3))
           /\ Turns(Part(1) \o Part(2)) = Turns(Part(1)) \cup Turns(Part(2))
           /\ Turns(Whole) = Turns(Part(1) \o Part(2)) \cup Turns(Part(3))
           /\ Grouped(Part(1) \o Part(2)) /\ Grouped(Whole)
<1> DEFINE a == Part(1)
           b == Part(2)
           c == Part(3)
<1>1. /\ a \in Seq(Entry) /\ b \in Seq(Entry) /\ c \in Seq(Entry)
      /\ Orderly(a) /\ Orderly(b) /\ Orderly(c)
      /\ Apart(a, b) /\ Apart(a, c) /\ Apart(b, c)
  BY PartsOrderly
<1>2. Whole = (a \o b) \o c
  BY PartsFiled DEF Whole, session_words
<1> HIDE DEF a, b, c
<1>3. a \o b \in Seq(Entry) /\ (a \o b) \o c \in Seq(Entry)
  BY <1>1
<1>4. ASSUME NEW s \in Seq(Entry), NEW t \in Seq(Entry)
      PROVE  Turns(s \o t) = Turns(s) \cup Turns(t)
  <2> DEFINE p == Len(s)
             q == Len(t)
             u == s \o t
  <2>1. /\ p \in Nat /\ q \in Nat /\ DOMAIN s = 1 .. p /\ DOMAIN t = 1 .. q /\ DOMAIN u = 1 .. p + q
        /\ \A k \in 1 .. p : u[k] = s[k]
        /\ \A k \in 1 .. q : u[p + k] = t[k]
    OBVIOUS
  <2> HIDE DEF p, q, u
  <2>2. ASSUME NEW x \in Turns(u) PROVE x \in Turns(s) \cup Turns(t)
    <3>1. PICK k \in 1 .. p + q : u[k].turn = x
      BY <2>1 DEF Turns
    <3>2. CASE k \in 1 .. p
      BY <3>1, <3>2, <2>1 DEF Turns
    <3>3. CASE k > p
      <4> DEFINE m == k - p
      <4>1. m \in 1 .. q /\ p + m = k
        BY <3>3, <2>1
      <4> HIDE DEF m
      <4>2. t[m].turn = x
        BY <4>1, <3>1, <2>1
      <4> QED  BY <4>1, <4>2, <2>1 DEF Turns
    <3> QED  BY <3>2, <3>3, <2>1
  <2>3. ASSUME NEW x \in Turns(s) PROVE x \in Turns(u)
    <3>1. PICK k \in 1 .. p : s[k].turn = x
      BY <2>1 DEF Turns
    <3>2. k \in 1 .. p + q /\ u[k].turn = x
      BY <3>1, <2>1
    <3> QED  BY <3>2, <2>1 DEF Turns
  <2>4. ASSUME NEW x \in Turns(t) PROVE x \in Turns(u)
    <3>1. PICK k \in 1 .. q : t[k].turn = x
      BY <2>1 DEF Turns
    <3>2. p + k \in 1 .. p + q /\ u[p + k].turn = x
      BY <3>1, <2>1
    <3> QED  BY <3>2, <2>1 DEF Turns
  <2> QED  BY <2>2, <2>3, <2>4 DEF u
<1>5. Turns(a \o b) = Turns(a) \cup Turns(b)
  BY <1>1, <1>4
<1>6. Turns((a \o b) \o c) = Turns(a \o b) \cup Turns(c)
  BY <1>1, <1>3, <1>4
<1>7. Apart(a \o b, c)
  BY <1>1, <1>5 DEF Apart
<1>8. Grouped(a) /\ Grouped(b) /\ Grouped(c)
  BY <1>1, OrderlyGrouped
<1>9. Grouped(a \o b)
  BY <1>1, <1>8, GroupedTogether
<1>10. Grouped((a \o b) \o c)
  BY <1>1, <1>3, <1>7, <1>8, <1>9, GroupedTogether
<1>11. /\ Whole = (a \o b) \o c /\ a \o b \in Seq(Entry) /\ Whole \in Seq(Entry)
       /\ Apart(a, b) /\ Apart(a \o b, c) /\ Turns(a \o b) = Turns(a) \cup Turns(b)
       /\ Turns(Whole) = Turns(a \o b) \cup Turns(c) /\ Grouped(a \o b) /\ Grouped(Whole)
  BY <1>1, <1>2, <1>3, <1>5, <1>6, <1>7, <1>9, <1>10
<1> QED  BY <1>11 DEF a, b, c

(* Pauses are the gaps in a turn that reach the threshold.                 *)
LEMMA PausesInTurn ==
    ASSUME NEW ws \in Seq(Entry)
    PROVE  /\ Cardinality(_detect_pauses(ws)) = Couples(ws, InTurn(MICRO_PAUSE_FLOOR))
           /\ Cardinality(_classify_pause_placement(ws, _detect_pauses(ws)))
                = Couples(ws, InTurn(CHUNKING_PAUSE_THRESHOLD))
           /\ Cardinality({k \in _detect_pauses(ws) : Gap(ws, k) >= MACRO_PAUSE_FLOOR})
                = Couples(ws, InTurn(MACRO_PAUSE_FLOOR))
<1> DEFINE n == Len(ws)
<1>1. n \in Nat /\ \A k \in 1 .. n : ws[k] \in Entry
  OBVIOUS
<1> HIDE DEF n
<1>2. \A e \in Entry : e.start \in Nat /\ e.end \in Nat
  BY DEF Entry
<1>3. ASSUME NEW k \in 1 .. n - 1, NEW thr
      PROVE  /\ <<ws[k], ws[k + 1]>> \in InTurn(thr) <=> ~NewTurn(ws, k) /\ Gap(ws, k) >= thr
  <2>1. k \in 1 .. n /\ k + 1 \in 1 .. n
    BY <1>1
  <2>2. ws[k] \in Entry /\ ws[k + 1] \in Entry
    BY <2>1, <1>1
  <2>3. ws[k].end \in Nat /\ ws[k + 1].start \in Nat
    BY <2>2, <1>2
  <2> QED  BY <2>2, <2>3 DEF InTurn, NewTurn, Gap
<1>7. ASSUME NEW k \in 1 .. n - 1 PROVE Gap(ws, k) \in Int
  <2>1. k \in 1 .. n /\ k + 1 \in 1 .. n
    BY <1>1
  <2>2. ws[k] \in Entry /\ ws[k + 1] \in Entry
    BY <2>1, <1>1
  <2> QED  BY <2>2, <1>2 DEF Gap
<1>4. _detect_pauses(ws) = {k \in 1 .. n - 1 : <<ws[k], ws[k + 1]>> \in InTurn(300)}
  BY <1>3 DEF _detect_pauses, MICRO_PAUSE_FLOOR, n
<1>5. _classify_pause_placement(ws, _detect_pauses(ws))
        = {k \in 1 .. n - 1 : <<ws[k], ws[k + 1]>> \in InTurn(600)}
  <2>1. \A k \in 1 .. n - 1 : Gap(ws, k) >= 600 => Gap(ws, k) >= 300
    BY <1>7
  <2> QED  BY <2>1, <1>3, <1>4 DEF _classify_pause_placement, CHUNKING_PAUSE_THRESHOLD
<1>6. {k \in _detect_pauses(ws) : Gap(ws, k) >= MACRO_PAUSE_FLOOR}
        = {k \in 1 .. n - 1 : <<ws[k], ws[k + 1]>> \in InTurn(1000)}
  <2>1. \A k \in 1 .. n - 1 : Gap(ws, k) >= 1000 => Gap(ws, k) >= 300
    BY <1>7
  <2> QED  BY <2>1, <1>3, <1>4 DEF MACRO_PAUSE_FLOOR
<1> QED  BY <1>4, <1>5, <1>6
         DEF Couples, n, MICRO_PAUSE_FLOOR, CHUNKING_PAUSE_THRESHOLD, MACRO_PAUSE_FLOOR

(* As many runs as pauses and turns.                                       *)
LEMMA RunsCounted ==
    ASSUME NEW ws \in Seq(Entry), Grouped(ws), NEW threshold
    PROVE  Len(segment_into_utterances(ws, threshold))
             = Couples(ws, InTurn(threshold)) + Cardinality(Turns(ws))
<1>1. Len(segment_into_utterances(ws, threshold))
        = Couples(ws, InTurn(threshold)) + Couples(ws, TurnChanges) + Some(ws)
  BY SegmentHolds
<1>2. Cardinality(Turns(ws)) = Couples(ws, TurnChanges) + Some(ws)
  BY TurnsChange
<1>3. Couples(ws, InTurn(threshold)) \in Nat /\ Couples(ws, TurnChanges) \in Nat /\ Some(ws) \in Nat
  BY CouplesGrow DEF Some
<1> DEFINE p == Couples(ws, InTurn(threshold))
           q == Couples(ws, TurnChanges)
           x == Some(ws)
<1> HIDE DEF p, q, x
<1>4. p + q + x = p + (q + x)
  BY ONLY <1>3 DEF p, q, x
<1> QED  BY <1>1, <1>2, <1>4 DEF p, q, x

(* So in the parts, and in the session, runs end at pauses and turns. *)
LEMMA RunsBroken == Spoken => PausesBreakRuns
<1> SUFFICES ASSUME Spoken PROVE PausesBreakRuns
  OBVIOUS
<1> DEFINE a == Part(1)
           b == Part(2)
           c == Part(3)
           parts == load_words_by_phase
<1>1. /\ a \in Seq(Entry) /\ b \in Seq(Entry) /\ c \in Seq(Entry)
      /\ Orderly(a) /\ Orderly(b) /\ Orderly(c)
  BY PartsOrderly
<1>2. /\ Whole = (a \o b) \o c /\ a \o b \in Seq(Entry) /\ Whole \in Seq(Entry)
      /\ Apart(a, b) /\ Apart(a \o b, c) /\ Grouped(a \o b) /\ Grouped(Whole)
  BY WholeIs
<1>3. parts = <<a, b, c>> /\ session_words(parts) = Whole
  BY PartsFiled DEF Whole
<1> HIDE DEF a, b, c, parts
<1>4. Grouped(a) /\ Grouped(b) /\ Grouped(c)
  BY <1>1, OrderlyGrouped
<1>5. parsed_chunks(Whole) = FlattenSeq([i \in 1 .. 3 |-> parsed_chunks(parts[i])])
  <2> DEFINE seg(s) == segment_into_utterances(s, 600)
  <2>1. Split(a \o b, c, 600) /\ Split(a, b, 600)
    BY <1>1, <1>2, SegmentSplits, ZenonT(60)
  <2>2. seg(Whole) = seg(a) \o seg(b) \o seg(c)
    <3>1. /\ Whole = (a \o b) \o c /\ seg((a \o b) \o c) = seg(a \o b) \o seg(c)
          /\ seg(a \o b) = seg(a) \o seg(b)
      BY <1>2, <2>1 DEF Split
    <3> HIDE DEF seg
    <3> QED  BY ONLY <3>1
  <2>3. \A s \in Seq(Entry) : seg(s) \in Seq(Seq(Entry))
    BY SegmentGrows, ZenonT(60)
  <2>4. [i \in 1 .. 3 |-> seg(parts[i])] = <<seg(a), seg(b), seg(c)>>
    <3> HIDE DEF seg
    <3> QED  BY <1>3
  <2>5. FlattenSeq(<<seg(a), seg(b), seg(c)>>) = seg(a) \o seg(b) \o seg(c)
    <3> DEFINE B == Seq(Entry)
    <3>1. seg(a) \in Seq(B) /\ seg(b) \in Seq(B) /\ seg(c) \in Seq(B)
      BY <1>1, <2>3
    <3> HIDE DEF seg, B
    <3>2. Flattened(seg(a), seg(b), seg(c))
      BY <3>1, FlattenThree
    <3> QED  BY <3>2 DEF Flattened
  <2>6. \A s : parsed_chunks(s) = seg(s)
    BY DEF parsed_chunks, CHUNKING_PAUSE_THRESHOLD
  <2> HIDE DEF seg
  <2> QED  BY <2>2, <2>4, <2>5, <2>6
<1>6. ASSUME NEW ws \in Seq(Entry), Grouped(ws)
      PROVE  /\ Len(segment_into_utterances(ws, MICRO_PAUSE_FLOOR))
                  = Cardinality(_detect_pauses(ws)) + Cardinality(Turns(ws))
             /\ Len(parsed_chunks(ws))
                  = Cardinality(_classify_pause_placement(ws, _detect_pauses(ws))) + Cardinality(Turns(ws))
             /\ FlattenSeq(segment_into_utterances(ws, MICRO_PAUSE_FLOOR)) = ws
             /\ FlattenSeq(parsed_chunks(ws)) = ws
  BY <1>6, RunsCounted, PausesInTurn, SegmentHolds DEF parsed_chunks
<1>7. Range(parts) = {a, b, c}
  BY <1>3 DEF Range
<1>8. \A ws \in Range(parts) \cup {Whole} : ws \in Seq(Entry) /\ Grouped(ws)
  BY <1>1, <1>2, <1>4, <1>7
<1> QED  BY <1>3, <1>5, <1>6, <1>8 DEF PausesBreakRuns, parts

(* Whatever was said, runs end at pauses and at the ends of turns.         *)
THEOREM RunsEndAtPauses == EvidenceSpec => []PausesBreakRuns
BY RunsBroken, SpokenInit, SpokenStep, PTL DEF EvidenceSpec

----------------------------------------------------------------------------
(* Speaking time *)

(* The time that words take, and that turns take from their first word to  *)
(* the last.                                                               *)
Talk(ws) == Total([k \in DOMAIN ws |-> ws[k].end - ws[k].start])
Starts(ws, t) == {ws[k].start : k \in {m \in DOMAIN ws : ws[m].turn = t}}
Finishes(ws, t) == {ws[k].end : k \in {m \in DOMAIN ws : ws[m].turn = t}}
Span(ws) == sum([t \in Turns(ws) |-> Max(Finishes(ws, t)) - Min(Starts(ws, t))])

(* A word adds its own time. *)
LEMMA TalkGrows ==
    /\ Talk(<<>>) = 0
    /\ \A s \in Seq(Entry) : Talk(s) \in Int
    /\ \A s \in Seq(Entry) : \A w \in Entry : Talk(Append(s, w)) = Talk(s) + (w.end - w.start)
<1> DEFINE said(s) == [k \in DOMAIN s |-> s[k].end - s[k].start]
<1>1. ASSUME NEW e \in Entry PROVE e.end - e.start \in Int
  BY DEF Entry
<1>2. ASSUME NEW s \in Seq(Entry) PROVE said(s) \in Seq(Int) /\ Len(said(s)) = Len(s)
  <2> DEFINE n == Len(s)
  <2>1. n \in Nat /\ DOMAIN s = 1 .. n /\ \A k \in 1 .. n : s[k] \in Entry
    OBVIOUS
  <2> HIDE DEF n
  <2>2. said(s) \in [1 .. n -> Int]
    BY <2>1, <1>1
  <2> HIDE DEF said
  <2> QED  BY <2>1, <2>2 DEF n
<1>3. ASSUME NEW s \in Seq(Entry), NEW w \in Entry
      PROVE  said(Append(s, w)) = Append(said(s), w.end - w.start)
  <2> DEFINE n == Len(s)
             r == Append(s, w)
             p == said(s)
             x == w.end - w.start
             q == Append(p, x)
  <2>1. /\ n \in Nat /\ DOMAIN r = 1 .. n + 1 /\ r[n + 1] = w /\ DOMAIN s = 1 .. n
        /\ \A k \in 1 .. n : r[k] = s[k]
    OBVIOUS
  <2>2. /\ q \in Seq(Int) /\ Len(q) = n + 1 /\ q[n + 1] = x
        /\ \A k \in 1 .. n : q[k] = p[k]
    <3>1. p \in Seq(Int) /\ Len(p) = n /\ x \in Int
      BY <1>1, <1>2
    <3> HIDE DEF p, x, n
    <3> QED  BY <3>1, Appended
  <2>3. \A k \in 1 .. n : p[k] = s[k].end - s[k].start
    BY <2>1
  <2> HIDE DEF p, q, r, n
  <2>4. said(r) = [k \in 1 .. n + 1 |-> r[k].end - r[k].start]
    BY <2>1
  <2>5. q = [k \in 1 .. n + 1 |-> q[k]]
    BY <2>1, <2>2
  <2>6. \A k \in 1 .. n + 1 : q[k] = r[k].end - r[k].start
    <3> SUFFICES ASSUME NEW k \in 1 .. n + 1 PROVE q[k] = r[k].end - r[k].start
      OBVIOUS
    <3>1. k \in 1 .. n \/ k = n + 1
      BY <2>1
    <3> QED  BY <3>1, <2>1, <2>2, <2>3
  <2>7. said(r) = q
    BY <2>4, <2>5, <2>6
  <2> QED  BY <2>7 DEF r, q, p
<1>4. Talk(<<>>) = 0
  <2>1. said(<<>>) = <<>>
    OBVIOUS
  <2>2. Total(<<>>) = 0
    <3>1. <<>> \in Seq(Int) /\ 0 \in Int
      OBVIOUS
    <3> QED  BY <3>1, TotalGrows
  <2> QED  BY <2>1, <2>2 DEF Talk
<1>5. ASSUME NEW s \in Seq(Entry) PROVE Talk(s) \in Int
  <2>1. said(s) \in Seq(Int)
    BY <1>2
  <2>2. Total(said(s)) \in Int
    <3> DEFINE p == said(s)
    <3> HIDE DEF p
    <3>1. p \in Seq(Int)
      BY <2>1 DEF p
    <3>2. Total(p) \in Int
      BY <3>1, 0 \in Int, TotalGrows
    <3> QED  BY <3>2 DEF p
  <2> QED  BY <2>2 DEF Talk
<1>6. ASSUME NEW s \in Seq(Entry), NEW w \in Entry
      PROVE  Talk(Append(s, w)) = Talk(s) + (w.end - w.start)
  <2> DEFINE p == said(s)
             x == w.end - w.start
  <2>1. p \in Seq(Int) /\ x \in Int /\ said(Append(s, w)) = Append(p, x)
    BY <1>1, <1>2, <1>3
  <2> HIDE DEF p, x
  <2>2. Total(Append(p, x)) = Total(p) + x
    BY <2>1, TotalGrows
  <2> QED  BY <2>1, <2>2 DEF Talk, p, x
<1> QED  BY <1>4, <1>5, <1>6

(* Words that are grouped by turn, and in a turn one after the other.      *)
Apace == {p \in Entry \X Entry : p[1].turn = p[2].turn => p[1].end <= p[2].start}
Steady(s) == /\ Grouped(s) /\ Ordered(s, Apace)
             /\ \A e \in Range(s) : e.start <= e.end

(* They were so before the last word. *)
LEMMA SteadyBefore ==
    ASSUME NEW s \in Seq(Entry), NEW w \in Entry, Steady(Append(s, w))
    PROVE  /\ Steady(s) /\ w.start <= w.end
           /\ \A e \in Range(s) : e.turn = w.turn => e.end <= w.start
<1>1. Grouped(s)
  BY GroupedBefore DEF Steady
<1>2. Ordered(s, Apace) /\ \A e \in Range(s) : <<e, w>> \in Apace
  BY OrderedGrows DEF Steady
<1>3. Range(Append(s, w)) = Range(s) \cup {w}
  BY RangeGrows
<1>4. \A e \in Range(s) : e.turn = w.turn => e.end <= w.start
  BY <1>2 DEF Apace
<1> QED  BY <1>1, <1>2, <1>3, <1>4 DEF Steady

(* The last word of a turn ends last, and there is one that starts first.  *)
LEMMA Extent ==
    ASSUME NEW s \in Seq(Entry), Steady(s), NEW t \in Turns(s)
    PROVE  /\ Min(Starts(s, t)) \in Starts(s, t) /\ \A x \in Starts(s, t) : Min(Starts(s, t)) <= x
           /\ Min(Starts(s, t)) \in Nat /\ Max(Finishes(s, t)) \in Nat
           /\ \A e \in Range(s) : e.turn = t => e.start \in Starts(s, t) /\ e.start \in Nat /\ e.end \in Nat
           /\ s[Len(s)].turn = t => Max(Finishes(s, t)) = s[Len(s)].end
<1> DEFINE n == Len(s)
           at == {k \in 1 .. n : s[k].turn = t}
           starts == Starts(s, t)
           ends == Finishes(s, t)
<1>1. /\ n \in Nat /\ DOMAIN s = 1 .. n /\ \A k \in 1 .. n : s[k] \in Entry /\ s[k] \in Range(s)
      /\ starts = {s[k].start : k \in at} /\ ends = {s[k].end : k \in at}
  BY DEF Starts, Finishes, Range
<1>2. \A e \in Entry : e.start \in Nat /\ e.end \in Nat
  BY DEF Entry
<1>3. at # {}
  BY <1>1 DEF Turns
<1> HIDE DEF n, starts, ends
<1>4. starts \in SUBSET Nat /\ ends \in SUBSET Int /\ starts # {} /\ \A k \in at : s[k].end \in ends
  <2>1. \A k \in at : s[k].start \in Nat /\ s[k].end \in Nat
    BY <1>1, <1>2
  <2>2. starts \in SUBSET Nat /\ ends \in SUBSET Int
    BY <1>1, <2>1
  <2> HIDE DEF at
  <2> QED  BY <1>1, <1>3, <2>2
<1>5. Min(starts) \in starts /\ \A x \in starts : Min(starts) <= x
  <2>1. \E m \in starts : \A x \in starts : m <= x
    BY <1>4, LeastElement
  <2> QED  BY <2>1 DEF Min
<1>6. PICK m \in at : \A k \in at : k <= m
  <2>1. at \in SUBSET (1 .. n)
    OBVIOUS
  <2> HIDE DEF at
  <2> QED  BY <1>1, <1>3, <2>1, GreatestElement
<1>7. ASSUME NEW k \in at PROVE s[k].end <= s[m].end
  <2>1. k \in 1 .. n /\ m \in 1 .. n /\ k <= m /\ s[k].turn = s[m].turn
    BY <1>6
  <2>2. CASE k = m
    <3>1. s[m].end \in Nat
      BY <2>1, <1>1, <1>2
    <3> QED  BY <2>2, <3>1
  <2>3. CASE k # m
    <3>1. <<s[k], s[m]>> \in Apace
      BY <2>1, <2>3 DEF Steady, Ordered, n
    <3>2. s[k].end <= s[m].start /\ s[m].start <= s[m].end
      BY <3>1, <2>1, <1>1 DEF Apace, Steady
    <3>3. s[k].end \in Nat /\ s[m].start \in Nat /\ s[m].end \in Nat
      BY <2>1, <1>1, <1>2
    <3> QED  BY ONLY <3>2, <3>3
  <2> QED  BY <2>2, <2>3
<1>8. Max(ends) = s[m].end /\ s[m].end \in Nat
  <2>1. s[m].end \in ends /\ \A y \in ends : y <= s[m].end
    BY <1>1, <1>4, <1>6, <1>7
  <2>2. Max(ends) = s[m].end
    BY <1>4, <2>1, ExtremeIs
  <2>3. m \in 1 .. n
    BY <1>6
  <2> QED  BY <2>2, <2>3, <1>1, <1>2
<1>9. s[n].turn = t => m = n
  <2>1. m \in 1 .. n
    BY <1>6
  <2>2. n \in 1 .. n
    BY <2>1, <1>1
  <2> QED  BY <2>1, <2>2, <1>1, <1>6
<1>10. \A e \in Range(s) : e.turn = t => e.start \in starts /\ e.start \in Nat /\ e.end \in Nat
  <2> SUFFICES ASSUME NEW e \in Range(s), e.turn = t
               PROVE  e.start \in starts /\ e.start \in Nat /\ e.end \in Nat
    OBVIOUS
  <2>1. PICK k \in 1 .. n : e = s[k]
    BY <1>1 DEF Range
  <2> QED  BY <2>1, <1>1, <1>2
<1>11. Min(starts) \in Nat
  BY <1>4, <1>5
<1> QED  BY <1>5, <1>8, <1>9, <1>10, <1>11 DEF starts, ends, n

(* What a word adds to the time of the turns.                              *)
Reach(s, w) == IF s # <<>> /\ s[Len(s)].turn = w.turn
               THEN w.end - s[Len(s)].end ELSE w.end - w.start

(* It adds that, and no less than its own time. *)
LEMMA SpanGrows ==
    ASSUME NEW s \in Seq(Entry), NEW w \in Entry, Steady(Append(s, w))
    PROVE  /\ Span(s) \in Int /\ Reach(s, w) \in Int
           /\ Span(Append(s, w)) = Span(s) + Reach(s, w)
           /\ w.end - w.start <= Reach(s, w)
<1> DEFINE n == Len(s)
           r == Append(s, w)
           S == Turns(s)
           f == [t \in S |-> Max(Finishes(s, t)) - Min(Starts(s, t))]
           h == [t \in Turns(r) |-> Max(Finishes(r, t)) - Min(Starts(r, t))]
           wt == w.turn
<1>1. /\ n \in Nat /\ r \in Seq(Entry) /\ DOMAIN s = 1 .. n /\ DOMAIN r = 1 .. n + 1 /\ r[n + 1] = w
      /\ \A k \in 1 .. n : r[k] = s[k] /\ s[k] \in Range(s) /\ s[k] \in Entry
      /\ (s = <<>> <=> n = 0)
  BY DEF Range
<1>2. /\ Steady(s) /\ w.start <= w.end
      /\ \A e \in Range(s) : e.turn = wt => e.end <= w.start
  BY SteadyBefore
<1>3. IsFiniteSet(S) /\ Turns(r) = S \cup {wt}
  BY <1>2, TurnsChange, TurnsGrow DEF Steady
<1>4. /\ w.start \in Nat /\ w.end \in Nat
      /\ \A e \in Entry : e.start \in Nat /\ e.end \in Nat
  BY DEF Entry
<1>5. \A t \in S : f[t] \in Int
  <2> SUFFICES ASSUME NEW t \in S PROVE f[t] \in Int
    OBVIOUS
  <2>1. Min(Starts(s, t)) \in Nat /\ Max(Finishes(s, t)) \in Nat
    BY <1>2, Extent
  <2> QED  BY <2>1
<1>6. Span(s) = Sum(f, S) /\ Span(r) = Sum(h, S \cup {wt})
  <2>1. DOMAIN f = S /\ DOMAIN h = S \cup {wt}
    BY <1>3
  <2>2. sum(f) = Sum(f, S) /\ sum(h) = Sum(h, S \cup {wt})
    <3> HIDE DEF f, h, S
    <3> QED  BY <2>1, SumIs
  <2> QED  BY <2>2 DEF Span
<1>7. Span(s) \in Int
  <2> HIDE DEF f, S
  <2> QED  BY <1>3, <1>5, <1>6, SumType
<1> HIDE DEF n, r
<1>8. ASSUME NEW t, t # wt PROVE Starts(r, t) = Starts(s, t) /\ Finishes(r, t) = Finishes(s, t)
  <2>1. {m \in DOMAIN r : r[m].turn = t} = {m \in DOMAIN s : s[m].turn = t}
    BY <1>1, <1>8
  <2>2. \A m \in DOMAIN s : r[m] = s[m]
    BY <1>1
  <2> QED  BY <2>1, <2>2 DEF Starts, Finishes
<1>9. /\ Starts(r, wt) = Starts(s, wt) \cup {w.start}
      /\ Finishes(r, wt) = Finishes(s, wt) \cup {w.end}
  <2>1. {m \in DOMAIN r : r[m].turn = wt} = {m \in DOMAIN s : s[m].turn = wt} \cup {n + 1}
    BY <1>1
  <2>2. \A m \in DOMAIN s : r[m] = s[m]
    BY <1>1
  <2> QED  BY <2>1, <2>2, <1>1 DEF Starts, Finishes
<1>10. \A t \in S : t # wt => h[t] = f[t]
  BY <1>3, <1>8
<1>11. CASE wt \in S
  <2>1. n # 0 /\ s[n].turn = wt
    <3>1. s # <<>>
      BY <1>11, TurnsGrow
    <3>2. wt \in Turns(s) <=> s[Len(s)].turn = wt
      BY <3>1, GroupedBefore DEF Steady
    <3> QED  BY <3>1, <3>2, <1>1, <1>11 DEF n
  <2>2. s[n] \in Range(s) /\ s[n] \in Entry
    <3>1. n \in 1 .. n
      BY <1>1, <2>1
    <3> QED  BY <3>1, <1>1
  <2> DEFINE a == Min(Starts(s, wt))
             b == s[n].end
  <2>3. /\ a \in Starts(s, wt) /\ (\A x \in Starts(s, wt) : a <= x) /\ a \in Nat
        /\ Max(Finishes(s, wt)) = b /\ b \in Nat /\ s[n].start \in Starts(s, wt)
        /\ s[n].start \in Nat
    BY <1>2, <1>11, <2>1, <2>2, Extent DEF n
  <2>4. b <= w.start /\ s[n].start <= b
    BY <1>2, <2>1, <2>2 DEF Steady
  <2>5. Starts(s, wt) \subseteq Int /\ Finishes(s, wt) \subseteq Int
        /\ \A y \in Finishes(s, wt) : y <= w.start
    <3>1. \A m \in DOMAIN s : s[m] \in Entry /\ (s[m].turn = wt => s[m].end <= w.start)
      BY <1>1, <1>2
    <3> QED  BY <3>1, <1>4 DEF Starts, Finishes
  <2> HIDE DEF b
  <2>6. Min(Starts(r, wt)) = a
    <3>1. a <= w.start
      BY <2>3, <2>4, <1>4
    <3> HIDE DEF a
    <3>2. \A x \in Starts(r, wt) : a <= x
      BY <3>1, <2>3, <1>9
    <3>3. Starts(r, wt) \in SUBSET Int /\ a \in Starts(r, wt)
      BY <2>3, <2>5, <1>4, <1>9
    <3> QED  BY <3>2, <3>3, ExtremeIs
  <2>7. Max(Finishes(r, wt)) = w.end
    <3>1. \A y \in Finishes(r, wt) : y <= w.end
      <4>1. \A y \in Finishes(s, wt) : y <= w.end
        BY <2>5, <1>2, <1>4
      <4> QED  BY <4>1, <1>4, <1>9
    <3>2. Finishes(r, wt) \in SUBSET Int /\ w.end \in Finishes(r, wt)
      BY <2>5, <1>4, <1>9
    <3> QED  BY <3>1, <3>2, ExtremeIs
  <2>8. h[wt] = w.end - a /\ f[wt] = b - a
    BY <1>3, <1>11, <2>3, <2>6, <2>7
  <2> HIDE DEF a
  <2>9. Reach(s, w) = w.end - b
    BY <2>1, <1>1 DEF Reach, n, b
  <2>10. Changed(h, f, wt, w.end - b, S)
    <3>1. w.end - b \in Int /\ h[wt] = f[wt] + (w.end - b)
      BY <2>3, <2>8, <1>4
    <3> HIDE DEF h, f, S, wt
    <3> QED  BY <3>1, <1>5, <1>10, <1>11 DEF Changed
  <2>11. S \cup {wt} = S
    BY <1>11
  <2>12. Sum(h, S) = Sum(f, S) + (w.end - b)
    <3> HIDE DEF h, f, S, wt
    <3> QED  BY <2>10, <1>3, SumChanged
  <2>13. w.end - w.start <= w.end - b /\ w.end - b \in Int
    BY <2>3, <2>4, <1>4
  <2> QED  BY <1>6, <1>7, <2>9, <2>11, <2>12, <2>13 DEF r
<1>12. CASE wt \notin S
  <2>1. Starts(s, wt) = {} /\ Finishes(s, wt) = {}
    BY <1>12 DEF Turns, Starts, Finishes
  <2>2. Starts(r, wt) = {w.start} /\ Finishes(r, wt) = {w.end}
    BY <2>1, <1>9
  <2>3. Min(Starts(r, wt)) = w.start /\ Max(Finishes(r, wt)) = w.end
    <3>1. {w.start} \in SUBSET Int /\ {w.end} \in SUBSET Int /\ w.start <= w.start /\ w.end <= w.end
      BY <1>4
    <3> QED  BY <2>2, <3>1, ExtremeIs
  <2>4. h[wt] = w.end - w.start /\ h[wt] \in Int
    BY <2>3, <1>3, <1>4
  <2>5. \A t \in S : h[t] = f[t] /\ f[t] \in Int
    BY <1>5, <1>10, <1>12
  <2>6. Reach(s, w) = w.end - w.start
    <3>1. ~(s # <<>> /\ s[Len(s)].turn = w.turn)
      <4> SUFFICES ASSUME s # <<>> PROVE s[Len(s)].turn # wt
        OBVIOUS
      <4>1. wt \in Turns(s) <=> s[Len(s)].turn = wt
        BY GroupedBefore DEF Steady
      <4> QED  BY <4>1, <1>12
    <3> QED  BY <3>1 DEF Reach
  <2> HIDE DEF h, f, S, wt
  <2>7. Sum(h, S) = Sum(f, S)
    BY <2>5, <1>3, SumSame
  <2>8. Sum(h, S \cup {wt}) = Sum(h, S) + h[wt]
    BY <2>4, <2>5, <1>3, <1>12, SumOfMore
  <2>9. w.end - w.start \in Int
    BY <1>4
  <2> QED  BY <1>6, <1>7, <2>4, <2>6, <2>7, <2>8, <2>9 DEF r
<1> QED  BY <1>11, <1>12

(* No word, no time. *)
LEMMA SpanOfNone == Span(<<>>) = 0
<1> DEFINE f == [t \in Turns(<<>>) |-> Max(Finishes(<<>>, t)) - Min(Starts(<<>>, t))]
<1>1. DOMAIN f = {}
  BY DEF Turns
<1>2. sum(f) = Sum(f, {})
  <2> HIDE DEF f
  <2> QED  BY <1>1, SumIs
<1>3. Sum(f, {}) = 0
  BY SumOfNone
<1> QED  BY <1>2, <1>3 DEF Span

(* Words are spoken in the time of their turns,                            *)
LEMMA SpokenInTurn ==
    ASSUME NEW s \in Seq(Entry), Steady(s)
    PROVE  Talk(s) \in Int /\ Span(s) \in Int /\ Talk(s) <= Span(s)
<1> DEFINE T == {t \in Seq(Entry) : Steady(t) => Span(t) \in Int /\ Talk(t) <= Span(t)}
<1>1. <<>> \in T
  BY SpanOfNone, TalkGrows
<1>2. ASSUME NEW t \in Seq(Entry), NEW w \in Entry, t \in T PROVE Append(t, w) \in T
  <2> DEFINE r == Append(t, w)
  <2>0. r \in Seq(Entry)
    BY Appended
  <2> SUFFICES ASSUME Steady(r) PROVE Span(r) \in Int /\ Talk(r) <= Span(r)
    BY <2>0
  <2>1. Steady(t)
    BY SteadyBefore
  <2>2. /\ Span(t) \in Int /\ Reach(t, w) \in Int /\ Span(r) = Span(t) + Reach(t, w)
        /\ w.end - w.start <= Reach(t, w)
    BY SpanGrows
  <2>3. Talk(t) \in Int /\ Talk(r) = Talk(t) + (w.end - w.start) /\ w.end - w.start \in Int
    <3>1. w.end - w.start \in Int
      BY DEF Entry
    <3> QED  BY <3>1, TalkGrows
  <2>4. Talk(t) <= Span(t)
    BY <1>2, <2>1
  <2> DEFINE x == w.end - w.start
             a == Talk(t)
             b == Span(t)
             c == Reach(t, w)
  <2>5. /\ a \in Int /\ b \in Int /\ c \in Int /\ x \in Int /\ a <= b /\ x <= c
        /\ Span(r) = b + c /\ Talk(r) = a + x
    BY <2>2, <2>3, <2>4
  <2> HIDE DEF x, a, b, c
  <2> QED  BY ONLY <2>5
<1> HIDE DEF T
<1>3. \A t \in Seq(Entry) : t \in T
  BY <1>1, <1>2, Growing
<1> QED  BY <1>3, TalkGrows DEF T

(* and both add up,                                                        *)
LEMMA TalkJoins ==
    ASSUME NEW a \in Seq(Entry), NEW b \in Seq(Entry)
    PROVE  Talk(a \o b) = Talk(a) + Talk(b)
<1> DEFINE T == {s \in Seq(Entry) : Talk(a \o s) = Talk(a) + Talk(s)}
<1>0. Talk(<<>>) = 0 /\ Talk(a) \in Int
  BY TalkGrows
<1>1. <<>> \in T
  BY <1>0, Joined
<1>2. ASSUME NEW s \in Seq(Entry), NEW w \in Entry, s \in T PROVE Append(s, w) \in T
  <2> DEFINE r == Append(s, w)
             x == w.end - w.start
  <2>1. a \o r = Append(a \o s, w) /\ a \o s \in Seq(Entry) /\ r \in Seq(Entry)
    BY Joined, Appended
  <2>2. Talk(Append(a \o s, w)) = Talk(a \o s) + x /\ Talk(r) = Talk(s) + x /\ Talk(s) \in Int
    BY <2>1, TalkGrows
  <2>3. Talk(a \o s) = Talk(a) + Talk(s) /\ x \in Int
    BY <1>2 DEF Entry
  <2> HIDE DEF r, x
  <2>4. Talk(a \o r) = Talk(a) + Talk(r)
    BY <1>0, <2>1, <2>2, <2>3
  <2> QED  BY <2>1, <2>4 DEF r
<1> HIDE DEF T
<1>3. \A s \in Seq(Entry) : s \in T
  BY <1>1, <1>2, Growing
<1> QED  BY <1>3 DEF T

(* if no turn is in both.                                                  *)
LEMMA SteadyTogether ==
    ASSUME NEW a \in Seq(Entry), NEW b \in Seq(Entry), Apart(a, b), Steady(a), Steady(b)
    PROVE  Steady(a \o b)
<1> DEFINE T == {s \in Seq(Entry) : Apart(a, s) /\ Steady(s) => Steady(a \o s)}
<1>1. <<>> \in T
  BY Joined
<1>2. ASSUME NEW s \in Seq(Entry), NEW w \in Entry, s \in T PROVE Append(s, w) \in T
  <2> DEFINE r == Append(s, w)
             c == a \o s
  <2>0. a \o r = Append(c, w) /\ c \in Seq(Entry) /\ r \in Seq(Entry)
    BY Joined, Appended
  <2> SUFFICES ASSUME Apart(a, r), Steady(r) PROVE Steady(a \o r)
    BY <2>0
  <2>1. /\ Steady(s) /\ w.start <= w.end
        /\ \A e \in Range(s) : e.turn = w.turn => e.end <= w.start
    BY SteadyBefore
  <2>2. Apart(a, s) /\ w.turn \notin Turns(a)
    BY TurnsGrow DEF Apart
  <2>3. Steady(c)
    BY <1>2, <2>1, <2>2
  <2>4. Range(c) = Range(a) \cup Range(s)
    <3> DEFINE p == Len(a)
               q == Len(s)
    <3>1. /\ p \in Nat /\ q \in Nat /\ DOMAIN a = 1 .. p /\ DOMAIN s = 1 .. q /\ DOMAIN c = 1 .. p + q
          /\ \A k \in 1 .. p : c[k] = a[k]
          /\ \A k \in 1 .. q : c[p + k] = s[k]
      OBVIOUS
    <3> HIDE DEF p, q, c
    <3>2. ASSUME NEW y \in Range(c) PROVE y \in Range(a) \cup Range(s)
      <4>1. PICK k \in 1 .. p + q : c[k] = y
        BY <3>1 DEF Range
      <4>2. CASE k \in 1 .. p
        BY <4>1, <4>2, <3>1 DEF Range
      <4>3. CASE k > p
        <5> DEFINE m == k - p
        <5>1. m \in 1 .. q /\ p + m = k
          BY <4>3, <3>1
        <5> HIDE DEF m
        <5> QED  BY <5>1, <4>1, <3>1 DEF Range
      <4> QED  BY <4>2, <4>3, <3>1
    <3>3. ASSUME NEW y \in Range(a) PROVE y \in Range(c)
      <4>1. PICK k \in 1 .. p : a[k] = y
        BY <3>1 DEF Range
      <4>2. k \in 1 .. p + q
        BY <3>1
      <4> QED  BY <4>1, <4>2, <3>1 DEF Range
    <3>4. ASSUME NEW y \in Range(s) PROVE y \in Range(c)
      <4>1. PICK k \in 1 .. q : s[k] = y
        BY <3>1 DEF Range
      <4>2. p + k \in 1 .. p + q
        BY <3>1
      <4> QED  BY <4>1, <4>2, <3>1 DEF Range
    <3> QED  BY <3>2, <3>3, <3>4
  <2>5. \A e \in Range(a) : e.turn \in Turns(a) /\ e \in Entry
    BY DEF Range, Turns
  <2>6. \A e \in Range(c) : e \in Entry
    BY <2>0, RangeGrows
  <2>7. \A e \in Range(c) : <<e, w>> \in Apace
    <3> SUFFICES ASSUME NEW e \in Range(c) PROVE <<e, w>> \in Apace
      OBVIOUS
    <3>1. e.turn = w.turn => e.end <= w.start
      BY <2>1, <2>2, <2>4, <2>5
    <3>2. e \in Entry
      BY <2>6
    <3> HIDE DEF c
    <3> QED  BY <3>1, <3>2 DEF Apace
  <2> HIDE DEF r, c
  <2>8. Ordered(Append(c, w), Apace)
    BY <2>0, <2>3, <2>7, OrderedGrows DEF Steady
  <2>9. Range(Append(c, w)) = Range(c) \cup {w}
    BY <2>0, RangeGrows
  <2>10. Grouped(Append(c, w))
    <3>1. Grouped(a) /\ Grouped(r)
      BY DEF Steady
    <3>2. Grouped(a \o r)
      BY <2>0, <3>1, GroupedTogether
    <3> QED  BY <3>2, <2>0
  <2>11. Steady(Append(c, w))
    BY <2>1, <2>3, <2>8, <2>9, <2>10 DEF Steady
  <2> QED  BY <2>0, <2>11
<1> HIDE DEF T
<1>3. \A s \in Seq(Entry) : s \in T
  BY <1>1, <1>2, Growing
<1> QED  BY <1>3 DEF T

(* So the times of the turns add up. *)
LEMMA SpanJoins ==
    ASSUME NEW a \in Seq(Entry), NEW b \in Seq(Entry), Apart(a, b), Steady(a), Steady(b)
    PROVE  Span(a \o b) = Span(a) + Span(b)
<1> DEFINE T == {s \in Seq(Entry) : Apart(a, s) /\ Steady(s) => Span(a \o s) = Span(a) + Span(s)}
<1>0. Span(a) \in Int
  BY SpokenInTurn
<1>1. <<>> \in T
  BY <1>0, SpanOfNone, Joined
<1>2. ASSUME NEW s \in Seq(Entry), NEW w \in Entry, s \in T PROVE Append(s, w) \in T
  <2> DEFINE r == Append(s, w)
             c == a \o s
  <2>0. a \o r = Append(c, w) /\ c \in Seq(Entry) /\ r \in Seq(Entry)
    BY Joined, Appended
  <2> SUFFICES ASSUME Apart(a, r), Steady(r) PROVE Span(a \o r) = Span(a) + Span(r)
    BY <2>0
  <2>1. Steady(s)
    BY SteadyBefore
  <2>2. Apart(a, s) /\ w.turn \notin Turns(a)
    BY TurnsGrow DEF Apart
  <2>3. Steady(Append(c, w))
    BY <2>0, SteadyTogether
  <2>4. Span(c) = Span(a) + Span(s)
    BY <1>2, <2>1, <2>2
  <2>5. /\ Span(s) \in Int /\ Reach(s, w) \in Int /\ Span(r) = Span(s) + Reach(s, w)
    BY SpanGrows
  <2>6. Span(c) \in Int /\ Span(Append(c, w)) = Span(c) + Reach(c, w)
    <3> HIDE DEF c
    <3> QED  BY <2>0, <2>3, SpanGrows
  <2>7. Reach(c, w) = Reach(s, w)
    <3>1. CASE s # <<>>
      <4>1. c # <<>> /\ c[Len(c)] = s[Len(s)]
        BY <3>1
      <4> HIDE DEF c
      <4> QED  BY <3>1, <4>1 DEF Reach
    <3>2. CASE s = <<>>
      <4>1. c = a
        BY <3>2
      <4>2. a # <<>> => a[Len(a)].turn # w.turn
        <5> SUFFICES ASSUME a # <<>> PROVE a[Len(a)].turn # w.turn
          OBVIOUS
        <5>1. Len(a) \in 1 .. Len(a)
          OBVIOUS
        <5>2. a[Len(a)].turn \in Turns(a)
          BY <5>1, w \in Entry, TurnsGrow
        <5> QED  BY <5>2, <2>2
      <4> QED  BY <3>2, <4>1, <4>2 DEF Reach
    <3> QED  BY <3>1, <3>2
  <2> DEFINE x == Reach(s, w)
             p == Span(a)
             q == Span(s)
  <2>8. p \in Int /\ q \in Int /\ x \in Int /\ Span(a \o r) = (p + q) + x /\ Span(r) = q + x
    BY <1>0, <2>0, <2>4, <2>5, <2>6, <2>7
  <2> HIDE DEF x, p, q, r
  <2>9. Span(a \o r) = p + Span(r)
    BY ONLY <2>8
  <2> QED  BY <2>9 DEF p
<1> HIDE DEF T
<1>3. \A s \in Seq(Entry) : s \in T
  BY <1>1, <1>2, Growing
<1> QED  BY <1>3 DEF T

----------------------------------------------------------------------------
(* The session's figures *)

FilledWords == {e \in Entry : e.word \in FILLED_PAUSES}
Bigrams == {p \in Entry \X Entry : <<p[1].word, p[2].word>> \in FILLED_PAUSE_BIGRAMS}
Repeats == {p \in Entry \X Entry : p[1].word = p[2].word}

(* What the figures count.                                                 *)
LEMMA FiguresAre ==
    ASSUME NEW ws \in Seq(Entry)
    PROVE  _metrics_for_words(ws) =
             [total_words |-> Len(ws), phonation |-> Talk(ws), total_turn_duration |-> Span(ws),
              pauses |-> Couples(ws, InTurn(MICRO_PAUSE_FLOOR)),
              macro_pauses |-> Couples(ws, InTurn(MACRO_PAUSE_FLOOR)),
              runs |-> Len(segment_into_utterances(ws, MICRO_PAUSE_FLOOR)),
              filled |-> Tally(ws, FilledWords) + Couples(ws, Bigrams),
              repairs |-> Couples(ws, Repeats)]
<1> DEFINE n == Len(ws)
<1>1. n \in Nat /\ DOMAIN ws = 1 .. n /\ \A k \in 1 .. n : ws[k] \in Entry
  OBVIOUS
<1> HIDE DEF n
<1>2. Pairs(ws) = 1 .. n - 1 /\ \A k \in 1 .. n - 1 : ws[k] \in Entry /\ ws[k + 1] \in Entry
  <2>1. \A k \in 1 .. n - 1 : k \in 1 .. n /\ k + 1 \in 1 .. n
    BY <1>1
  <2>2. Pairs(ws) = 1 .. n - 1
    BY DEF Pairs, n
  <2> QED  BY <1>1, <2>1, <2>2
<1>3. {k \in DOMAIN ws : ws[k].word \in FILLED_PAUSES} = {k \in 1 .. n : ws[k] \in FilledWords}
  BY <1>1 DEF FilledWords
<1>4. {k \in Pairs(ws) : <<ws[k].word, ws[k + 1].word>> \in FILLED_PAUSE_BIGRAMS}
        = {k \in 1 .. n - 1 : <<ws[k], ws[k + 1]>> \in Bigrams}
  <2>1. ASSUME NEW k \in 1 .. n - 1
        PROVE  <<ws[k], ws[k + 1]>> \in Bigrams
                 <=> <<ws[k].word, ws[k + 1].word>> \in FILLED_PAUSE_BIGRAMS
    BY <1>2 DEF Bigrams
  <2> QED  BY <1>2, <2>1
<1>5. {k \in Pairs(ws) : ws[k].word = ws[k + 1].word}
        = {k \in 1 .. n - 1 : <<ws[k], ws[k + 1]>> \in Repeats}
  <2>1. ASSUME NEW k \in 1 .. n - 1
        PROVE  <<ws[k], ws[k + 1]>> \in Repeats <=> ws[k].word = ws[k + 1].word
    BY <1>2 DEF Repeats
  <2> QED  BY <1>2, <2>1
<1>6. _filled_pause_count(ws) = Tally(ws, FilledWords) + Couples(ws, Bigrams)
  BY <1>3, <1>4 DEF _filled_pause_count, Tally, Couples, n
<1>7. _self_repair_count(ws) = Couples(ws, Repeats)
  BY <1>5 DEF _self_repair_count, Couples, n
<1>8. /\ Cardinality(_detect_pauses(ws)) = Couples(ws, InTurn(MICRO_PAUSE_FLOOR))
      /\ Cardinality({k \in _detect_pauses(ws) : Gap(ws, k) >= MACRO_PAUSE_FLOOR})
           = Couples(ws, InTurn(MACRO_PAUSE_FLOOR))
  BY PausesInTurn
<1> QED  BY <1>6, <1>7, <1>8 DEF _metrics_for_words, Talk, Span, Starts, Finishes

(* They add up, but for what is matched across a seam.                     *)
AddsUp(a, b, ws) ==
    /\ Len(ws) = Len(a) + Len(b) /\ Talk(ws) = Talk(a) + Talk(b) /\ Span(ws) = Span(a) + Span(b)
    /\ \A threshold : /\ Couples(ws, InTurn(threshold))
                           = Couples(a, InTurn(threshold)) + Couples(b, InTurn(threshold))
                      /\ Len(segment_into_utterances(ws, threshold))
                           = Len(segment_into_utterances(a, threshold))
                               + Len(segment_into_utterances(b, threshold))
    /\ Tally(ws, FilledWords) = Tally(a, FilledWords) + Tally(b, FilledWords)
    /\ \A R : Couples(ws, R) = Couples(a, R) + Couples(b, R) + Seam(a, b, R)

(* All of them do, if no turn is in both. *)
LEMMA FiguresAddUp ==
    ASSUME NEW a \in Seq(Entry), NEW b \in Seq(Entry), Apart(a, b), Steady(a), Steady(b)
    PROVE  AddsUp(a, b, a \o b)
<1>1. Len(a \o b) = Len(a) + Len(b)
  OBVIOUS
<1>2. Talk(a \o b) = Talk(a) + Talk(b) /\ Span(a \o b) = Span(a) + Span(b)
  BY TalkJoins, SpanJoins
<1>3. ASSUME NEW R PROVE Couples(a \o b, R) = Couples(a, R) + Couples(b, R) + Seam(a, b, R)
  BY CouplesJoin
<1>4. ASSUME NEW threshold
      PROVE  Couples(a \o b, InTurn(threshold))
               = Couples(a, InTurn(threshold)) + Couples(b, InTurn(threshold))
  <2>1. Seam(a, b, InTurn(threshold)) = 0
    <3> SUFFICES ASSUME a # <<>>, b # <<>>, <<a[Len(a)], b[1]>> \in InTurn(threshold) PROVE FALSE
      BY DEF Seam
    <3>1. a[Len(a)].turn = b[1].turn
      BY DEF InTurn
    <3>2. Len(a) \in DOMAIN a /\ 1 \in DOMAIN b
      OBVIOUS
    <3>3. a[Len(a)].turn \in Turns(a) /\ b[1].turn \in Turns(b)
      BY <3>2 DEF Turns
    <3> QED  BY <3>1, <3>3 DEF Apart
  <2>2. Couples(a, InTurn(threshold)) \in Nat /\ Couples(b, InTurn(threshold)) \in Nat
    BY CouplesGrow
  <2> QED  BY <2>1, <2>2, <1>3
<1>5. ASSUME NEW threshold
      PROVE  Len(segment_into_utterances(a \o b, threshold))
               = Len(segment_into_utterances(a, threshold)) + Len(segment_into_utterances(b, threshold))
  <2> DEFINE p == segment_into_utterances(a, threshold)
             q == segment_into_utterances(b, threshold)
  <2>1. segment_into_utterances(a \o b, threshold) = p \o q
    <3>1. Split(a, b, threshold)
      BY SegmentSplits
    <3> QED  BY <3>1 DEF Split
  <2>2. p \in Seq(Seq(Entry)) /\ q \in Seq(Seq(Entry))
    BY SegmentGrows
  <2> HIDE DEF p, q
  <2>3. Len(p \o q) = Len(p) + Len(q)
    BY <2>2
  <2> QED  BY <2>1, <2>3 DEF p, q
<1>6. Tally(a \o b, FilledWords) = Tally(a, FilledWords) + Tally(b, FilledWords)
  BY TallyJoins
<1> QED  BY <1>1, <1>2, <1>3, <1>4, <1>5, <1>6 DEF AddsUp

(* At each seam a neighbour more, if there are words on both sides.        *)
Seams(a, b, c, R) == Seam(a, b, R) + Seam(a \o b, c, R)
Joints(parts) == Max({0, Cardinality({i \in 1 .. 3 : parts[i].total_words > 0}) - 1})
LongAs(parts, a, b, c) == \A i \in 1 .. 3 : parts[i].total_words = Len(<<a, b, c>>[i])

(* There are fewer seams than parts with words. *)
LEMMA SeamsBounded ==
    ASSUME NEW a \in Seq(Entry), NEW b \in Seq(Entry), NEW c \in Seq(Entry), NEW R,
           NEW parts, LongAs(parts, a, b, c)
    PROVE  Seams(a, b, c, R) \in 0 .. Joints(parts)
<1> DEFINE ls == <<Len(a), Len(b), Len(c)>>
           V == Nat \ {0}
           x == Bit(Len(a), V)
           y == Bit(Len(b), V)
           z == Bit(Len(c), V)
           m == Cardinality({i \in 1 .. 3 : parts[i].total_words > 0})
<1>0. Len(a) \in Nat /\ Len(b) \in Nat /\ Len(c) \in Nat
  OBVIOUS
<1>1. m = Tally(ls, V)
  <2>1. \A i \in 1 .. 3 : parts[i].total_words > 0 <=> ls[i] \in V
    <3>1. \A i \in 1 .. 3 : i = 1 \/ i = 2 \/ i = 3
      OBVIOUS
    <3>2. ls[1] = Len(a) /\ ls[2] = Len(b) /\ ls[3] = Len(c)
      OBVIOUS
    <3>3. parts[1].total_words = Len(a) /\ parts[2].total_words = Len(b) /\ parts[3].total_words = Len(c)
      BY DEF LongAs
    <3> HIDE DEF ls
    <3> QED  BY <1>0, <3>1, <3>2, <3>3
  <2>2. Len(ls) = 3
    OBVIOUS
  <2>3. {i \in 1 .. 3 : parts[i].total_words > 0} = {k \in 1 .. Len(ls) : ls[k] \in V}
    <3> HIDE DEF ls, V
    <3> QED  BY <2>1, <2>2
  <2> HIDE DEF ls, V
  <2> QED  BY <2>3 DEF Tally
<1>2. m = x + y + z
  <2>1. /\ <<>> \in Seq(Nat) /\ <<Len(a)>> \in Seq(Nat) /\ <<Len(a), Len(b)>> \in Seq(Nat)
        /\ <<Len(a)>> = Append(<<>>, Len(a)) /\ <<Len(a), Len(b)>> = Append(<<Len(a)>>, Len(b))
        /\ ls = Append(<<Len(a), Len(b)>>, Len(c))
    BY <1>0
  <2>2. Tally(<<>>, V) = 0
    BY TallyGrows
  <2>3. Tally(<<Len(a)>>, V) = 0 + x
    <3> HIDE DEF V
    <3> QED  BY <1>0, <2>1, <2>2, TallyGrows
  <2>4. Tally(<<Len(a), Len(b)>>, V) = Tally(<<Len(a)>>, V) + y
    <3> HIDE DEF V
    <3> QED  BY <1>0, <2>1, TallyGrows
  <2>5. Tally(ls, V) = Tally(<<Len(a), Len(b)>>, V) + z
    <3> HIDE DEF V, ls
    <3> QED  BY <1>0, <2>1, TallyGrows
  <2>6. x \in Nat /\ y \in Nat /\ z \in Nat
    BY DEF Bit
  <2> QED  BY <1>1, <2>3, <2>4, <2>5, <2>6
<1> DEFINE s == Seam(a, b, R)
           t == Seam(a \o b, c, R)
<1>3. /\ x \in {0, 1} /\ y \in {0, 1} /\ z \in {0, 1} /\ s \in {0, 1} /\ t \in {0, 1}
      /\ (x = 0 <=> a = <<>>) /\ (y = 0 <=> b = <<>>) /\ (z = 0 <=> c = <<>>)
      /\ (s = 1 => a # <<>> /\ b # <<>>) /\ (t = 1 => a \o b # <<>> /\ c # <<>>)
  <2>1. s \in {0, 1} /\ t \in {0, 1}
    BY DEF Seam
  <2>2. (s = 1 => a # <<>> /\ b # <<>>) /\ (t = 1 => a \o b # <<>> /\ c # <<>>)
    BY DEF Seam
  <2>3. x \in {0, 1} /\ y \in {0, 1} /\ z \in {0, 1}
    BY DEF Bit
  <2>4. (x = 0 <=> a = <<>>) /\ (y = 0 <=> b = <<>>) /\ (z = 0 <=> c = <<>>)
    <3>1. (Len(a) = 0 <=> a = <<>>) /\ (Len(b) = 0 <=> b = <<>>) /\ (Len(c) = 0 <=> c = <<>>)
      OBVIOUS
    <3> QED  BY <3>1, <1>0 DEF Bit
  <2> HIDE DEF x, y, z, s, t
  <2> QED  BY <2>1, <2>2, <2>3, <2>4
<1>4. a = <<>> /\ b = <<>> => a \o b = <<>>
  OBVIOUS
<1> HIDE DEF x, y, z, s, t
<1>5. /\ s + t \in Nat
      /\ m = 0 => s + t = 0
      /\ m # 0 => s + t <= m - 1
      /\ m \in Nat
  <2>1. t = 1 => (x = 1 \/ y = 1) /\ z = 1
    BY <1>3, <1>4
  <2>2. s = 1 => x = 1 /\ y = 1
    BY <1>3
  <2>3. x \in {0, 1} /\ y \in {0, 1} /\ z \in {0, 1} /\ s \in {0, 1} /\ t \in {0, 1}
    BY <1>3
  <2> HIDE DEF m
  <2> QED  BY ONLY <1>2, <2>1, <2>2, <2>3
<1> HIDE DEF m
<1>6. Max({0, m - 1}) = IF m = 0 THEN 0 ELSE m - 1
  <2>1. {0, m - 1} \in SUBSET Int
    BY <1>5
  <2>2. CASE m = 0
    <3>1. \A w \in {0, m - 1} : w <= 0
      BY <2>2
    <3> QED  BY <2>1, <2>2, <3>1, ExtremeIs
  <2>3. CASE m # 0
    <3>1. \A w \in {0, m - 1} : w <= m - 1
      BY <1>5, <2>3
    <3> QED  BY <2>1, <2>3, <3>1, ExtremeIs
  <2> QED  BY <2>2, <2>3
<1>7. s + t \in 0 .. Max({0, m - 1})
  BY <1>5, <1>6
<1> QED  BY <1>7 DEF Seams, Joints, s, t, m

(* A figure of three parts.                                                *)
AddsField(p, q, r, f) == Total([i \in 1 .. 3 |-> <<p, q, r>>[i][f]]) = p[f] + q[f] + r[f]

(* Its total is the sum. *)
LEMMA TotalOfField ==
    ASSUME NEW p, NEW q, NEW r, NEW f, p[f] \in Int, q[f] \in Int, r[f] \in Int
    PROVE  AddsField(p, q, r, f)
<1>1. [i \in 1 .. 3 |-> <<p, q, r>>[i][f]] = <<p[f], q[f], r[f]>>
  OBVIOUS
<1> QED  BY <1>1, TotalOfThree DEF AddsField

(* Words in their order are one after the other in a turn.                 *)
LEMMA OrderlySteady ==
    ASSUME NEW s \in Seq(Entry), Orderly(s)
    PROVE  Steady(s)
<1>1. Follows \subseteq Apace
  BY DEF Follows, Apace
<1>2. Ordered(s, Apace)
  BY <1>1 DEF Orderly, Ordered
<1>3. Grouped(s)
  BY OrderlyGrouped
<1> QED  BY <1>2, <1>3 DEF Orderly, Steady

(* So are the words of the parts, and those of the session. *)
LEMMA WholeSteady ==
    ASSUME Spoken
    PROVE  /\ \A i \in 1 .. 3 : Part(i) \in Seq(Entry) /\ Steady(Part(i))
           /\ Steady(Part(1) \o Part(2)) /\ Steady(Whole)
<1> DEFINE a == Part(1)
           b == Part(2)
           c == Part(3)
<1>1. \A i \in 1 .. 3 : Part(i) \in Seq(Entry) /\ Steady(Part(i))
  BY PartsOrderly, OrderlySteady
<1>2. a \in Seq(Entry) /\ b \in Seq(Entry) /\ c \in Seq(Entry) /\ Steady(a) /\ Steady(b) /\ Steady(c)
  BY <1>1
<1>3. Whole = (a \o b) \o c /\ a \o b \in Seq(Entry) /\ Apart(a, b) /\ Apart(a \o b, c)
  BY WholeIs
<1> HIDE DEF a, b, c
<1>4. Steady(a \o b)
  BY <1>2, <1>3, SteadyTogether
<1>5. Steady((a \o b) \o c)
  BY <1>2, <1>3, <1>4, SteadyTogether
<1> QED  BY <1>1, <1>3, <1>4, <1>5 DEF a, b

(* The figures are numbers.                                                *)
Figure == {"total_words", "phonation", "total_turn_duration", "pauses", "macro_pauses", "runs",
           "filled", "repairs"}
Added == Figure \ {"filled", "repairs"}

(* All of them, of every such sequence. *)
LEMMA FiguresType ==
    ASSUME NEW s \in Seq(Entry), Steady(s)
    PROVE  /\ DOMAIN _metrics_for_words(s) = Figure
           /\ \A f \in Figure : _metrics_for_words(s)[f] \in Int
<1> DEFINE l == Len(s)
           t == Talk(s)
           u == Span(s)
           p == Couples(s, InTurn(MICRO_PAUSE_FLOOR))
           m == Couples(s, InTurn(MACRO_PAUSE_FLOOR))
           r == Len(segment_into_utterances(s, MICRO_PAUSE_FLOOR))
           x == Tally(s, FilledWords)
           y == Couples(s, Bigrams)
           z == Couples(s, Repeats)
<1>1. _metrics_for_words(s) = [total_words |-> l, phonation |-> t, total_turn_duration |-> u,
         pauses |-> p, macro_pauses |-> m, runs |-> r, filled |-> x + y, repairs |-> z]
  BY FiguresAre
<1>2. l \in Nat /\ t \in Int /\ u \in Int /\ p \in Nat /\ m \in Nat /\ x \in Nat /\ y \in Nat /\ z \in Nat
  <2>1. t \in Int /\ u \in Int
    BY SpokenInTurn
  <2>2. p \in Nat /\ m \in Nat /\ y \in Nat /\ z \in Nat
    BY CouplesGrow
  <2>3. x \in Nat
    BY TallyGrows
  <2>4. l \in Nat
    OBVIOUS
  <2> QED  BY <2>1, <2>2, <2>3, <2>4
<1>3. r \in Nat
  <2>1. segment_into_utterances(s, MICRO_PAUSE_FLOOR) \in Seq(Seq(Entry))
    BY SegmentGrows
  <2> DEFINE B == Seq(Entry)
             g == segment_into_utterances(s, MICRO_PAUSE_FLOOR)
  <2> HIDE DEF B, g
  <2>2. g \in Seq(B)
    BY <2>1 DEF B, g
  <2> QED  BY <2>2 DEF g
<1> HIDE DEF l, t, u, p, m, r, x, y, z
<1>4. x + y \in Int
  BY <1>2
<1> QED  BY <1>1, <1>2, <1>3, <1>4 DEF Figure

(* Those of the session, and those of its parts.                           *)
LEMMA SessionAddsUp ==
    ASSUME Spoken
    PROVE  LET A == _metrics_for_words(Part(1))
               B == _metrics_for_words(Part(2))
               C == _metrics_for_words(Part(3))
               S == _metrics_for_words(Whole)
           IN  /\ \A f \in Added : S[f] = A[f] + B[f] + C[f]
               /\ S["filled"] = (A["filled"] + B["filled"] + C["filled"])
                                 + Seams(Part(1), Part(2), Part(3), Bigrams)
               /\ S["repairs"] = (A["repairs"] + B["repairs"] + C["repairs"])
                                 + Seams(Part(1), Part(2), Part(3), Repeats)
<1> DEFINE a == Part(1)
           b == Part(2)
           c == Part(3)
           A == _metrics_for_words(a)
           B == _metrics_for_words(b)
           C == _metrics_for_words(c)
           S == _metrics_for_words(Whole)
<1>1. /\ a \in Seq(Entry) /\ b \in Seq(Entry) /\ c \in Seq(Entry)
      /\ Steady(a) /\ Steady(b) /\ Steady(c) /\ Steady(a \o b)
  BY WholeSteady
<1>2. /\ Whole = (a \o b) \o c /\ a \o b \in Seq(Entry) /\ Whole \in Seq(Entry)
      /\ Apart(a, b) /\ Apart(a \o b, c)
  BY WholeIs
<1> HIDE DEF a, b, c
<1>3. AddsUp(a, b, a \o b)
  BY <1>1, <1>2, FiguresAddUp
<1>4. AddsUp(a \o b, c, Whole)
  BY <1>1, <1>2, FiguresAddUp
<1>5. ASSUME NEW s \in Seq(Entry)
      PROVE  /\ _metrics_for_words(s)["total_words"] = Len(s)
             /\ _metrics_for_words(s)["phonation"] = Talk(s)
             /\ _metrics_for_words(s)["total_turn_duration"] = Span(s)
             /\ _metrics_for_words(s)["pauses"] = Couples(s, InTurn(MICRO_PAUSE_FLOOR))
             /\ _metrics_for_words(s)["macro_pauses"] = Couples(s, InTurn(MACRO_PAUSE_FLOOR))
             /\ _metrics_for_words(s)["runs"] = Len(segment_into_utterances(s, MICRO_PAUSE_FLOOR))
             /\ _metrics_for_words(s)["filled"] = Tally(s, FilledWords) + Couples(s, Bigrams)
             /\ _metrics_for_words(s)["repairs"] = Couples(s, Repeats)
  BY FiguresAre
<1>11. ASSUME NEW thr
       PROVE  /\ Couples(Whole, InTurn(thr)) = Couples(a, InTurn(thr)) + Couples(b, InTurn(thr))
                                                + Couples(c, InTurn(thr))
              /\ Len(segment_into_utterances(Whole, thr))
                   = Len(segment_into_utterances(a, thr)) + Len(segment_into_utterances(b, thr))
                       + Len(segment_into_utterances(c, thr))
  <2>1. /\ Couples(a \o b, InTurn(thr)) = Couples(a, InTurn(thr)) + Couples(b, InTurn(thr))
        /\ Len(segment_into_utterances(a \o b, thr))
             = Len(segment_into_utterances(a, thr)) + Len(segment_into_utterances(b, thr))
    BY <1>3 DEF AddsUp
  <2>2. /\ Couples(Whole, InTurn(thr)) = Couples(a \o b, InTurn(thr)) + Couples(c, InTurn(thr))
        /\ Len(segment_into_utterances(Whole, thr))
             = Len(segment_into_utterances(a \o b, thr)) + Len(segment_into_utterances(c, thr))
    BY <1>4 DEF AddsUp
  <2> QED  BY <2>1, <2>2
<1>6. ASSUME NEW f \in Added PROVE S[f] = A[f] + B[f] + C[f]
  <2>1. CASE f = "total_words"
    BY <2>1, <1>1, <1>2, <1>3, <1>4, <1>5 DEF AddsUp
  <2>2. CASE f = "phonation"
    BY <2>2, <1>1, <1>2, <1>3, <1>4, <1>5 DEF AddsUp
  <2>3. CASE f = "total_turn_duration"
    BY <2>3, <1>1, <1>2, <1>3, <1>4, <1>5 DEF AddsUp
  <2>4. CASE f = "pauses"
    BY <2>4, <1>1, <1>2, <1>5, <1>11
  <2>5. CASE f = "macro_pauses"
    BY <2>5, <1>1, <1>2, <1>5, <1>11
  <2>6. CASE f = "runs"
    BY <2>6, <1>1, <1>2, <1>5, <1>11
  <2> QED  BY <2>1, <2>2, <2>3, <2>4, <2>5, <2>6 DEF Added, Figure
<1>7. ASSUME NEW R
      PROVE  /\ Couples(Whole, R) = ((Couples(a, R) + Couples(b, R)) + Seam(a, b, R))
                                      + Couples(c, R) + Seam(a \o b, c, R)
             /\ Couples(a, R) \in Nat /\ Couples(b, R) \in Nat /\ Couples(c, R) \in Nat
             /\ Seam(a, b, R) \in Nat /\ Seam(a \o b, c, R) \in Nat
  <2>1. Couples(a, R) \in Nat /\ Couples(b, R) \in Nat /\ Couples(c, R) \in Nat
    BY <1>1, CouplesGrow
  <2>2. Seam(a, b, R) \in Nat /\ Seam(a \o b, c, R) \in Nat
    BY DEF Seam
  <2> QED  BY <1>3, <1>4, <2>1, <2>2 DEF AddsUp
<1>8. S["repairs"] = (A["repairs"] + B["repairs"] + C["repairs"]) + Seams(a, b, c, Repeats)
  <2> DEFINE p == Couples(a, Repeats)
             q == Couples(b, Repeats)
             r == Couples(c, Repeats)
             s == Seam(a, b, Repeats)
             t == Seam(a \o b, c, Repeats)
  <2>1. /\ Couples(Whole, Repeats) = ((p + q) + s) + r + t
        /\ p \in Nat /\ q \in Nat /\ r \in Nat /\ s \in Nat /\ t \in Nat
    BY <1>7
  <2>2. A["repairs"] = p /\ B["repairs"] = q /\ C["repairs"] = r /\ S["repairs"] = Couples(Whole, Repeats)
    BY <1>1, <1>2, <1>5
  <2>3. Seams(a, b, c, Repeats) = s + t
    BY DEF Seams
  <2> HIDE DEF p, q, r, s, t, A, B, C, S
  <2> QED  BY ONLY <2>1, <2>2, <2>3
<1>9. S["filled"] = (A["filled"] + B["filled"] + C["filled"]) + Seams(a, b, c, Bigrams)
  <2> DEFINE p == Couples(a, Bigrams)
             q == Couples(b, Bigrams)
             r == Couples(c, Bigrams)
             s == Seam(a, b, Bigrams)
             t == Seam(a \o b, c, Bigrams)
             x == Tally(a, FilledWords)
             y == Tally(b, FilledWords)
             z == Tally(c, FilledWords)
  <2>1. /\ Couples(Whole, Bigrams) = ((p + q) + s) + r + t
        /\ p \in Nat /\ q \in Nat /\ r \in Nat /\ s \in Nat /\ t \in Nat
    BY <1>7
  <2>2. /\ A["filled"] = x + p /\ B["filled"] = y + q /\ C["filled"] = z + r
        /\ S["filled"] = Tally(Whole, FilledWords) + Couples(Whole, Bigrams)
    BY <1>1, <1>2, <1>5
  <2>3. Seams(a, b, c, Bigrams) = s + t
    BY DEF Seams
  <2>4. x \in Nat /\ y \in Nat /\ z \in Nat
    BY <1>1, TallyGrows
  <2>5. Tally(Whole, FilledWords) = (x + y) + z
    BY <1>3, <1>4 DEF AddsUp
  <2> HIDE DEF p, q, r, s, t, x, y, z, A, B, C, S
  <2> QED  BY ONLY <2>1, <2>2, <2>3, <2>4, <2>5
<1>10. /\ \A f \in Added : S[f] = A[f] + B[f] + C[f]
       /\ S["filled"] = (A["filled"] + B["filled"] + C["filled"]) + Seams(a, b, c, Bigrams)
       /\ S["repairs"] = (A["repairs"] + B["repairs"] + C["repairs"]) + Seams(a, b, c, Repeats)
  BY <1>6, <1>8, <1>9
<1> QED  BY <1>10 DEF a, b, c

----------------------------------------------------------------------------
(* What pronunciation is scored against *)

(* What a part has of an answer: all of it, or nothing.                    *)
Uttered(k) == {w \in Range(Row) : w.turn = k}
Said(i, k) == Those(Part(i), {w \in Range(Part(i)) : w.turn = k})

(* All, if the part is the answer's, and else nothing. *)
LEMMA SaidInItsPart ==
    ASSUME Spoken, NEW i \in 1 .. 3, NEW k
    PROVE  Said(i, k) = IF _PHASE_BUCKETS(answers[k].phase) = PHASE_BUCKET_ORDER[i]
                        THEN Those(Row, Uttered(k)) ELSE <<>>
<1> DEFINE W == {w \in Bucket(i) : w.turn = k}
<1>1. Range(Part(i)) = Bucket(i) /\ Row \in Seq(Entry)
  BY PartsOrderly, RowOrderly
<1>2. Said(i, k) = Those(Those(Row, Bucket(i)), W)
  BY <1>1 DEF Said, Part
<1>3. Sifted(Row, Bucket(i), W)
  BY <1>1, ThoseOfThose
<1>4. Said(i, k) = Those(Row, Bucket(i) \cap W)
  <2> HIDE DEF W
  <2> QED  BY <1>2, <1>3 DEF Sifted
<1>5. CASE _PHASE_BUCKETS(answers[k].phase) = PHASE_BUCKET_ORDER[i]
  <2>1. Bucket(i) \cap W = Uttered(k)
    BY <1>5 DEF Bucket, Uttered
  <2> HIDE DEF W
  <2> QED  BY <1>4, <1>5, <2>1
<1>6. CASE _PHASE_BUCKETS(answers[k].phase) # PHASE_BUCKET_ORDER[i]
  <2>1. Bucket(i) \cap W = {}
    BY <1>6 DEF Bucket
  <2> HIDE DEF W
  <2>2. Those(Row, {}) = <<>>
    BY <1>1, ThoseNone
  <2> QED  BY <1>4, <1>6, <2>1, <2>2
<1> QED  BY <1>5, <1>6

(* The two tables of phases agree.                                         *)
LEMMA TablesAgree ==
    ASSUME NEW p
    PROVE  /\ p \in DOMAIN SCOREABLE_BUCKETS =>
                /\ SCOREABLE_BUCKETS[p] = _PHASE_BUCKETS(p)
                /\ \E i \in 1 .. 3 : PHASE_BUCKET_ORDER[i] = _PHASE_BUCKETS(p)
           /\ p \notin DOMAIN SCOREABLE_BUCKETS =>
                \A i \in 1 .. 3 : PHASE_BUCKET_ORDER[i] # _PHASE_BUCKETS(p)
           /\ \A i, j \in 1 .. 3 : i # j => PHASE_BUCKET_ORDER[i] # PHASE_BUCKET_ORDER[j]
<1>1. DOMAIN SCOREABLE_BUCKETS = {"PART1_TOPIC_A", "PART1_TOPIC_B", "PART1_TOPIC_C",
                                  "PART2_LONG_TURN", "PART2_ROUNDOFF", "PART3_DISCUSSION"}
  BY DEF SCOREABLE_BUCKETS
<1>2. /\ PHASE_BUCKET_ORDER[1] = "part1" /\ PHASE_BUCKET_ORDER[2] = "part2"
      /\ PHASE_BUCKET_ORDER[3] = "part3" /\ \A i \in 1 .. 3 : i = 1 \/ i = 2 \/ i = 3
  BY DEF PHASE_BUCKET_ORDER
<1>3. ASSUME p \in DOMAIN SCOREABLE_BUCKETS
      PROVE  /\ SCOREABLE_BUCKETS[p] = _PHASE_BUCKETS(p)
             /\ \E i \in 1 .. 3 : PHASE_BUCKET_ORDER[i] = _PHASE_BUCKETS(p)
  <2>1. CASE p \in {"PART1_TOPIC_A", "PART1_TOPIC_B", "PART1_TOPIC_C"}
    <3>1. SCOREABLE_BUCKETS[p] = "part1" /\ _PHASE_BUCKETS(p) = "part1"
      BY <2>1 DEF SCOREABLE_BUCKETS, _PHASE_BUCKETS
    <3> QED  BY <3>1, <1>2
  <2>2. CASE p \in {"PART2_LONG_TURN", "PART2_ROUNDOFF"}
    <3>1. SCOREABLE_BUCKETS[p] = "part2" /\ _PHASE_BUCKETS(p) = "part2"
      BY <2>2 DEF SCOREABLE_BUCKETS, _PHASE_BUCKETS
    <3> QED  BY <3>1, <1>2
  <2>3. CASE p = "PART3_DISCUSSION"
    <3>1. SCOREABLE_BUCKETS[p] = "part3" /\ _PHASE_BUCKETS(p) = "part3"
      BY <2>3 DEF SCOREABLE_BUCKETS, _PHASE_BUCKETS
    <3> QED  BY <3>1, <1>2
  <2> QED  BY <2>1, <2>2, <2>3, <1>1, <1>3
<1>4. ASSUME p \notin DOMAIN SCOREABLE_BUCKETS PROVE _PHASE_BUCKETS(p) = "none"
  BY <1>1, <1>4 DEF _PHASE_BUCKETS
<1> QED  BY <1>2, <1>3, <1>4

(* The words of an answer are those its part has of it.                    *)
LEMMA ReferencesAre ==
    ASSUME Spoken
    PROVE  /\ DOMAIN reference_texts = {k \in DOMAIN answers : answers[k].phase \in DOMAIN SCOREABLE_BUCKETS}
           /\ \A k \in DOMAIN reference_texts :
                reference_texts[k] = [n \in DOMAIN Those(Row, Uttered(k)) |->
                                         Those(Row, Uttered(k))[n].word]
BY SMTT(40) DEF reference_texts, Row, Uttered

----------------------------------------------------------------------------
(* The session and its parts *)

(* The figures of the session and of its parts, and what pronunciation     *)
(* has.                                                                    *)
LEMMA PartsMake == Spoken => PartsMakeTheSession
<1> SUFFICES ASSUME Spoken PROVE PartsMakeTheSession
  OBVIOUS
<1> DEFINE words == load_words_by_phase
           A == _metrics_for_words(Part(1))
           B == _metrics_for_words(Part(2))
           C == _metrics_for_words(Part(3))
           parts == <<A, B, C>>
           session == _metrics_for_words(Whole)
           seams == Max({0, Cardinality({i \in 1 .. 3 : parts[i].total_words > 0}) - 1})
<1>1. words = <<Part(1), Part(2), Part(3)>> /\ session_words(words) = Whole
  BY PartsFiled DEF Whole
<1>2. /\ DOMAIN session = Figure
      /\ \A f \in Figure : A[f] \in Int /\ B[f] \in Int /\ C[f] \in Int
  <2>1. /\ Whole \in Seq(Entry) /\ Steady(Whole)
        /\ \A i \in 1 .. 3 : Part(i) \in Seq(Entry) /\ Steady(Part(i))
    BY WholeIs, WholeSteady
  <2> QED  BY <2>1, FiguresType
<1>3. ASSUME NEW f \in Figure PROVE Total([i \in 1 .. 3 |-> parts[i][f]]) = A[f] + B[f] + C[f]
  <2> HIDE DEF A, B, C
  <2>1. AddsField(A, B, C, f)
    BY <1>2, TotalOfField
  <2> QED  BY <2>1 DEF AddsField
<1>4. /\ \A f \in Added : session[f] = A[f] + B[f] + C[f]
      /\ session["filled"] = (A["filled"] + B["filled"] + C["filled"])
                               + Seams(Part(1), Part(2), Part(3), Bigrams)
      /\ session["repairs"] = (A["repairs"] + B["repairs"] + C["repairs"])
                               + Seams(Part(1), Part(2), Part(3), Repeats)
  BY SessionAddsUp
<1>5. ASSUME NEW R PROVE Seams(Part(1), Part(2), Part(3), R) \in 0 .. seams
  <2>1. Part(1) \in Seq(Entry) /\ Part(2) \in Seq(Entry) /\ Part(3) \in Seq(Entry)
    BY PartsOrderly
  <2>2. LongAs(parts, Part(1), Part(2), Part(3))
    <3>1. /\ A.total_words = Len(Part(1)) /\ B.total_words = Len(Part(2))
          /\ C.total_words = Len(Part(3))
      BY <2>1, FiguresAre
    <3> HIDE DEF A, B, C
    <3>2. \A i \in 1 .. 3 : i = 1 \/ i = 2 \/ i = 3
      OBVIOUS
    <3> QED  BY <3>1, <3>2 DEF LongAs
  <2>3. seams = Joints(parts)
    BY DEF Joints
  <2> HIDE DEF parts, seams
  <2>4. Seams(Part(1), Part(2), Part(3), R) \in 0 .. Joints(parts)
    BY <2>1, <2>2, SeamsBounded
  <2> QED  BY <2>3, <2>4
<1>6. \A f \in DOMAIN session \ {"filled", "repairs"} :
         session[f] = Total([i \in 1 .. 3 |-> parts[i][f]])
  <2> HIDE DEF A, B, C, parts, session
  <2> QED  BY <1>2, <1>3, <1>4 DEF Added
<1>7. \A f \in {"filled", "repairs"} :
         session[f] - Total([i \in 1 .. 3 |-> parts[i][f]]) \in 0 .. seams
  <2>1. "filled" \in Figure /\ "repairs" \in Figure
    BY DEF Figure
  <2> HIDE DEF A, B, C, parts, session
  <2>2. ASSUME NEW f \in Figure, NEW d \in 0 .. seams, session[f] = (A[f] + B[f] + C[f]) + d
        PROVE  session[f] - Total([i \in 1 .. 3 |-> parts[i][f]]) \in 0 .. seams
    <3>1. Total([i \in 1 .. 3 |-> parts[i][f]]) = A[f] + B[f] + C[f]
      BY <1>3
    <3> DEFINE x == A[f]
               y == B[f]
               z == C[f]
               t == Total([i \in 1 .. 3 |-> parts[i][f]])
               s == session[f]
    <3>2. x \in Int /\ y \in Int /\ z \in Int /\ t = x + y + z /\ s = (x + y + z) + d /\ d \in Int
      BY <1>2, <2>2, <3>1
    <3> HIDE DEF x, y, z, t, s
    <3>3. s - t = d
      BY ONLY <3>2
    <3> QED  BY <3>3 DEF s, t
  <2> DEFINE p == Seams(Part(1), Part(2), Part(3), Bigrams)
             q == Seams(Part(1), Part(2), Part(3), Repeats)
  <2>3. p \in 0 .. seams /\ q \in 0 .. seams
    BY <1>5
  <2>4. /\ session["filled"] = (A["filled"] + B["filled"] + C["filled"]) + p
        /\ session["repairs"] = (A["repairs"] + B["repairs"] + C["repairs"]) + q
    BY <1>4
  <2> HIDE DEF p, q, seams
  <2> QED  BY <2>1, <2>2, <2>3, <2>4
<1>8. session.phonation <= session.total_turn_duration
  <2>1. Whole \in Seq(Entry) /\ Steady(Whole)
    BY WholeIs, WholeSteady
  <2>2. session.phonation = Talk(Whole) /\ session.total_turn_duration = Span(Whole)
    BY <2>1, FiguresAre
  <2> HIDE DEF session
  <2> QED  BY <2>1, <2>2, SpokenInTurn
<1>9. ASSUME NEW k \in DOMAIN answers
      PROVE  LET said == [i \in 1 .. 3 |-> Those(words[i], {w \in Range(words[i]) : w.turn = k})]
             IN  IF k \in DOMAIN reference_texts
                 THEN \E i \in 1 .. 3 :
                        /\ PHASE_BUCKET_ORDER[i] = SCOREABLE_BUCKETS[answers[k].phase]
                        /\ reference_texts[k] = [n \in DOMAIN said[i] |-> said[i][n].word]
                        /\ \A j \in 1 .. 3 : j # i => said[j] = <<>>
                 ELSE \A i \in 1 .. 3 : said[i] = <<>>
  <2> DEFINE said == [i \in 1 .. 3 |-> Those(words[i], {w \in Range(words[i]) : w.turn = k})]
             p == answers[k].phase
  <2>1. ASSUME NEW i \in 1 .. 3
        PROVE  said[i] = IF _PHASE_BUCKETS(p) = PHASE_BUCKET_ORDER[i]
                         THEN Those(Row, Uttered(k)) ELSE <<>>
    <3>1. words[i] = Part(i)
      <4> HIDE DEF words
      <4> QED  BY <1>1
    <3>2. said[i] = Said(i, k)
      BY <3>1 DEF Said
    <3> QED  BY <3>2, SaidInItsPart
  <2>2. /\ p \in DOMAIN SCOREABLE_BUCKETS =>
             /\ SCOREABLE_BUCKETS[p] = _PHASE_BUCKETS(p)
             /\ \E i \in 1 .. 3 : PHASE_BUCKET_ORDER[i] = _PHASE_BUCKETS(p)
        /\ p \notin DOMAIN SCOREABLE_BUCKETS =>
             \A i \in 1 .. 3 : PHASE_BUCKET_ORDER[i] # _PHASE_BUCKETS(p)
        /\ \A i, j \in 1 .. 3 : i # j => PHASE_BUCKET_ORDER[i] # PHASE_BUCKET_ORDER[j]
    BY TablesAgree
  <2>3. k \in DOMAIN reference_texts <=> p \in DOMAIN SCOREABLE_BUCKETS
    BY ReferencesAre
  <2> HIDE DEF said, words
  <2>4. CASE k \in DOMAIN reference_texts
    <3>1. PICK i \in 1 .. 3 : PHASE_BUCKET_ORDER[i] = _PHASE_BUCKETS(p)
      BY <2>2, <2>3, <2>4
    <3>2. PHASE_BUCKET_ORDER[i] = SCOREABLE_BUCKETS[p]
      BY <3>1, <2>2, <2>3, <2>4
    <3>3. said[i] = Those(Row, Uttered(k))
      BY <3>1, <2>1
    <3>4. reference_texts[k] = [n \in DOMAIN said[i] |-> said[i][n].word]
      <4>1. reference_texts[k] = [n \in DOMAIN Those(Row, Uttered(k)) |->
                                     Those(Row, Uttered(k))[n].word]
        BY <2>4, ReferencesAre
      <4> QED  BY <3>3, <4>1
    <3>5. \A j \in 1 .. 3 : j # i => said[j] = <<>>
      BY <3>1, <2>1, <2>2
    <3> QED  BY <2>4, <3>2, <3>4, <3>5 DEF said
  <2>5. CASE k \notin DOMAIN reference_texts
    <3>1. \A i \in 1 .. 3 : said[i] = <<>>
      BY <2>1, <2>2, <2>3, <2>5
    <3> QED  BY <2>5, <3>1 DEF said
  <2> QED  BY <2>4, <2>5
<1>10. /\ A = _metrics_for_words(words[1]) /\ B = _metrics_for_words(words[2])
       /\ C = _metrics_for_words(words[3]) /\ session = _metrics_for_words(session_words(words))
  <2> HIDE DEF words
  <2>1. words[1] = Part(1) /\ words[2] = Part(2) /\ words[3] = Part(3)
    BY <1>1
  <2> QED  BY <1>1, <2>1
<1> HIDE DEF A, B, C, session
<1> QED  BY <1>6, <1>7, <1>8, <1>9, <1>10 DEF PartsMakeTheSession

(* Whatever was said, the session's figures are those of its parts.        *)
THEOREM SessionMadeOfParts == EvidenceSpec => []PartsMakeTheSession
BY PartsMake, SpokenInit, SpokenStep, PTL DEF EvidenceSpec
=============================================================================
