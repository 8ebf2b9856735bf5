--------------------------- MODULE ExamFsmProofs ---------------------------
(***************************************************************************)
(* What replay() and fold() of ExamFsm compute, for event lists of every   *)
(* length.  Induction over the list is an appeal to the least number at    *)
(* which a claim would fail, and that there is one follows from the        *)
(* library's well-foundedness of strict inclusion on finite sets.          *)
(***************************************************************************)
EXTENDS ExamFsm, FiniteSets, FiniteSetTheorems, WellFoundedInduction, TLAPS

(* Every non-empty set of natural numbers has a least element. *)
LEMMA LeastElement ==
    ASSUME NEW T \in SUBSET Nat, T # {}
    PROVE  \E m \in T : \A k \in T : m <= k
<1> DEFINE Below(n) == 0..n
           S == {Below(n) : n \in T}
<1>1. S \subseteq FiniteSubsetsOf(Nat) /\ S # {}
  <2>1. ASSUME NEW n \in T
        PROVE  Below(n) \in FiniteSubsetsOf(Nat)
    <3>1. IsFiniteSet(0..n)
      BY FS_Interval
    <3>2. (0..n) \in SUBSET Nat
      OBVIOUS
    <3> QED  BY <3>1, <3>2 DEF FiniteSubsetsOf
  <2>2. S \subseteq FiniteSubsetsOf(Nat)
    BY <2>1, Zenon
  <2>3. QED  BY <2>2
<1>2. IsWellFoundedOn(StrictSubsetOrdering(Nat), FiniteSubsetsOf(Nat))
  BY FS_StrictSubsetOrderingWellFounded
<1>3. PICK X \in S : \A Y \in S : <<Y, X>> \notin StrictSubsetOrdering(Nat)
  <2> HIDE DEF S
  <2> QED  BY <1>1, <1>2, WFMin
<1>4. PICK m \in T : X = Below(m)
  OBVIOUS
<1>5. \A k \in T : m <= k
  <2> SUFFICES ASSUME NEW k \in T, k < m
               PROVE  FALSE
    OBVIOUS
  <2>1. Below(k) \in S /\ Below(k) \subseteq Below(m) /\ Below(k) # Below(m)
    OBVIOUS
  <2>2. <<Below(k), X>> \in StrictSubsetOrdering(Nat)
    BY <2>1, <1>4 DEF StrictSubsetOrdering
  <2>3. QED  BY <2>1, <2>2, <1>3
<1> QED  BY <1>5

(* The recursive definition of replay() does define a function. *)
LEMMA ReplayDef ==
    ASSUME NEW S, NEW events \in Seq(S)
    PROVE  replay(events) =
             [n \in 0..Len(events) |->
                 IF n = 0 THEN INITIAL_PHASE
                          ELSE transition(replay(events)[n - 1], events[n])]
<1> DEFINE Body(f, n) == IF n = 0 THEN INITIAL_PHASE
                                  ELSE transition(f[n - 1], events[n])
           IsReplay(f, m) == f = [n \in 0..m |-> Body(f, n)]
           Bad == {m \in Nat : ~ \E f : IsReplay(f, m)}
<1>1. Bad = {}
  <2> SUFFICES ASSUME Bad # {}
               PROVE  FALSE
    OBVIOUS
  <2>1. PICK m \in Bad : \A k \in Bad : m <= k
    <3>1. Bad \in SUBSET Nat
      OBVIOUS
    <3> HIDE DEF Bad
    <3> QED  BY <3>1, LeastElement
  <2>2. CASE m = 0
    <3> DEFINE f == [n \in 0..0 |-> INITIAL_PHASE]
    <3>1. IsReplay(f, 0)
      OBVIOUS
    <3> QED  BY <3>1, <2>2
  <2>3. CASE m # 0
    <3>0. m - 1 \in Nat /\ m - 1 \notin Bad
      <4> HIDE DEF IsReplay
      <4> QED  BY <2>1, <2>3
    <3>1. PICK g : IsReplay(g, m - 1)
      <4> HIDE DEF IsReplay
      <4> QED  BY <3>0
    <3> DEFINE f == [n \in 0..m |-> IF n = m THEN transition(g[m - 1], events[m])
                                             ELSE g[n]]
    <3>2. IsReplay(f, m)
      <4>1. \A n \in 0..m : f[n] = Body(f, n)
        <5> SUFFICES ASSUME NEW n \in 0..m
                     PROVE  f[n] = Body(f, n)
          OBVIOUS
        <5>1. CASE n = m
          BY <5>1, <2>3
        <5>2. CASE n # m
          <6>1. n \in 0..(m - 1) /\ f[n] = g[n] /\ (n # 0 => f[n - 1] = g[n - 1])
            BY <5>2
          <6>2. g[n] = Body(g, n)
            BY <3>1, <6>1
          <6> QED  BY <6>1, <6>2
        <5> QED  BY <5>1, <5>2
      <4> QED  BY <4>1
    <3> QED  BY <3>2
  <2> QED  BY <2>2, <2>3
<1> QED
  <2> DEFINE F == CHOOSE f : f = [n \in 0..Len(events) |-> Body(f, n)]
  <2>1. replay(events) = F
    BY DEF replay
  <2>2. Len(events) \in Nat
    OBVIOUS
  <2>3. \E f : f = [n \in 0..Len(events) |-> Body(f, n)]
    BY <1>1, <2>2
  <2>4. F = [n \in 0..Len(events) |-> Body(F, n)]
    BY <2>3
  <2> QED  BY <2>1, <2>4

(* What replay() computes at each point, in the terms of the loop. *)
LEMMA ReplayStep ==
    ASSUME NEW events \in Seq(ExamEvent)
    PROVE  /\ replay(events)[0] = INITIAL_PHASE
           /\ \A n \in 1..Len(events) :
                 replay(events)[n] = transition(replay(events)[n - 1], events[n])
<1>1. Len(events) \in Nat
  OBVIOUS
<1>2. \A n \in 0..Len(events) :
         replay(events)[n] =
           IF n = 0 THEN INITIAL_PHASE
                    ELSE transition(replay(events)[n - 1], events[n])
  BY ReplayDef
<1> QED  BY <1>1, <1>2

(* transition() answers with a phase or with InvalidTransitionError. *)
LEMMA TransitionType ==
    ASSUME NEW p \in ExamPhase \cup {InvalidTransitionError}, NEW e \in ExamEvent
    PROVE  /\ transition(p, e) \in ExamPhase \cup {InvalidTransitionError}
           /\ transition(p, e) \in ExamPhase =>
                 <<p, e, transition(p, e)>> \in TRANSITIONS
<1>1. InvalidTransitionError \notin ExamPhase
  BY DEF InvalidTransitionError, ExamPhase
<1>2. transition(p, e) =
        IF \E q \in ExamPhase : <<p, e, q>> \in TRANSITIONS
        THEN CHOOSE q \in ExamPhase : <<p, e, q>> \in TRANSITIONS
        ELSE InvalidTransitionError
  BY DEF transition, Lookup
<1> QED  BY <1>1, <1>2

(* Replaying any list of events yields, at each point, a phase or the      *)
(* InvalidTransitionError of fold().                                       *)
LEMMA ReplayType ==
    ASSUME NEW events \in Seq(ExamEvent), NEW n \in 0..Len(events)
    PROVE  replay(events)[n] \in ExamPhase \cup {InvalidTransitionError}
<1> DEFINE Bad == {k \in 0..Len(events) :
                      replay(events)[k] \notin ExamPhase \cup {InvalidTransitionError}}
<1>1. Bad = {}
  <2> SUFFICES ASSUME Bad # {}
               PROVE  FALSE
    OBVIOUS
  <2>1. PICK m \in Bad : \A k \in Bad : m <= k
    <3>1. Bad \in SUBSET Nat
      OBVIOUS
    <3> HIDE DEF Bad
    <3> QED  BY <3>1, LeastElement
  <2>2. m # 0
    BY ReplayStep DEF INITIAL_PHASE, ExamPhase
  <2>3. m \in 1..Len(events) /\ m - 1 \in 0..Len(events) /\ m - 1 \notin Bad
    BY <2>1, <2>2
  <2>4. replay(events)[m] = transition(replay(events)[m - 1], events[m])
    BY <2>3, ReplayStep
  <2>5. replay(events)[m - 1] \in ExamPhase \cup {InvalidTransitionError}
    BY <2>3
  <2>6. replay(events)[m] \in ExamPhase \cup {InvalidTransitionError}
    <3>1. events[m] \in ExamEvent
      BY <2>3
    <3>2. transition(replay(events)[m - 1], events[m])
             \in ExamPhase \cup {InvalidTransitionError}
      BY <3>1, <2>5, TransitionType
    <3> QED  BY <3>2, <2>4
  <2> QED  BY <2>3, <2>6
<1> QED  BY <1>1

(* A log that has grown replays as it did, up to where it stood. *)
LEMMA ReplayPrefix ==
    ASSUME NEW s \in Seq(ExamEvent), NEW t \in Seq(ExamEvent),
           Len(s) <= Len(t), \A i \in 1..Len(s) : t[i] = s[i],
           NEW n \in 0..Len(s)
    PROVE  replay(t)[n] = replay(s)[n]
<1> DEFINE Bad == {k \in 0..Len(s) : replay(t)[k] # replay(s)[k]}
<1>1. Bad = {}
  <2> SUFFICES ASSUME Bad # {}
               PROVE  FALSE
    OBVIOUS
  <2>1. PICK m \in Bad : \A k \in Bad : m <= k
    <3>1. Bad \in SUBSET Nat
      OBVIOUS
    <3> HIDE DEF Bad
    <3> QED  BY <3>1, LeastElement
  <2>2. m # 0
    BY ReplayStep
  <2>3. /\ m \in 1..Len(s) /\ m \in 1..Len(t)
        /\ m - 1 \in 0..Len(s) /\ m - 1 \notin Bad
    BY <2>1, <2>2
  <2>4. /\ replay(s)[m] = transition(replay(s)[m - 1], s[m])
        /\ replay(t)[m] = transition(replay(t)[m - 1], t[m])
    BY <2>3, ReplayStep
  <2> QED  BY <2>3, <2>4
<1> QED  BY <1>1

(* The height of a phase on the ladder.  Every transition climbs one rung. *)
Rung(p) ==
    CASE p = "INIT_DEVICE_CHECK" -> 0
      [] p = "ID_VERIFICATION" -> 1
      [] p = "INTRO" -> 2
      [] p = "PART1_TOPIC_A" -> 3
      [] p = "PART1_TOPIC_B" -> 4
      [] p = "PART1_TOPIC_C" -> 5
      [] p = "PART2_CUECARD_PRESENT" -> 6
      [] p = "PART2_PREP" -> 7
      [] p = "PART2_LONG_TURN" -> 8
      [] p = "PART2_ROUNDOFF" -> 9
      [] p = "PART3_DISCUSSION" -> 10
      [] p = "CLOSE" -> 11
      [] p = "FINALIZING" -> 12
      [] p = "COMPLETE" -> 13

(* Every edge of the table climbs exactly one rung. *)
LEMMA RungOfTransition ==
    ASSUME NEW p, NEW e, NEW q, <<p, e, q>> \in TRANSITIONS
    PROVE  p \in ExamPhase /\ q \in ExamPhase /\ Rung(q) = Rung(p) + 1
BY DEF TRANSITIONS, Rung, ExamPhase

(* A phase is reached after exactly as many events as its height, so no    *)
(* phase is ever entered twice.                                            *)
LEMMA ReplayRung ==
    ASSUME NEW events \in Seq(ExamEvent), NEW n \in 0..Len(events),
           replay(events)[n] \in ExamPhase
    PROVE  Rung(replay(events)[n]) = n
<1> DEFINE Bad == {k \in 0..Len(events) : /\ replay(events)[k] \in ExamPhase
                                         /\ Rung(replay(events)[k]) # k}
<1>1. Bad = {}
  <2> SUFFICES ASSUME Bad # {}
               PROVE  FALSE
    OBVIOUS
  <2>1. PICK m \in Bad : \A k \in Bad : m <= k
    <3>1. Bad \in SUBSET Nat
      OBVIOUS
    <3> HIDE DEF Bad
    <3> QED  BY <3>1, LeastElement
  <2>2. m # 0
    BY ReplayStep DEF INITIAL_PHASE, Rung
  <2>3. m \in 1..Len(events) /\ m - 1 \in 0..Len(events) /\ m - 1 \notin Bad
    BY <2>1, <2>2
  <2>4. replay(events)[m] = transition(replay(events)[m - 1], events[m])
    BY <2>3, ReplayStep
  <2>5. /\ replay(events)[m - 1] \in ExamPhase
        /\ Rung(replay(events)[m]) = Rung(replay(events)[m - 1]) + 1
    <3>1. replay(events)[m - 1] \in ExamPhase \cup {InvalidTransitionError}
      BY <2>3, ReplayType
    <3>2. <<replay(events)[m - 1], events[m], replay(events)[m]>> \in TRANSITIONS
      BY <2>3, <2>4, <3>1, TransitionType
    <3> QED  BY <3>2, RungOfTransition
  <2> QED  BY <2>3, <2>5
<1> QED  BY <1>1
============================================================================
