---------------------- MODULE DirectiveDispatchProofs ----------------------
(***************************************************************************)
(* Theorems about DirectiveDispatch for every number of turns and every    *)
(* phase that a connection may find: its types, that the dispatcher adds   *)
(* no second question to one that is being answered, and that it           *)
(* implements the steps of DirectiveChannel.                               *)
(***************************************************************************)
EXTENDS DirectiveDispatch, SequenceTheorems, TLAPS

(* A turn whose release is being handled only leaves phases that turns     *)
(* can end.                                                                *)
PttType == ptt \in {"up", "down", "released", "PART2_LONG_TURN"} \cup Budgeted

Types == TypeOK /\ PttType

(* Every directive asked for has been told, is in the dispatcher's hand or *)
(* waits in the queue, in that order.                                      *)
Delivery == asked = told \o (dispatcher.text \o directive_queue)

(* The inputs that Gemini has not dealt with, the pump's share included. *)
Outstanding == unanswered + arriving

(* Nothing could make the dispatcher go although the gate is open. *)
NothingToSend ==
    /\ directive_queue = <<>> /\ dispatcher = AtGet
    /\ ptt \in {"up", "down", "released"}
    /\ \/ ptt = "released" \/ watchdog = "stopped"
       \/ watchdog \in {"warned", "stopping"} /\ phase = "PART2_LONG_TURN"

(* What makes OneQuestionAtATime inductive: while an input is outstanding, *)
(* the dispatcher is not on its way to send, and the gate is shut, except  *)
(* between an input that somebody else gave and the clear() that follows,  *)
(* and during the warning of the long turn, which no clear() follows.      *)
GateHolds ==
    quiet => /\ Outstanding <= 1
             /\ Outstanding = 1 => dispatcher.pc # "go"
             /\ Outstanding = 1 /\ gate => NothingToSend

(* The inductive invariant. *)
IInv == Types /\ Delivery /\ GateHolds

----------------------------------------------------------------------------
(* Phases and sequences *)

(* Every phase but the last has a successor. *)
LEMMA AfterType ==
    ASSUME NEW p \in ExamPhase \ {"COMPLETE"}
    PROVE  After(p) \in ExamPhase
<1>1. \E q \in ExamPhase : \E e \in ExamEvent : <<p, e, q>> \in TRANSITIONS
  BY DEF ExamPhase, ExamEvent, TRANSITIONS
<1> QED  BY <1>1 DEF After

(* Nothing is queued on entering preparation or the long turn. *)
LEMMA SilentPhases ==
    ASSUME NEW p \in {"PART2_CUECARD_PRESENT", "PART2_PREP"}
    PROVE  OnEnter(After(p)) = <<>>
<1>1. \E q \in ExamPhase : \E e \in ExamEvent : <<p, e, q>> \in TRANSITIONS
  BY DEF ExamPhase, ExamEvent, TRANSITIONS
<1>2. \E e \in ExamEvent : <<p, e, After(p)>> \in TRANSITIONS
  BY <1>1 DEF After
<1>3. After(p) \in {"PART2_PREP", "PART2_LONG_TURN"}
  BY <1>2 DEF TRANSITIONS
<1> QED  BY <1>3 DEF OnEnter

(* On entering a phase, one directive is queued or none. *)
LEMMA OnEnterType ==
    ASSUME NEW p
    PROVE  OnEnter(p) = <<>> \/ \E d \in Directive : OnEnter(p) = <<d>>
BY DEF OnEnter, Directive

(* A list is its head and its tail. *)
LEMMA HeadThenTail ==
    ASSUME NEW S, NEW s \in Seq(S), s # <<>>
    PROVE  <<Head(s)>> \o Tail(s) = s
<1>1. Head(s) \in S /\ Tail(s) \in Seq(S) /\ Len(Tail(s)) = Len(s) - 1
  BY HeadTailProperties
<1>2. <<Head(s)>> \in Seq(S) /\ Len(<<Head(s)>>) = 1 /\ <<Head(s)>>[1] = Head(s)
  BY <1>1
<1>3. Len(s) \in Nat \ {0}
  BY EmptySeq
<1> DEFINE h == <<Head(s)>>
           u == Tail(s)
<1>4. h \in Seq(S) /\ Len(h) = 1 /\ h[1] = s[1]
  BY <1>2
<1>5. u \in Seq(S) /\ Len(u) = Len(s) - 1
  BY <1>1
<1>6. \A i \in 1 .. Len(u) : u[i] = s[i + 1]
  BY HeadTailProperties
<1> HIDE DEF h, u
<1>7. /\ h \o u \in Seq(S)
      /\ Len(h \o u) = Len(h) + Len(u)
      /\ \A i \in 1 .. Len(h) + Len(u) :
            (h \o u)[i] = IF i <= Len(h) THEN h[i] ELSE u[i - Len(h)]
  BY <1>4, <1>5, ConcatProperties
<1>8. Len(h \o u) = Len(s) /\ \A i \in 1 .. Len(h \o u) : (h \o u)[i] = s[i]
  BY <1>3, <1>4, <1>5, <1>6, <1>7
<1>9. h \o u = s
  BY <1>7, <1>8, SeqEqual
<1> QED  BY <1>9 DEF h, u

(* A list of one. *)
LEMMA SingletonSeq ==
    ASSUME NEW S, NEW d \in S
    PROVE  <<d>> \in Seq(S)
OBVIOUS

(* What the dispatcher holds is a list of directives, empty at its get(). *)
LEMMA TextType ==
    ASSUME TypeOK
    PROVE  /\ dispatcher.text \in Seq(Directive)
           /\ dispatcher.pc \in {"get", "wait", "go"}
           /\ dispatcher.pc = "get" <=> dispatcher = AtGet
           /\ dispatcher.pc = "get" => dispatcher.text = <<>>
           /\ dispatcher.pc # "get" => \E d \in Directive : dispatcher.text = <<d>>
<1>1. CASE dispatcher = AtGet
  <2>1. dispatcher.pc = "get" /\ dispatcher.text = <<>>
    BY <1>1 DEF AtGet
  <2> QED  BY <1>1, <2>1, EmptySeq
<1>2. CASE dispatcher \in [pc : {"wait", "go"}, text : {<<d>> : d \in Directive}]
  <2>1. dispatcher.pc \in {"wait", "go"} /\ dispatcher.text \in {<<d>> : d \in Directive}
    BY <1>2
  <2>2. PICK d \in Directive : dispatcher.text = <<d>>
    BY <2>1
  <2>3. dispatcher # AtGet
    BY <2>1 DEF AtGet
  <2> QED  BY <2>1, <2>2, <2>3, SingletonSeq
<1> QED  BY <1>1, <1>2 DEF TypeOK

----------------------------------------------------------------------------
(* _queue_directive and _advance *)

(* OnEnter's result can be queued. *)
LEMMA OnEnterSeq ==
    ASSUME NEW p
    PROVE  OnEnter(p) \in Seq(Directive)
<1>1. CASE OnEnter(p) = <<>>
  BY <1>1, EmptySeq
<1>2. ASSUME NEW d \in Directive, OnEnter(p) = <<d>>
      PROVE  OnEnter(p) \in Seq(Directive)
  BY <1>2, SingletonSeq
<1> QED  BY <1>1, <1>2, OnEnterType

(* Queueing directives keeps the types of the queue and of what was asked, *)
(* and the delivery.                                                       *)
LEMMA QueueKeeps ==
    ASSUME TypeOK, Delivery, NEW ds \in Seq(Directive), _queue_directive(ds),
           told' = told, dispatcher' = dispatcher
    PROVE  /\ Delivery'
           /\ directive_queue' \in Seq(Directive)
           /\ asked' \in Seq(Directive)
<1>1. dispatcher.text \in Seq(Directive)
  BY TextType
<1>2. directive_queue \in Seq(Directive) /\ asked \in Seq(Directive) /\ told \in Seq(Directive)
  BY DEF TypeOK
<1>3. directive_queue' \in Seq(Directive) /\ asked' \in Seq(Directive)
  BY <1>2, ConcatProperties DEF _queue_directive
<1>4. told \o (dispatcher.text \o (directive_queue \o ds)) =
      (told \o (dispatcher.text \o directive_queue)) \o ds
  <2> DEFINE text == dispatcher.text
  <2>1. text \in Seq(Directive)
    BY <1>1
  <2> HIDE DEF text
  <2>2. told \o (text \o (directive_queue \o ds)) = (told \o (text \o directive_queue)) \o ds
    <3>1. text \o directive_queue \in Seq(Directive) /\ directive_queue \o ds \in Seq(Directive)
      BY <1>2, <2>1, ConcatProperties
    <3>2. text \o (directive_queue \o ds) = (text \o directive_queue) \o ds
      <4>1. directive_queue \in Seq(Directive) /\ ds \in Seq(Directive)
        BY <1>2
      <4> QED  BY <2>1, <4>1, ConcatAssociative, SMTT(30)
    <3> DEFINE held == text \o directive_queue
    <3>3. held \in Seq(Directive)
      BY <3>1
    <3> HIDE DEF held
    <3>4. told \o (held \o ds) = (told \o held) \o ds
      <4>1. told \in Seq(Directive) /\ ds \in Seq(Directive)
        BY <1>2
      <4> QED  BY <3>3, <4>1, ConcatAssociative, SMTT(30)
    <3> QED  BY <3>2, <3>4 DEF held
  <2> QED  BY <2>2 DEF text
<1> QED  BY <1>3, <1>4 DEF Delivery, _queue_directive

(* Leaving queue, dispatcher, asked and told alone keeps the delivery. *)
LEMMA DeliveryFrame ==
    ASSUME Delivery, UNCHANGED <<directive_queue, asked, told, dispatcher>>
    PROVE  Delivery'
BY DEF Delivery

(* _advance to a phase keeps the types and the delivery. *)
LEMMA AdvanceKeeps ==
    ASSUME Types, Delivery, NEW p \in ExamPhase, _advance(p),
           told' = told, dispatcher' = dispatcher
    PROVE  /\ Delivery'
           /\ phase' \in ExamPhase
           /\ directive_queue' \in Seq(Directive)
           /\ asked' \in Seq(Directive)
           /\ watchdog' \in {"polling", "expired", "warned"} \cup Unfinished
<1>1. OnEnter(p) \in Seq(Directive)
  BY OnEnterSeq
<1>2. _queue_directive(OnEnter(p))
  BY DEF _advance
<1>3. /\ Delivery' /\ directive_queue' \in Seq(Directive) /\ asked' \in Seq(Directive)
  BY <1>1, <1>2, QueueKeeps DEF Types
<1> QED  BY <1>3 DEF _advance, Types, TypeOK

----------------------------------------------------------------------------
(* The types and the delivery, action by action *)

(* A connection starts with one directive queued and nothing said. *)
LEMMA InitIInv == Init => IInv
<1> SUFFICES ASSUME Init PROVE IInv
  OBVIOUS
<1> USE DispatchAssumption
<1>1. Types
  <2>1. <<"intro">> \in Seq(Directive) /\ <<"reanchor">> \in Seq(Directive)
    BY SingletonSeq DEF Directive
  <2>2. directive_queue \in Seq(Directive) /\ asked \in Seq(Directive)
    BY <2>1 DEF Init
  <2>3. told \in Seq(Directive)
    BY EmptySeq DEF Init
  <2> QED  BY <2>2, <2>3 DEF Init, Types, TypeOK, PttType
<1>2. Delivery
  <2>1. asked \in Seq(Directive)
    BY <1>1 DEF Types, TypeOK
  <2>2. <<>> \o asked = asked /\ <<>> \o (<<>> \o asked) = asked
    BY <2>1, ConcatEmptySeq
  <2> QED  BY <2>2 DEF Init, Delivery, AtGet
<1>3. GateHolds
  BY DEF Init, GateHolds, Outstanding, AtGet
<1> QED  BY <1>1, <1>2, <1>3 DEF IInv

(* The dispatcher moves directives on and loses none. *)
LEMMA DispatchTypes ==
    ASSUME Types, Delivery, Dispatch
    PROVE  Types' /\ Delivery'
<1>1. CASE Get
  <2>1. /\ directive_queue \in Seq(Directive) /\ directive_queue # <<>>
        /\ dispatcher = AtGet /\ told \in Seq(Directive)
    BY <1>1, TextType DEF Get, Types, TypeOK
  <2>2. /\ Head(directive_queue) \in Directive
        /\ Tail(directive_queue) \in Seq(Directive)
    BY <2>1, HeadTailProperties
  <2>3. <<Head(directive_queue)>> \o Tail(directive_queue) = directive_queue
    BY <2>1, HeadThenTail
  <2>4. <<>> \o directive_queue = directive_queue
    BY <2>1, ConcatEmptySeq
  <2>5. Types'
    BY <1>1, <2>2 DEF Get, Types, TypeOK, PttType, gemini, history
  <2>6. Delivery'
    <3>1. dispatcher.text \o directive_queue = directive_queue
      BY <2>1, <2>4 DEF AtGet
    <3>2. dispatcher'.text \o directive_queue' = directive_queue
      BY <1>1, <2>3 DEF Get
    <3> QED  BY <1>1, <3>1, <3>2 DEF Get, Delivery, history
  <2> QED  BY <2>5, <2>6
<1>2. CASE Wake \/ Timeout
  <2>1. dispatcher' = [dispatcher EXCEPT !.pc = "go"] /\ dispatcher # AtGet
    BY <1>2, TextType DEF Wake, Timeout, Types
  <2>2. dispatcher \in [pc : {"wait", "go"}, text : {<<d>> : d \in Directive}]
    BY <2>1 DEF Types, TypeOK
  <2>3. /\ dispatcher' \in [pc : {"wait", "go"}, text : {<<d>> : d \in Directive}]
        /\ dispatcher'.text = dispatcher.text
    BY <2>1, <2>2
  <2>4. Types'
    BY <1>2, <2>3 DEF Wake, Timeout, Types, TypeOK, PttType, gemini, history
  <2>5. Delivery'
    BY <1>2, <2>3 DEF Wake, Timeout, Delivery, history
  <2> QED  BY <2>4, <2>5
<1>3. CASE Inject
  <2>1. /\ dispatcher.text \in Seq(Directive) /\ told \in Seq(Directive)
        /\ directive_queue \in Seq(Directive)
    BY TextType DEF Types, TypeOK
  <2>2. told' = told \o dispatcher.text /\ told' \in Seq(Directive)
    BY <1>3, <2>1, ConcatProperties DEF Inject
  <2>3. Types'
    <3>1. unanswered' \in Nat /\ gate' = FALSE /\ dispatcher' = AtGet
      <4>1. unanswered \in Nat
        BY DEF Types, TypeOK
      <4>2. unanswered' = unanswered + 1 /\ gate' = FALSE /\ dispatcher' = AtGet
        BY <1>3 DEF Inject, Hear
      <4> QED  BY <4>1, <4>2
    <3>2. UNCHANGED <<phase, directive_queue, watchdog, ptt, arriving, turns, asked, quiet>>
      BY <1>3 DEF Inject
    <3>3. told' \in Seq(Directive)
      BY <2>2
    <3> QED  BY <3>1, <3>2, <3>3 DEF Types, TypeOK, PttType
  <2>4. Delivery'
    <3> DEFINE text == dispatcher.text
    <3>1. text \in Seq(Directive)
      BY <2>1
    <3> HIDE DEF text
    <3>2. told \o (text \o directive_queue) = (told \o text) \o directive_queue
      BY <2>1, <3>1, ConcatAssociative, SMTT(30)
    <3>3. <<>> \o directive_queue = directive_queue
      BY <2>1, ConcatEmptySeq
    <3>4. dispatcher'.text = <<>>
      BY <1>3 DEF Inject, AtGet
    <3>5. /\ directive_queue' = directive_queue /\ asked' = asked
          /\ told' = told \o text
      BY <1>3 DEF Inject, text
    <3>6. asked = told \o (text \o directive_queue)
      BY DEF Delivery, text
    <3> QED  BY <3>2, <3>3, <3>4, <3>5, <3>6 DEF Delivery
  <2> QED  BY <2>3, <2>4
<1> QED  BY <1>1, <1>2, <1>3 DEF Dispatch

(* The phase that the exam is in, or that a turn is leaving, has a next. *)
LEMMA BudgetedPhases ==
    /\ Budgeted \cup {"PART2_LONG_TURN", "CLOSE", "PART2_CUECARD_PRESENT", "PART2_PREP"}
         \subseteq ExamPhase \ {"COMPLETE"}
    /\ Wrapped \subseteq ExamPhase \ {"COMPLETE"}
    /\ {"up", "down", "released"} \cap ExamPhase = {}
BY DEF Budgeted, Wrapped, ExamPhase

(* What Gemini and the candidate do keeps the types and the delivery. *)
LEMMA TurnTypes ==
    ASSUME Types, Delivery,
           Reply \/ on_gemini_turn_complete \/ Press \/ Release \/ on_activity_end
    PROVE  Types' /\ Delivery'
<1> USE DEF Types
<1>1. CASE Reply
  <2>1. Types'
    BY <1>1 DEF Reply, gateway, history, TypeOK, PttType
  <2>2. Delivery'
    BY <1>1, DeliveryFrame DEF Reply, gateway, history
  <2> QED  BY <2>1, <2>2
<1>2. CASE on_gemini_turn_complete
  <2>1. phase' \in ExamPhase
    <3>1. phase \in ExamPhase
      BY DEF TypeOK
    <3>2. After("CLOSE") \in ExamPhase
      BY AfterType DEF ExamPhase
    <3> QED  BY <1>2, <3>1, <3>2 DEF on_gemini_turn_complete
  <2>2. Types'
    BY <1>2, <2>1 DEF on_gemini_turn_complete, history, TypeOK, PttType
  <2>3. Delivery'
    BY <1>2, DeliveryFrame DEF on_gemini_turn_complete, history
  <2> QED  BY <2>2, <2>3
<1>3. CASE Press
  <2>1. unanswered' \in Nat /\ arriving' \in Nat /\ turns' \in 0 .. MaxTurns
    BY <1>3, DispatchAssumption DEF Press, TypeOK, gemini
  <2>2. Types'
    BY <1>3, <2>1 DEF Press, gateway, history, TypeOK, PttType
  <2>3. Delivery'
    BY <1>3, DeliveryFrame DEF Press, gateway, history
  <2> QED  BY <2>2, <2>3
<1>4. CASE Release
  <2>1. unanswered' \in Nat
    BY <1>4 DEF Release, Hear, TypeOK
  <2>2. quiet' \in BOOLEAN
    BY <1>4 DEF Release, OutOfTurn, TypeOK
  <2>3. Types'
    BY <1>4, <2>1, <2>2 DEF Release, gateway, TypeOK, PttType
  <2>4. Delivery'
    BY <1>4, DeliveryFrame DEF Release, gateway
  <2> QED  BY <2>3, <2>4
<1>5. CASE on_activity_end
  <2>1. \/ UNCHANGED <<directive_queue, asked>>
        \/ _queue_directive(<<"reanchor">>)
        \/ _queue_directive(<<"part1_extend">>)
    BY <1>5 DEF on_activity_end
  <2>2. /\ UNCHANGED <<phase, dispatcher, watchdog, unanswered, arriving, turns, told, quiet>>
        /\ gate' = FALSE
        /\ ptt' \in {"up", "PART2_LONG_TURN"} \cup Budgeted
    BY <1>5 DEF on_activity_end, gemini
  <2>3. Delivery' /\ directive_queue' \in Seq(Directive) /\ asked' \in Seq(Directive)
    <3>1. CASE UNCHANGED <<directive_queue, asked>>
      BY <2>2, <3>1, DeliveryFrame DEF TypeOK
    <3>2. ASSUME NEW d \in Directive, _queue_directive(<<d>>)
          PROVE  Delivery' /\ directive_queue' \in Seq(Directive) /\ asked' \in Seq(Directive)
      BY <2>2, <3>2, QueueKeeps, SingletonSeq
    <3>3. "reanchor" \in Directive /\ "part1_extend" \in Directive
      BY DEF Directive
    <3> QED  BY <2>1, <3>1, <3>2, <3>3
  <2>4. ptt' \in {"up", "down", "released"} \cup ExamPhase
    BY <2>2, BudgetedPhases
  <2> QED  BY <2>2, <2>3, <2>4 DEF TypeOK, PttType
<1> QED  BY <1>1, <1>2, <1>3, <1>4, <1>5

(* Every transition keeps the types and the delivery. *)
LEMMA AdvanceTypes ==
    ASSUME Types, Delivery,
           TurnAdvances \/ CueCardAckedOrPrepared \/ WrapUpAdvances
    PROVE  Types' /\ Delivery'
<1>1. CASE \E p \in ExamPhase : _advance(p)
  <2>1. /\ UNCHANGED <<gate, dispatcher, unanswered, arriving, turns, told>>
        /\ ptt' \in {ptt, "up"}
        /\ quiet' \in BOOLEAN
    BY DEF TurnAdvances, CueCardAckedOrPrepared, WrapUpAdvances, gemini, Types, TypeOK
  <2>2. /\ Delivery' /\ phase' \in ExamPhase
        /\ directive_queue' \in Seq(Directive) /\ asked' \in Seq(Directive)
        /\ watchdog' \in {"polling", "expired", "warned"} \cup Unfinished
    BY <1>1, <2>1, AdvanceKeeps
  <2> QED  BY <2>1, <2>2 DEF Types, TypeOK, PttType
<1>2. CASE TurnAdvances /\ UNCHANGED <<phase, watchdog, directive_queue, asked>>
  <2>1. Types'
    BY <1>2 DEF TurnAdvances, gemini, Types, TypeOK, PttType
  <2>2. Delivery'
    BY <1>2, DeliveryFrame DEF TurnAdvances
  <2> QED  BY <2>1, <2>2
<1>3. \A q \in ExamPhase \ {"COMPLETE"} : After(q) \in ExamPhase
  BY AfterType
<1>4. CASE TurnAdvances
  <2>1. ptt \in Budgeted \cup {"PART2_LONG_TURN"}
    BY <1>4, BudgetedPhases DEF TurnAdvances, Types, PttType
  <2>2. After(ptt) \in ExamPhase
    BY <1>3, <2>1, BudgetedPhases
  <2> QED  BY <1>1, <1>2, <1>4, <2>2 DEF TurnAdvances
<1>5. CASE CueCardAckedOrPrepared
  <2>1. After(phase) \in ExamPhase
    BY <1>3, <1>5, BudgetedPhases DEF CueCardAckedOrPrepared
  <2> QED  BY <1>1, <1>5, <2>1 DEF CueCardAckedOrPrepared
<1>6. CASE WrapUpAdvances
  <2>1. WrappedTo(phase) \in ExamPhase
    BY DEF WrappedTo, ExamPhase
  <2> QED  BY <1>1, <1>6, <2>1 DEF WrapUpAdvances
<1> QED  BY <1>4, <1>5, <1>6

(* The watchdogs keep the types and the delivery. *)
LEMMA WatchdogTypes ==
    ASSUME Types, Delivery,
           WrapUpQueued \/ LongTurnGoesOn \/ Warn \/ HardStop \/ CutoffAdvances
    PROVE  Types' /\ Delivery'
<1> USE DEF Types
<1>1. CASE WrapUpQueued
  <2>1. WrapUp(phase) \in Directive
    BY DEF WrapUp, Directive
  <2>2. Delivery' /\ directive_queue' \in Seq(Directive) /\ asked' \in Seq(Directive)
    BY <1>1, <2>1, QueueKeeps, SingletonSeq DEF WrapUpQueued
  <2> QED  BY <1>1, <2>2 DEF WrapUpQueued, gemini, TypeOK, PttType
<1>2. CASE Warn \/ HardStop
  <2>1. unanswered' \in Nat
    BY <1>2 DEF Warn, HardStop, SpeakOfTime, Hear, TypeOK
  <2>2. quiet' \in BOOLEAN
    BY <1>2 DEF Warn, HardStop, SpeakOfTime, Still, TypeOK
  <2>3. watchdog' \in {"polling", "warned", "stopped"}
    BY <1>2 DEF Warn, HardStop
  <2>4. UNCHANGED <<phase, directive_queue, gate, dispatcher, ptt, arriving, turns, asked, told>>
    BY <1>2 DEF Warn, HardStop, SpeakOfTime
  <2>5. Types'
    BY <2>1, <2>2, <2>3, <2>4 DEF TypeOK, PttType, Unfinished
  <2> QED  BY <2>4, <2>5, DeliveryFrame
<1>3. CASE CutoffAdvances
  <2>1. /\ UNCHANGED <<dispatcher, ptt, unanswered, arriving, turns, told, quiet>>
        /\ gate' = FALSE /\ watchdog' = "polling"
    BY <1>3 DEF CutoffAdvances, CutOff, gemini
  <2>2. /\ Delivery' /\ phase' \in ExamPhase
        /\ directive_queue' \in Seq(Directive) /\ asked' \in Seq(Directive)
    <3>1. CASE UNCHANGED <<phase, directive_queue, asked>>
      BY <2>1, <3>1, DeliveryFrame DEF TypeOK
    <3>2. CASE /\ phase = "PART2_LONG_TURN" /\ phase' = After(phase)
               /\ _queue_directive(OnEnter(phase'))
      <4>1. phase' \in ExamPhase
        BY <3>2, AfterType, BudgetedPhases
      <4>2. OnEnter(phase') \in Seq(Directive)
        BY OnEnterSeq
      <4> QED  BY <2>1, <3>2, <4>1, <4>2, QueueKeeps
    <3> QED  BY <1>3, <3>1, <3>2 DEF CutoffAdvances, CutOff
  <2> QED  BY <2>1, <2>2 DEF TypeOK, PttType
<1>4. CASE LongTurnGoesOn
  <2>1. watchdog' \in {"warning", "stopping"}
    BY <1>4 DEF LongTurnGoesOn
  <2>2. UNCHANGED <<phase, directive_queue, gate, dispatcher, ptt, gemini, turns, history>>
    BY <1>4 DEF LongTurnGoesOn
  <2>3. Types'
    BY <2>1, <2>2 DEF TypeOK, PttType, Unfinished, gemini, history
  <2> QED  BY <2>2, <2>3, DeliveryFrame DEF history
<1> QED  BY <1>1, <1>2, <1>3, <1>4

----------------------------------------------------------------------------
(* The gate *)

(* Nothing that Gemini or the dispatcher does leaves it with two inputs.   *)
(* What wakes the dispatcher while one is outstanding is its timeout.      *)
LEMMA GeminiGate ==
    ASSUME Types, GateHolds, Dispatch \/ Reply \/ on_gemini_turn_complete \/ Press
    PROVE  GateHolds'
<1>0. unanswered \in Nat /\ arriving \in Nat
  BY DEF Types, TypeOK
<1>1. CASE Get
  <2>1. dispatcher'.pc = "wait"
    BY <1>1 DEF Get
  <2>2. directive_queue # <<>> /\ UNCHANGED <<gate, unanswered, arriving, quiet>>
    BY <1>1 DEF Get, gemini, history
  <2> QED  BY <2>1, <2>2 DEF GateHolds, Outstanding, NothingToSend
<1>2. CASE Wake \/ Timeout
  <2>1. dispatcher # AtGet
    BY <1>2 DEF Wake, Timeout, AtGet
  <2>2. gate \/ ~quiet'
    BY <1>2 DEF Wake, Timeout
  <2>3. UNCHANGED <<gate, unanswered, arriving>> /\ (quiet' => quiet)
    BY <1>2 DEF Wake, Timeout, gemini, history
  <2> QED  BY <1>0, <2>1, <2>2, <2>3 DEF GateHolds, Outstanding, NothingToSend
<1>3. CASE Inject
  <2>1. dispatcher.pc = "go" /\ dispatcher'.pc = "get"
    BY <1>3 DEF Inject, AtGet
  <2>2. /\ gate' = FALSE /\ unanswered' = unanswered + 1
        /\ arriving' = arriving /\ quiet' = quiet
    BY <1>3 DEF Inject, Hear
  <2> QED  BY <1>0, <2>1, <2>2 DEF GateHolds, Outstanding
<1>4. CASE Reply
  BY <1>0, <1>4 DEF Reply, gateway, history, GateHolds, Outstanding, NothingToSend
<1>5. CASE on_gemini_turn_complete
  <2>1. /\ arriving > 0 /\ arriving' = arriving - 1
        /\ unanswered' = unanswered /\ quiet' = quiet
    BY <1>5 DEF on_gemini_turn_complete, history
  <2> QED  BY <1>0, <2>1 DEF GateHolds, Outstanding
<1>6. CASE Press
  <2>1. /\ ptt = "up" /\ ptt' = "down"
        /\ UNCHANGED <<phase, directive_queue, gate, dispatcher, watchdog, quiet>>
    BY <1>6 DEF Press, gateway, history
  <2>2. CASE UNCHANGED gemini
    BY <1>0, <2>1, <2>2 DEF gemini, GateHolds, Outstanding, NothingToSend
  <2>3. CASE /\ unanswered > 0 /\ unanswered' = unanswered - 1
             /\ arriving' \in {arriving, arriving + 1}
    <3>0. /\ unanswered > 0 /\ unanswered' = unanswered - 1
          /\ arriving' = arriving \/ arriving' = arriving + 1
      BY <2>3
    <3>1. Outstanding' <= Outstanding /\ Outstanding' \in Nat /\ Outstanding \in Nat
      BY <1>0, <3>0 DEF Outstanding
    <3>2. Outstanding' = Outstanding \/ Outstanding' = Outstanding - 1
      BY <1>0, <3>0 DEF Outstanding
    <3>3. NothingToSend => NothingToSend'
      BY <2>1 DEF NothingToSend
    <3> HIDE DEF Outstanding
    <3>4. quiet /\ Outstanding' = 1 => Outstanding = 1
      BY <3>1, <3>2 DEF GateHolds
    <3>5. quiet => Outstanding' <= 1
      BY <3>1, <3>2 DEF GateHolds
    <3> QED  BY <2>1, <3>3, <3>4, <3>5 DEF GateHolds
  <2> QED  BY <1>6, <2>2, <2>3 DEF Press
<1> QED  BY <1>1, <1>2, <1>3, <1>4, <1>5, <1>6 DEF Dispatch

(* An input given by somebody else finds nothing said, sent or waiting.    *)
LEMMA OutOfTurnGate ==
    ASSUME Types, GateHolds, Release \/ Warn \/ HardStop
    PROVE  GateHolds'
<1>0. unanswered \in Nat /\ arriving \in Nat
  BY DEF Types, TypeOK
<1>1. /\ unanswered' = unanswered + 1 /\ arriving' = arriving
      /\ dispatcher' = dispatcher /\ directive_queue' = directive_queue
      /\ quiet' => Still
  BY DEF Release, Warn, HardStop, SpeakOfTime, Hear, OutOfTurn, gateway
<1> SUFFICES ASSUME quiet' PROVE GateHolds'
  BY DEF GateHolds
<1>2. /\ ptt' \in {"up", "down", "released"} \/ ptt' = ptt
      /\ \/ ptt' = "released" \/ watchdog' = "stopped"
         \/ watchdog' = "warned" /\ phase' = "PART2_LONG_TURN"
  BY DEF Release, Warn, HardStop, SpeakOfTime
<1>3. /\ Outstanding' = 1 /\ directive_queue' = <<>> /\ dispatcher' = AtGet
      /\ ptt' \in {"up", "down", "released"}
  BY <1>0, <1>1, <1>2 DEF Still, Outstanding
<1>4. NothingToSend'
  BY <1>2, <1>3 DEF NothingToSend
<1>5. dispatcher'.pc # "go"
  BY <1>3 DEF AtGet
<1> QED  BY <1>3, <1>4, <1>5 DEF GateHolds

(* The watchdog's look at the phase changes nothing that the gate is for.  *)
LEMMA LookGate ==
    ASSUME GateHolds, LongTurnGoesOn
    PROVE  GateHolds'
<1>1. UNCHANGED <<phase, directive_queue, gate, dispatcher, ptt, gemini, turns, history>>
  BY DEF LongTurnGoesOn
<1>2. NothingToSend => NothingToSend'
  BY <1>1 DEF NothingToSend, LongTurnGoesOn
<1> QED  BY <1>1, <1>2 DEF GateHolds, Outstanding, gemini, history

(* What queues a directive, and what changes the phase, clears the gate or *)
(* does so when nobody is being answered behind an open one.               *)
LEMMA PhaseGate ==
    ASSUME Types, GateHolds,
           \/ on_activity_end \/ TurnAdvances \/ CueCardAckedOrPrepared
           \/ WrapUpQueued \/ WrapUpAdvances \/ CutoffAdvances
    PROVE  GateHolds'
<1>1. /\ UNCHANGED <<dispatcher, unanswered, arriving>>
      /\ quiet' => quiet
  <2>1. CASE on_activity_end \/ TurnAdvances \/ CueCardAckedOrPrepared \/ CutoffAdvances
    BY <2>1 DEF on_activity_end, TurnAdvances, CueCardAckedOrPrepared, CutoffAdvances, gemini
  <2>2. CASE WrapUpQueued \/ WrapUpAdvances
    BY <2>2 DEF WrapUpQueued, WrapUpAdvances, gemini
  <2> QED  BY <2>1, <2>2
<1>2. CASE on_activity_end \/ CutoffAdvances
  <2>1. gate' = FALSE
    BY <1>2 DEF on_activity_end, CutoffAdvances
  <2> QED  BY <1>1, <2>1 DEF GateHolds, Outstanding
<1>3. CASE TurnAdvances
  <2>1. ~NothingToSend
    BY <1>3, BudgetedPhases DEF TurnAdvances, NothingToSend
  <2>2. gate' = gate
    BY <1>3 DEF TurnAdvances
  <2> QED  BY <1>1, <2>1, <2>2 DEF GateHolds, Outstanding
<1>4. CASE WrapUpQueued \/ WrapUpAdvances
  <2>1. watchdog \in {"polling", "expired"}
    BY <1>4 DEF WrapUpQueued, WrapUpAdvances
  <2>2. quiet' => ptt # "released"
    BY <1>4 DEF WrapUpQueued, WrapUpAdvances
  <2>3. gate' = gate
    BY <1>4 DEF WrapUpQueued, WrapUpAdvances
  <2>4. quiet' => ~NothingToSend
    BY <2>1, <2>2 DEF NothingToSend
  <2> QED  BY <1>1, <2>3, <2>4 DEF GateHolds, Outstanding
<1>5. CASE CueCardAckedOrPrepared
  <2>1. /\ phase \in {"PART2_CUECARD_PRESENT", "PART2_PREP"}
        /\ UNCHANGED <<gate, ptt>>
        /\ watchdog = "stopped" => watchdog' = watchdog
        /\ directive_queue' = directive_queue \o OnEnter(After(phase))
    BY <1>5 DEF CueCardAckedOrPrepared, _advance, _queue_directive, Unfinished
  <2>2. OnEnter(After(phase)) = <<>>
    BY <2>1, SilentPhases
  <2>3. directive_queue' = directive_queue
    BY <2>1, <2>2, ConcatEmptySeq DEF Types, TypeOK
  <2>4. NothingToSend => NothingToSend'
    BY <1>1, <2>1, <2>3 DEF NothingToSend
  <2> QED  BY <1>1, <2>1, <2>4 DEF GateHolds, Outstanding
<1> QED  BY <1>2, <1>3, <1>4, <1>5

----------------------------------------------------------------------------
(* The theorems *)

(* Every step keeps the inductive invariant. *)
LEMMA NextIInv == IInv /\ [Next]_vars => IInv'
<1> SUFFICES ASSUME IInv, [Next]_vars PROVE IInv'
  OBVIOUS
<1> USE DEF IInv
<1>1. CASE Dispatch
  BY <1>1, DispatchTypes, GeminiGate
<1>2. CASE Reply \/ on_gemini_turn_complete \/ Press
  BY <1>2, TurnTypes, GeminiGate
<1>3. CASE Release
  BY <1>3, TurnTypes, OutOfTurnGate
<1>4. CASE on_activity_end
  BY <1>4, TurnTypes, PhaseGate
<1>5. CASE TurnAdvances \/ CueCardAckedOrPrepared \/ WrapUpAdvances
  BY <1>5, AdvanceTypes, PhaseGate
<1>6. CASE WrapUpQueued \/ CutoffAdvances
  BY <1>6, WatchdogTypes, PhaseGate
<1>7. CASE Warn \/ HardStop
  BY <1>7, WatchdogTypes, OutOfTurnGate
<1>8. CASE LongTurnGoesOn
  BY <1>8, WatchdogTypes, LookGate
<1>9. CASE UNCHANGED vars
  BY <1>9 DEF vars, gateway, gemini, history, Types, TypeOK, PttType, Delivery,
              GateHolds, Outstanding, NothingToSend
<1> QED  BY <1>1, <1>2, <1>3, <1>4, <1>5, <1>6, <1>7, <1>8, <1>9 DEF Next

(* The inductive invariant holds in every reachable state. *)
THEOREM SpecIInv == Spec => []IInv
BY InitIInv, NextIInv, PTL DEF Spec

(* Every variable of the dispatch keeps its type. *)
THEOREM DispatchTypeOK == Spec => []TypeOK
<1>1. IInv => TypeOK
  BY DEF IInv, Types
<1> QED  BY <1>1, SpecIInv, PTL

(* While nobody speaks out of turn, the dispatcher never gives Gemini a    *)
(* second input to reply to, whatever the turns, the phases they start in, *)
(* the interruptions and the late or missing TurnCompletes.                *)
THEOREM DispatchOneQuestion == Spec => []OneQuestionAtATime
<1>1. IInv => OneQuestionAtATime
  BY DEF IInv, Types, TypeOK, GateHolds, Outstanding, OneQuestionAtATime
<1> QED  BY <1>1, SpecIInv, PTL

----------------------------------------------------------------------------
(* The channel, step by step *)

(* Telling what the dispatcher holds is the channel's next Tell. *)
LEMMA InjectTells ==
    ASSUME Types, Delivery, Inject
    PROVE  Channel!Tell
<1>1. PICK d \in Directive : dispatcher.text = <<d>>
  BY TextType DEF Inject, Types
<1>2. told \in Seq(Directive) /\ directive_queue \in Seq(Directive) /\ <<d>> \in Seq(Directive)
  BY SingletonSeq DEF Types, TypeOK
<1>3. told' = told \o <<d>> /\ asked' = asked
  BY <1>1 DEF Inject
<1> DEFINE held == <<d>>
           rest == held \o directive_queue
<1>4. held \in Seq(Directive) /\ Len(held) = 1 /\ held[1] = d
  BY <1>2
<1>5. asked = told \o rest
  BY <1>1 DEF Delivery
<1> HIDE DEF held
<1>6. /\ rest \in Seq(Directive) /\ Len(rest) = 1 + Len(directive_queue)
      /\ Len(directive_queue) \in Nat
  BY <1>2, <1>4, ConcatProperties, LenProperties
<1>7. rest[1] = d
  BY <1>2, <1>4, <1>6, ConcatProperties
<1> HIDE DEF rest
<1>8. /\ Len(asked) = Len(told) + Len(rest) /\ Len(told) \in Nat
      /\ \A i \in 1 .. Len(told) + Len(rest) :
            asked[i] = IF i <= Len(told) THEN told[i] ELSE rest[i - Len(told)]
  <2>1. told \in Seq(Directive) /\ rest \in Seq(Directive)
    BY <1>2, <1>6
  <2>2. /\ Len(told \o rest) = Len(told) + Len(rest)
        /\ \A i \in 1 .. Len(told) + Len(rest) :
              (told \o rest)[i] = IF i <= Len(told) THEN told[i] ELSE rest[i - Len(told)]
    BY <2>1, ConcatProperties
  <2>3. Len(told) \in Nat
    BY <2>1, LenProperties
  <2> QED  BY <1>5, <2>2, <2>3
<1>9. Len(told) < Len(asked) /\ asked[Len(told) + 1] = d
  BY <1>6, <1>7, <1>8
<1>10. told' = Append(told, d)
  BY <1>2, <1>3, AppendIsConcat
<1> QED  BY <1>3, <1>9, <1>10 DEF Channel!Tell

(* Every step queues one directive at most, and only Inject tells one. *)
LEMMA QueueAsks ==
    ASSUME Types, NEW ds, _queue_directive(ds),
           ds = <<>> \/ \E d \in Directive : ds = <<d>>
    PROVE  asked' = asked \/ \E d \in Directive : asked' = Append(asked, d)
<1>1. asked \in Seq(Directive)
  BY DEF Types, TypeOK
<1>2. CASE ds = <<>>
  BY <1>1, <1>2, ConcatEmptySeq DEF _queue_directive
<1>3. ASSUME NEW d \in Directive, ds = <<d>>
      PROVE  asked' = Append(asked, d)
  BY <1>1, <1>3, AppendIsConcat DEF _queue_directive
<1> QED  BY <1>2, <1>3

(* Every step of the dispatch is a step of the channel, or a stutter. *)
LEMMA StepIsChannels ==
    ASSUME IInv, [Next]_vars
    PROVE  [Channel!Next]_<<asked, told>>
<1> USE DEF IInv
<1> DEFINE Asks == /\ told' = told
                   /\ asked' = asked \/ \E d \in Directive : asked' = Append(asked, d)
<1>1. CASE Inject
  BY <1>1, InjectTells DEF Channel!Next
<1>2. Asks => [Channel!Next]_<<asked, told>>
  BY DEF Channel!Next, Channel!Ask
<1>3. CASE Get \/ Wake \/ Timeout \/ Reply \/ on_gemini_turn_complete \/ Press
           \/ Release \/ LongTurnGoesOn \/ Warn \/ HardStop \/ UNCHANGED vars
  BY <1>3 DEF Get, Wake, Timeout, Reply, on_gemini_turn_complete, Press, Release,
              LongTurnGoesOn, Warn, HardStop, SpeakOfTime, vars, history, gateway
<1>4. CASE on_activity_end
  <2>1. "reanchor" \in Directive /\ "part1_extend" \in Directive
    BY DEF Directive
  <2>2. told' = told
    BY <1>4 DEF on_activity_end
  <2>3. \/ asked' = asked
        \/ _queue_directive(<<"reanchor">>) \/ _queue_directive(<<"part1_extend">>)
    BY <1>4 DEF on_activity_end
  <2>4. Asks
    BY <2>1, <2>2, <2>3, QueueAsks
  <2> QED  BY <1>2, <2>4
<1>5. CASE TurnAdvances \/ CueCardAckedOrPrepared \/ WrapUpAdvances
  <2>1. told' = told
    BY <1>5 DEF TurnAdvances, CueCardAckedOrPrepared, WrapUpAdvances
  <2>2. asked' = asked \/ \E p : _queue_directive(OnEnter(p))
    BY <1>5 DEF TurnAdvances, CueCardAckedOrPrepared, WrapUpAdvances, _advance
  <2>3. Asks
    BY <2>1, <2>2, QueueAsks, OnEnterType
  <2> QED  BY <1>2, <2>3
<1>6. CASE WrapUpQueued
  <2>1. WrapUp(phase) \in Directive
    BY DEF WrapUp, Directive
  <2>2. told' = told /\ _queue_directive(<<WrapUp(phase)>>)
    BY <1>6 DEF WrapUpQueued
  <2>3. Asks
    BY <2>1, <2>2, QueueAsks
  <2> QED  BY <1>2, <2>3
<1>7. CASE CutoffAdvances
  <2>1. told' = told
    BY <1>7 DEF CutoffAdvances
  <2>2. asked' = asked \/ _queue_directive(OnEnter(phase'))
    BY <1>7 DEF CutoffAdvances, CutOff
  <2>3. Asks
    BY <2>1, <2>2, QueueAsks, OnEnterType
  <2> QED  BY <1>2, <2>3
<1> QED  BY <1>1, <1>3, <1>4, <1>5, <1>6, <1>7 DEF Next, Dispatch

(* What EveryDirectiveIsTold says apart from its fairness: what was told   *)
(* is told once and in the order it was asked for.                         *)
ChannelSteps == Channel!Init /\ [][Channel!Next]_<<asked, told>>

(* The dispatch implements the steps of the channel: no directive is lost, *)
(* repeated or overtaken on its way through the queue and the dispatcher.  *)
(* That each is told in the end stays with the model checker.              *)
THEOREM DispatchImplementsChannel == Spec => ChannelSteps
<1>1. Init => Channel!Init
  <2> SUFFICES ASSUME Init PROVE Channel!Init
    OBVIOUS
  <2>1. asked \in Seq(Directive)
    BY InitIInv DEF IInv, Types, TypeOK
  <2> QED  BY <2>1 DEF Init, Channel!Init
<1>2. IInv /\ [Next]_vars => [Channel!Next]_<<asked, told>>
  BY StepIsChannels
<1> QED  BY <1>1, <1>2, SpecIInv, PTL DEF Spec, ChannelSteps
============================================================================
